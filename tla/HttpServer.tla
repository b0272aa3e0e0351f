----------------------------- MODULE HttpServer -----------------------------
(***************************************************************************)
(* HTTP_Server (root/http/server.bs): recieve() accepts connections and    *)
(* spawns connectionThread for each, which reads a request, answers it and *)
(* starts over until the client is silent for too long or hangs up.        *)
(*                                                                         *)
(* A step of the server is what connectionThread does between two points   *)
(* where it may block.  A client sends whole requests, as many as          *)
(* MaxOutstanding without waiting for the answers; the network hands them  *)
(* to the server in pieces of any size.  Bytes are kept because the search *)
(* for the end of a header is about bytes; what they mean is not: a header *)
(* is one the grammar accepts or it is not.                                *)
(***************************************************************************)
EXTENDS HttpRoutingTable

CONSTANTS
    Conn,           \* the clients, one connection each
    Request,        \* the requests they send
    HeaderOf,       \* HeaderOf[r]: its bytes, the empty line included
    BodyOf,         \* BodyOf[r]: the bytes that follow
    PathOf,         \* PathOf[r]: the path in its first line
    Malformed,      \* the requests the grammar rejects
    NoRequest,      \* "none"
    BufSize,        \* 4096: the size of the buffer, and what it grows by
    NatRange,       \* 2^32: a Nat is a number below it
    MaxAsked,       \* bound: requests of a client
    MaxOutstanding  \* bound: requests of a client without an answer

\* The bytes "\r\n\r\n".
Separator == <<"cr", "lf", "cr", "lf">>

\* s has the separator at offset i (from 0).
SeparatorAt(s, i) == SubSeq(s, i + 1, i + 4) = Separator

\* t begins with s.
Begins(s, t) == Len(s) <= Len(t) /\ SubSeq(t, 1, Len(s)) = s

\* The bytes a client sends.
Byte == UNION {Range(HeaderOf[r]) \cup Range(BodyOf[r]) : r \in Request}

ASSUME HttpAssumption ==
    /\ \A r \in Request :
        /\ PathOf[r] \in Path
        /\ HeaderOf[r] \in Seq(Byte) /\ BodyOf[r] \in Seq(Byte)
        /\ {i \in 0 .. Len(HeaderOf[r]) - 4 : SeparatorAt(HeaderOf[r], i)}
              = {Len(HeaderOf[r]) - 4}
    /\ \A q \in Request, r \in Request \ Malformed : HeaderOf[q] = HeaderOf[r] => q = r
    /\ Malformed \subseteq Request
    /\ NoRequest \notin Request
    /\ BufSize \in Nat \ {0} /\ NatRange \in Nat
    /\ \A r \in Request : NatRange > 2 * (Len(HeaderOf[r]) + BufSize)
    /\ MaxAsked \in Nat /\ MaxOutstanding \in Nat

VARIABLES
    pc,             \* pc[c]: where the server is with c
    up,             \* up[c]: the client's end: open, half (no more to send), closed
    net,            \* net[c]: bytes sent and not read
    rBuf,           \* rBuf[c]: the filled part of the buffer
    count,          \* count[c]: its size
    request,        \* request[c]: the parsed request
    asked,          \* asked[c]: requests sent, in order
    sent,           \* sent[c]: the bytes of these requests
    answered        \* answered[c]: requests whose response was written

connVars == <<pc, up, net, rBuf, count, request, asked, sent, answered>>
vars == <<rTable, defautCallback, pc, up, net, rBuf, count, request, asked, sent, answered>>

\* waiting: not accepted yet; reading: in readSocket; respond: has a request;
\* ending: readSocket reported Request_Timeout; closed: socket.close() was
\* called; and the exceptions that end the thread, the socket still open.
Thrown == {"out_of_bounds", "parse_error", "no_route"}
PC == {"waiting", "reading", "respond", "ending", "closed"} \cup Thrown

TypeOK ==
    /\ RoutingTypeOK
    /\ pc \in [Conn -> PC]
    /\ up \in [Conn -> {"open", "half", "closed"}]
    /\ \A c \in Conn :
        /\ rBuf[c] \in Seq(Byte) /\ net[c] \in Seq(Byte)
        /\ Len(rBuf[c]) \in 0 .. count[c]
        /\ count[c] % BufSize = 0
        /\ request[c] \in Request \cup {NoRequest}
        /\ (request[c] # NoRequest) <=> (pc[c] \in {"respond", "no_route"})
        /\ asked[c] \in Seq(Request) /\ answered[c] \in Seq(Request)
        /\ sent[c] \in Seq(Byte)

Init ==
    /\ RoutingInit
    /\ pc = [c \in Conn |-> "waiting"]
    /\ up = [c \in Conn |-> "open"]
    /\ net = [c \in Conn |-> <<>>]
    /\ rBuf = [c \in Conn |-> <<>>]
    /\ count = [c \in Conn |-> BufSize]
    /\ request = [c \in Conn |-> NoRequest]
    /\ asked = [c \in Conn |-> <<>>]
    /\ sent = [c \in Conn |-> <<>>]
    /\ answered = [c \in Conn |-> <<>>]

----------------------------------------------------------------------------
(* The client.                                                             *)

Ask(c, r) ==
    /\ up[c] = "open"
    /\ Len(asked[c]) < MaxAsked
    /\ Len(asked[c]) - Len(answered[c]) < MaxOutstanding
    /\ asked' = [asked EXCEPT ![c] = Append(@, r)]
    /\ sent' = [sent EXCEPT ![c] = @ \o HeaderOf[r] \o BodyOf[r]]
    /\ net' = [net EXCEPT ![c] = IF pc[c] = "closed" THEN @ ELSE @ \o HeaderOf[r] \o BodyOf[r]]
    /\ UNCHANGED <<routingVars, pc, up, rBuf, count, request, answered>>

\* The client sends no more, or leaves.
HangUp(c, how) ==
    /\ up[c] = "open" \/ (up[c] = "half" /\ how = "closed")
    /\ up' = [up EXCEPT ![c] = how]
    /\ UNCHANGED <<routingVars, pc, net, rBuf, count, request, asked, sent, answered>>

----------------------------------------------------------------------------
(* The server.                                                             *)

\* recieve(): accept a connection and spawn connectionThread.
Recieve(c) ==
    /\ pc[c] = "waiting"
    /\ pc' = [pc EXCEPT ![c] = "reading"]
    /\ UNCHANGED <<routingVars, up, net, rBuf, count, request, asked, sent, answered>>

\* Mutant of Grown: room for one byte more.
GrownByOne(c) ==
    IF Len(rBuf[c]) = count[c]
    THEN [data |-> rBuf[c], count |-> count[c] + 1]
    ELSE [data |-> rBuf[c], count |-> count[c]]

\* Mutant of Grown: a larger buffer, and nothing in it.
GrownEmpty(c) ==
    IF Len(rBuf[c]) = count[c]
    THEN [data |-> <<>>, count |-> count[c] + BufSize]
    ELSE [data |-> rBuf[c], count |-> count[c]]

\* readSocket makes room before it reads.
Grown(c) ==
    IF Len(rBuf[c]) = count[c]
    THEN [data |-> rBuf[c], count |-> count[c] + BufSize]
    ELSE [data |-> rBuf[c], count |-> count[c]]

\* parseRequest: the request, or NoRequest where it throws HttpParseError.
ParseRequest(header) ==
    LET hits == {r \in Request \ Malformed : HeaderOf[r] = header}
    IN  IF hits = {} THEN NoRequest ELSE CHOOSE r \in hits : TRUE

\* Mutant of ScanLimit: off by one.
ScanLimitShort(filled) == (filled - 4) % NatRange

\* The bound of the loop that looks for the separator, a Nat.
ScanLimit(filled) == (filled - 3) % NatRange

\* The offsets below the bound with a separator.  cut() pads what is past
\* the filled part, so nothing is found there.
Found(data) == {i \in 0 .. Len(data) - 4 : i < ScanLimit(Len(data)) /\ SeparatorAt(data, i)}

\* readSocket: a read that got n bytes, and the search in what is there now.
ReadSome(c, n) ==
    LET room   == Grown(c)
        data   == room.data \o SubSeq(net[c], 1, n)
        hits   == Found(data)
        parsed == ParseRequest(SubSeq(data, 1, Min(hits) + 4))
    IN  /\ pc[c] = "reading"
        /\ up[c] # "closed" \/ net[c] # <<>>
        /\ n \in 1 .. Min({Len(net[c]), room.count - Len(room.data)})
        /\ net' = [net EXCEPT ![c] = SubSeq(@, n + 1, Len(@))]
        /\ rBuf' = [rBuf EXCEPT ![c] = data]
        /\ count' = [count EXCEPT ![c] = room.count]
        /\ request' = [request EXCEPT ![c] = IF hits # {} THEN parsed ELSE NoRequest]
        /\ pc' = [pc EXCEPT ![c] =
                CASE hits # {} /\ parsed # NoRequest -> "respond"
                  [] hits # {} /\ parsed = NoRequest -> "parse_error"
                  [] hits = {} /\ ScanLimit(Len(data)) > room.count -> "out_of_bounds"
                  [] OTHER -> "reading"]
        /\ UNCHANGED <<routingVars, up, asked, sent, answered>>

\* Mutant of ReadNothing: a read of no bytes is tried again.
ReadNothingRetries(c) ==
    /\ pc[c] = "reading"
    /\ net[c] = <<>> \/ up[c] = "closed"
    /\ UNCHANGED vars

\* readSocket: a read that got nothing, at the end of the stream, after an
\* error or because of the timeout.
ReadNothing(c) ==
    /\ pc[c] = "reading"
    /\ net[c] = <<>> \/ up[c] = "closed"
    /\ pc' = [pc EXCEPT ![c] = "ending"]
    /\ UNCHANGED <<routingVars, up, net, rBuf, count, request, asked, sent, answered>>

\* connectionThread: the client is gone, or silent: close and return.
CloseConnection(c) ==
    /\ pc[c] = "ending"
    /\ pc' = [pc EXCEPT ![c] = "closed"]
    /\ net' = [net EXCEPT ![c] = <<>>]
    /\ UNCHANGED <<routingVars, up, rBuf, count, request, asked, sent, answered>>

\* Mutant of Emptied: the next request is read behind the last one.
EmptiedNot(c) ==
    /\ rBuf' = rBuf
    /\ count' = count

\* rBuf.filled(0), on the buffer the thread started with.
Emptied(c) ==
    /\ rBuf' = [rBuf EXCEPT ![c] = <<>>]
    /\ count' = [count EXCEPT ![c] = BufSize]

\* connectionThread: find the callback, write its response, start over.
\* What write() returns is not looked at.
Respond(c) ==
    /\ pc[c] = "respond"
    /\ GetRouteResponse(PathOf[request[c]]) # NoCallback
    /\ answered' = [answered EXCEPT ![c] =
            IF up[c] = "closed" THEN @ ELSE Append(@, request[c])]
    /\ request' = [request EXCEPT ![c] = NoRequest]
    /\ Emptied(c)
    /\ pc' = [pc EXCEPT ![c] = "reading"]
    /\ UNCHANGED <<routingVars, up, net, asked, sent>>

\* connectionThread: no route matches and there is no default callback.
NoRoute(c) ==
    /\ pc[c] = "respond"
    /\ GetRouteResponse(PathOf[request[c]]) = NoCallback
    /\ pc' = [pc EXCEPT ![c] = "no_route"]
    /\ UNCHANGED <<routingVars, up, net, rBuf, count, request, asked, sent, answered>>

\* The program registers a callback, before or while it serves.
AddCallback ==
    /\ \/ \E f \in Callback \ {defautCallback} : AddDefaultCallback(f)
       \/ \E url \in Url, f \in Callback : AddCallbackUrl(url, f)
    /\ UNCHANGED connVars

----------------------------------------------------------------------------
ServerStep(c) ==
    \/ Recieve(c)
    \/ \E n \in 1 .. Len(net[c]) : ReadSome(c, n)
    \/ ReadNothing(c)
    \/ CloseConnection(c)
    \/ Respond(c)
    \/ NoRoute(c)

Next ==
    \/ \E c \in Conn :
        \/ \E r \in Request : Ask(c, r)
        \/ \E how \in {"half", "closed"} : HangUp(c, how)
        \/ ServerStep(c)
    \/ AddCallback

\* The program calls recieve() again and again, a UThread that can run runs,
\* and a read ends with data, with the end of the stream or by the timeout.
Fairness == \A c \in Conn : WF_vars(ServerStep(c))

Spec == Init /\ [][Next]_vars /\ Fairness

----------------------------------------------------------------------------
\* The bytes s have the header of r behind the first k.
HeaderAt(s, k, r) ==
    /\ k + Len(HeaderOf[r]) <= Len(s)
    /\ \A i \in 1 .. Len(HeaderOf[r]) : s[k + i] = HeaderOf[r][i]

\* Where in s a header begins.
Headers(s) == {k \in 0 .. Len(s) : \E r \in Request : HeaderAt(s, k, r)}

(* The responses on a connection belong, in their order, to headers in the *)
(* bytes that its client has sent, and no byte counts for two of them:     *)
(* nothing is answered twice, out of order or on the strength of bytes     *)
(* that do not follow one another, however the bytes arrive and also when  *)
(* the client does not wait (connectionThread, server.bs:91-114).  Such a  *)
(* header need not be where a request begins: connectionThread drops what  *)
(* it has read behind a header and does not count the bytes of a body, so  *)
(* a body that holds a request may be answered as one.                     *)
InOrder ==
    \A c \in Conn :
        \E from \in [DOMAIN answered[c] -> Headers(sent[c])] :
            \A i \in DOMAIN answered[c] :
                /\ HeaderAt(sent[c], from[i], answered[c][i])
                /\ \A j \in 1 .. i - 1 :
                      from[j] + Len(HeaderOf[answered[c][j]]) <= from[i]

(* The responses belong to requests of the client, in order and none of    *)
(* them twice.  This holds only of clients whose bodies hold no request.   *)
OnlyRequests ==
    \A c \in Conn :
        \E of \in [DOMAIN answered[c] -> DOMAIN asked[c]] :
            \A i \in DOMAIN answered[c] :
                /\ answered[c][i] = asked[c][of[i]]
                /\ \A j \in 1 .. i - 1 : of[j] < of[i]

(* When connectionThread waits for more bytes it has not overlooked a      *)
(* request: no complete header is in its buffer, also when the separator   *)
(* came in pieces or the buffer had to grow (server.bs:54-74).             *)
NoOverlookedHeader ==
    \A c \in Conn :
        pc[c] = "reading" =>
            \A i \in 0 .. Len(rBuf[c]) - 4 : ~SeparatorAt(rBuf[c], i)

(* While a request is read no byte is dropped: what a step takes from the  *)
(* network is appended to what was there, also when the buffer grows.      *)
(* Only a response empties the buffer (server.bs:55-61, 92).               *)
KeepsBytes ==
    [][\A c \in Conn :
          pc[c] = "reading" =>
              Begins(rBuf[c] \o net[c], rBuf'[c] \o net'[c])]_vars

(* A client that leaves takes its connection with it: connectionThread     *)
(* ends, by closing the socket or by an exception (server.bs:62-65,        *)
(* 95-106).                                                                *)
ThreadEnds ==
    \A c \in Conn : up[c] = "closed" ~> pc[c] \in {"closed"} \cup Thrown

(* "Changed from -3 to i+3 so we avoid underflow" (server.bs:67): the      *)
(* search for the separator stays inside the buffer however few bytes the  *)
(* first read gets.                                                        *)
NoUnderflow == \A c \in Conn : pc[c] # "out_of_bounds"
=============================================================================
