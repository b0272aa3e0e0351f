----------------------------- MODULE HttpProofs -----------------------------
(***************************************************************************)
(* The safety of the HTTP server, for any clients, requests, routes and    *)
(* buffer sizes.                                                           *)
(***************************************************************************)
EXTENDS HttpServer, WellFoundedInduction, SequenceTheorems, TLAPS

----------------------------------------------------------------------------
(***************************************************************************)
(* Least elements.                                                         *)
(***************************************************************************)

\* A set of numbers that is not empty has a least one, and Min is it.
LEMMA MinIsLeast ==
    ASSUME NEW S \in SUBSET Nat, S # {}
    PROVE  Min(S) \in S /\ \A y \in S : Min(S) <= y
<1> DEFINE R == OpToRel(<, Nat)
<1>1. IsWellFoundedOn(R, Nat)
  BY NatLessThanWellFounded, Zenon
<1>2. \A x, y \in Nat : <<x, y>> \in R <=> x < y
  BY Zenon DEF OpToRel
<1> HIDE DEF R
<1>3. PICK x \in S : \A y \in S : <<y, x>> \notin R
  BY <1>1, WFMin, Zenon
<1>4. ASSUME NEW y \in S PROVE x <= y
  <2>1. x \in Nat /\ y \in Nat
    BY Zenon
  <2>2. ~(y < x)
    BY <1>2, <1>3, <2>1, Zenon
  <2> QED
    BY <2>1, <2>2
<1> QED
  BY <1>4, Zenon DEF Min

\* A number that is larger than all of them is not the least one.
LEMMA MinOfMore ==
    ASSUME NEW S \in SUBSET Nat, S # {}, NEW n \in Nat, \A y \in S : y < n
    PROVE  Min(S \cup {n}) = Min(S)
<1>1. Min(S) \in S /\ \A y \in S : Min(S) <= y
  BY MinIsLeast, Zenon
<1>2. Min(S \cup {n}) \in S \cup {n} /\ \A y \in S \cup {n} : Min(S \cup {n}) <= y
  BY MinIsLeast, Zenon
<1>3. ASSUME NEW a \in S, \A y \in S : a <= y,
             NEW b \in S \cup {n}, \A y \in S \cup {n} : b <= y
      PROVE  a = b
  <2>1. a \in Nat /\ b \in Nat /\ b <= a /\ a < n
    BY <1>3, Zenon
  <2>2. a <= b
    BY <1>3, <2>1
  <2> QED
    BY <2>1, <2>2
<1> QED
  BY <1>1, <1>2, <1>3, Zenon

----------------------------------------------------------------------------
(***************************************************************************)
(* Routing.                                                                *)
(***************************************************************************)
USE RoutingAssumption

\* A table that grows at its end answers as before where it answered.
LEMMA AppendAnswers ==
    ASSUME RoutingTypeOK, NEW url \in Url, NEW f \in Callback, AddCallbackUrl(url, f),
           NEW path \in Path, Routed(path)
    PROVE  GetRouteResponse(path)' = GetRouteResponse(path)
<1> DEFINE hits == {i \in DOMAIN rTable : Matches(rTable[i].route, path)}
<1> DEFINE next == {i \in DOMAIN rTable' : Matches(rTable'[i].route, path)}
<1> DEFINE n == Len(rTable) + 1
<1>1. /\ rTable \in Seq([route : Url, callback : Callback])
      /\ [route |-> url, callback |-> f] \in [route : Url, callback : Callback]
      /\ rTable' = Append(rTable, [route |-> url, callback |-> f])
  BY Zenon DEF RoutingTypeOK, AddCallbackUrl
<1>2. /\ DOMAIN rTable = 1 .. Len(rTable) /\ Len(rTable) \in Nat
      /\ DOMAIN rTable' = 1 .. n
      /\ \A i \in DOMAIN rTable : rTable'[i] = rTable[i]
  BY <1>1
<1>3. hits # {} /\ hits \in SUBSET Nat /\ \A i \in hits : i < n
  BY <1>2 DEF Routed
<1>4. next = hits \/ next = hits \cup {n}
  BY <1>2
<1>5. Min(next) = Min(hits)
  <2>1. n \in Nat
    BY <1>2
  <2> HIDE DEF hits, next, n
  <2>2. Min(hits \cup {n}) = Min(hits)
    BY <1>3, <2>1, MinOfMore, Zenon
  <2> QED
    BY <1>4, <2>2, Zenon
<1>6. Min(hits) \in hits
  BY <1>3, MinIsLeast, Zenon
<1>7. rTable'[Min(next)].callback = rTable[Min(hits)].callback
  BY <1>2, <1>5, <1>6, Zenon
<1>8. GetRouteResponse(path) = rTable[Min(hits)].callback
  BY <1>3, Zenon DEF GetRouteResponse
<1>9. GetRouteResponse(path)' = rTable'[Min(next)].callback
  BY <1>3, <1>4, Zenon DEF GetRouteResponse
<1> QED
  BY <1>7, <1>8, <1>9, Zenon

\* The routing table is a list of routes.
LEMMA RoutingInvariance == Spec => []RoutingTypeOK
<1>1. Init => RoutingTypeOK
  BY DEF Init, RoutingInit, RoutingTypeOK
<1>2. RoutingTypeOK /\ [Next]_vars => RoutingTypeOK'
  <2> SUFFICES ASSUME RoutingTypeOK, [Next]_vars PROVE RoutingTypeOK'
    BY Zenon
  <2>1. ASSUME NEW f \in Callback, AddDefaultCallback(f) PROVE RoutingTypeOK'
    BY <2>1, Zenon DEF AddDefaultCallback, RoutingTypeOK
  <2>2. ASSUME NEW url \in Url, NEW f \in Callback, AddCallbackUrl(url, f)
        PROVE  RoutingTypeOK'
    BY <2>2 DEF AddCallbackUrl, RoutingTypeOK
  <2>3. ASSUME UNCHANGED routingVars PROVE RoutingTypeOK'
    BY <2>3, Zenon DEF routingVars, RoutingTypeOK
  <2>4. CASE AddCallback
    BY <2>1, <2>2, <2>4, Zenon DEF AddCallback
  <2>5. CASE Next /\ ~AddCallback
    BY <2>3, <2>5, ZenonT(60)
    DEF Next, Ask, HangUp, ServerStep, Recieve, ReadSome, ReadNothing, CloseConnection, Respond,
        NoRoute
  <2>6. CASE UNCHANGED vars
    BY <2>3, <2>6, Zenon DEF vars, routingVars
  <2> QED
    BY <2>4, <2>5, <2>6, Zenon
<1> QED
  BY <1>1, <1>2, PTL DEF Spec

\* Registering a callback while the server runs changes the answer to no path
\* that a route answers already.
THEOREM RoutesKept == Spec => RoutesStable
<1> DEFINE Same == \A path \in Path :
                      Routed(path) => GetRouteResponse(path)' = GetRouteResponse(path)
<1>1. RoutingTypeOK /\ [Next]_vars => [Same]_routingVars
  <2> SUFFICES ASSUME RoutingTypeOK, [Next]_vars PROVE Same \/ UNCHANGED routingVars
    BY Zenon
  <2>1. ASSUME NEW f \in Callback, AddDefaultCallback(f) PROVE Same
    BY <2>1, Zenon DEF AddDefaultCallback, Routed, GetRouteResponse
  <2>2. ASSUME NEW url \in Url, NEW f \in Callback, AddCallbackUrl(url, f) PROVE Same
    BY <2>2, AppendAnswers, Zenon
  <2>4. CASE AddCallback
    BY <2>1, <2>2, <2>4, Zenon DEF AddCallback
  <2>5. CASE Next /\ ~AddCallback
    BY <2>5, ZenonT(60)
    DEF Next, Ask, HangUp, ServerStep, Recieve, ReadSome, ReadNothing, CloseConnection, Respond,
        NoRoute
  <2>6. CASE UNCHANGED vars
    BY <2>6, Zenon DEF vars, routingVars
  <2> QED
    BY <2>4, <2>5, <2>6, Zenon
<1> QED
  BY <1>1, RoutingInvariance, PTL DEF Spec, RoutesStable

----------------------------------------------------------------------------
(***************************************************************************)
(* Bytes and buffers.                                                      *)
(***************************************************************************)

\* What is sent and read are bytes, and a connection starts with an empty buffer.
BytesInv ==
    /\ pc \in [Conn -> PC]
    /\ rBuf \in [Conn -> Seq(Byte)]
    /\ net \in [Conn -> Seq(Byte)]
    /\ \A c \in Conn : pc[c] = "waiting" => rBuf[c] = <<>>

\* No buffer is so large that its size is no Nat.
BuffersFit == \A c \in Conn : Len(rBuf[c]) < NatRange

\* What follows on a sequence leaves it a prefix.
LEMMA PrefixOfConcat ==
    ASSUME NEW S, NEW s \in Seq(S), NEW t \in Seq(S)
    PROVE  Begins(s, s) /\ Begins(s, s \o t)
<1>1. s \o t \in Seq(S) /\ Len(s) <= Len(s \o t) /\ Len(s) \in Nat
  BY ConcatProperties, LenProperties
<1>2. \A i \in 1 .. Len(s) : s[i] \in S /\ (s \o t)[i] = s[i]
  BY ConcatProperties, ElementOfSeq, LenProperties
<1>3. SubSeq(s, 1, Len(s)) = SubSeq(s \o t, 1, Len(s))
  OBVIOUS
<1> QED
  BY <1>1, <1>3 DEF Begins

\* Concatenation is associative.
LEMMA Associative == \A s, t, u \in Seq(Byte) : (s \o t) \o u = s \o (t \o u)
BY ConcatAssociative, SMTT(60)

\* Moving bytes from the front of one sequence to the end of another.
LEMMA MoveBytes ==
    ASSUME NEW s \in Seq(Byte), NEW t \in Seq(Byte), NEW n \in 1 .. Len(t)
    PROVE  /\ s \o SubSeq(t, 1, n) \in Seq(Byte)
           /\ SubSeq(t, n + 1, Len(t)) \in Seq(Byte)
           /\ (s \o SubSeq(t, 1, n)) \o SubSeq(t, n + 1, Len(t)) = s \o t
<1>1. SubSeq(t, 1, n) \in Seq(Byte) /\ SubSeq(t, n + 1, Len(t)) \in Seq(Byte)
  OBVIOUS
<1>2. SubSeq(t, 1, n) \o SubSeq(t, n + 1, Len(t)) = SubSeq(t, 1, Len(t))
  <2>1. /\ 1 \in 1 .. Len(t) + 1 /\ n \in 1 - 1 .. Len(t) /\ Len(t) \in n .. Len(t)
        /\ Len(t) \in Nat
    BY LenProperties
  <2> QED
    BY <2>1, ConcatAdjacentSubSeq, Zenon
<1>3. SubSeq(t, 1, Len(t)) = t
  BY SubSeqFull, Zenon
<1>4. (s \o SubSeq(t, 1, n)) \o SubSeq(t, n + 1, Len(t))
        = s \o (SubSeq(t, 1, n) \o SubSeq(t, n + 1, Len(t)))
  <2> DEFINE a == SubSeq(t, 1, n)
  <2> DEFINE b == SubSeq(t, n + 1, Len(t))
  <2>1. a \in Seq(Byte) /\ b \in Seq(Byte)
    BY <1>1, Zenon
  <2> HIDE DEF a, b
  <2>2. (s \o a) \o b = s \o (a \o b)
    BY <2>1, Associative, Zenon
  <2> QED
    BY <2>2, Zenon DEF a, b
<1>5. s \o SubSeq(t, 1, n) \in Seq(Byte)
  BY <1>1, ConcatProperties, Zenon
<1> QED
  BY <1>1, <1>2, <1>3, <1>4, <1>5, Zenon

\* What Ask adds to the network.
LEMMA AskBytes ==
    ASSUME NEW s \in Seq(Byte), NEW r \in Request
    PROVE  /\ s \o HeaderOf[r] \o BodyOf[r] \in Seq(Byte)
           /\ s \o HeaderOf[r] \o BodyOf[r] = s \o (HeaderOf[r] \o BodyOf[r])
           /\ HeaderOf[r] \o BodyOf[r] \in Seq(Byte)
<1>1. HeaderOf[r] \in Seq(Byte) /\ BodyOf[r] \in Seq(Byte)
  BY HttpAssumption, Zenon
<1>2. s \o HeaderOf[r] \o BodyOf[r] = s \o (HeaderOf[r] \o BodyOf[r])
  BY <1>1, Associative, Zenon
<1>3. HeaderOf[r] \o BodyOf[r] \in Seq(Byte) /\ s \o HeaderOf[r] \in Seq(Byte)
  BY <1>1, ConcatProperties, Zenon
<1>4. s \o HeaderOf[r] \o BodyOf[r] \in Seq(Byte)
  BY <1>1, <1>3, ConcatProperties, Zenon
<1> QED
  BY <1>2, <1>3, <1>4, Zenon

\* A read moves bytes from the network to the buffer.
LEMMA ReadBytes ==
    ASSUME BytesInv, NEW c \in Conn, NEW n \in 1 .. Len(net[c]), ReadSome(c, n)
    PROVE  /\ rBuf' = [rBuf EXCEPT ![c] = rBuf[c] \o SubSeq(net[c], 1, n)]
           /\ net' = [net EXCEPT ![c] = SubSeq(net[c], n + 1, Len(net[c]))]
           /\ rBuf[c] \in Seq(Byte) /\ net[c] \in Seq(Byte)
           /\ rBuf'[c] \in Seq(Byte) /\ net'[c] \in Seq(Byte)
           /\ rBuf'[c] \o net'[c] = rBuf[c] \o net[c]
<1>1. Grown(c).data = rBuf[c]
  BY Zenon DEF Grown
<1>2. /\ rBuf' = [rBuf EXCEPT ![c] = Grown(c).data \o SubSeq(net[c], 1, n)]
      /\ net' = [net EXCEPT ![c] = SubSeq(@, n + 1, Len(@))]
  BY Zenon DEF ReadSome
<1>3. rBuf[c] \in Seq(Byte) /\ net[c] \in Seq(Byte)
  BY Zenon DEF BytesInv
<1>4. /\ rBuf'[c] = rBuf[c] \o SubSeq(net[c], 1, n)
      /\ net'[c] = SubSeq(net[c], n + 1, Len(net[c]))
  BY <1>1, <1>2, Zenon DEF BytesInv
<1>5. /\ rBuf[c] \o SubSeq(net[c], 1, n) \in Seq(Byte)
      /\ SubSeq(net[c], n + 1, Len(net[c])) \in Seq(Byte)
      /\ (rBuf[c] \o SubSeq(net[c], 1, n)) \o SubSeq(net[c], n + 1, Len(net[c])) = rBuf[c] \o net[c]
  <2>1. \A s, t \in Seq(Byte) : \A k \in 1 .. Len(t) :
            /\ s \o SubSeq(t, 1, k) \in Seq(Byte)
            /\ SubSeq(t, k + 1, Len(t)) \in Seq(Byte)
            /\ (s \o SubSeq(t, 1, k)) \o SubSeq(t, k + 1, Len(t)) = s \o t
    BY MoveBytes, Zenon
  <2> QED
    BY <1>3, <2>1, Zenon
<1> QED
  BY <1>1, <1>2, <1>3, <1>4, <1>5, Zenon

\* Only bytes arrive, and the places of connectionThread are those of PC.
LEMMA BytesInvariance == Spec => []BytesInv
<1>1. Init => BytesInv
  BY DEF Init, BytesInv, PC
<1>2. BytesInv /\ [Next]_vars => BytesInv'
  <2> SUFFICES ASSUME BytesInv, [Next]_vars PROVE BytesInv'
    BY Zenon
  <2>0. \A c \in Conn : rBuf[c] \in Seq(Byte) /\ net[c] \in Seq(Byte)
    BY Zenon DEF BytesInv
  <2>1. ASSUME NEW c \in Conn, NEW r \in Request, Ask(c, r) PROVE BytesInv'
    <3>1. net[c] \o HeaderOf[r] \o BodyOf[r] \in Seq(Byte)
      BY <2>0, AskBytes, Zenon
    <3> QED
      BY <2>1, <3>1, Zenon DEF Ask, BytesInv
  <2>2. ASSUME NEW c \in Conn, NEW how \in {"half", "closed"}, HangUp(c, how) PROVE BytesInv'
    BY <2>2, Zenon DEF HangUp, BytesInv
  <2>3. ASSUME NEW c \in Conn, Recieve(c) PROVE BytesInv'
    BY <2>3, Zenon DEF Recieve, BytesInv, PC
  <2>4. ASSUME NEW c \in Conn, NEW n \in 1 .. Len(net[c]), ReadSome(c, n) PROVE BytesInv'
    <3>1. rBuf' \in [Conn -> Seq(Byte)] /\ net' \in [Conn -> Seq(Byte)]
      BY <2>4, ReadBytes, Zenon DEF BytesInv
    <3>2. pc' \in [Conn -> PC]
      <4>1. PICK p \in {"respond", "parse_error", "out_of_bounds", "reading"} :
                pc' = [pc EXCEPT ![c] = p]
        BY <2>4, Zenon DEF ReadSome
      <4> QED
        BY <4>1, Zenon DEF BytesInv, PC, Thrown
    <3>3. ASSUME NEW d \in Conn, pc'[d] = "waiting" PROVE rBuf'[d] = <<>>
      <4>1. PICK p \in {"respond", "parse_error", "out_of_bounds", "reading"} :
                pc' = [pc EXCEPT ![c] = p]
        BY <2>4, Zenon DEF ReadSome
      <4>2. d # c /\ pc[d] = "waiting"
        BY <3>3, <4>1, Zenon DEF BytesInv
      <4> QED
        BY <2>4, <4>2, ReadBytes DEF BytesInv
    <3> QED
      BY <3>1, <3>2, <3>3, Zenon DEF BytesInv
  <2>5. ASSUME NEW c \in Conn, ReadNothing(c) PROVE BytesInv'
    BY <2>5, Zenon DEF ReadNothing, BytesInv, PC
  <2>6. ASSUME NEW c \in Conn, CloseConnection(c) PROVE BytesInv'
    BY <2>6 DEF CloseConnection, BytesInv, PC
  <2>7. ASSUME NEW c \in Conn, Respond(c) PROVE BytesInv'
    BY <2>7 DEF Respond, Emptied, BytesInv, PC
  <2>8. ASSUME NEW c \in Conn, NoRoute(c) PROVE BytesInv'
    BY <2>8, Zenon DEF NoRoute, BytesInv, PC, Thrown
  <2>9. CASE AddCallback \/ UNCHANGED vars
    BY <2>9, Zenon DEF AddCallback, connVars, vars, BytesInv
  <2> QED
    BY <2>1, <2>2, <2>3, <2>4, <2>5, <2>6, <2>7, <2>8, <2>9, Zenon DEF Next,
       ServerStep
<1> QED
  BY <1>1, <1>2, PTL DEF Spec

\* While readSocket collects a request it drops no byte: what was there and what
\* is on its way only grows at its end.
THEOREM BytesKept == Spec => KeepsBytes
<1> DEFINE Kept(c) == Begins(rBuf[c] \o net[c], rBuf'[c] \o net'[c])
<1> DEFINE Keeps == \A c \in Conn : pc[c] = "reading" => Kept(c)
<1>1. BytesInv /\ [Next]_vars => [Keeps]_vars
  <2> SUFFICES ASSUME BytesInv, Next PROVE Keeps
    BY Zenon
  <2>0. \A c \in Conn : /\ rBuf[c] \in Seq(Byte) /\ net[c] \in Seq(Byte)
                        /\ rBuf[c] \o net[c] \in Seq(Byte)
    BY ConcatProperties, Zenon DEF BytesInv
  <2>s. ASSUME NEW c \in Conn, rBuf'[c] = rBuf[c], net'[c] = net[c] PROVE Kept(c)
    BY <2>0, <2>s, PrefixOfConcat, Zenon
  <2>1. ASSUME NEW c \in Conn, NEW r \in Request, Ask(c, r) PROVE Keeps
    <3> SUFFICES ASSUME NEW d \in Conn, pc[d] = "reading" PROVE Kept(d)
      BY Zenon
    <3>1. CASE d # c
      BY <2>1, <2>s, <3>1, Zenon DEF Ask, BytesInv
    <3>2. CASE d = c
      <4> DEFINE t == HeaderOf[r] \o BodyOf[r]
      <4>1. t \in Seq(Byte) /\ net[c] \o HeaderOf[r] \o BodyOf[r] = net[c] \o t
        BY <2>0, AskBytes, Zenon
      <4>2. rBuf'[c] = rBuf[c] /\ net'[c] = net[c] \o HeaderOf[r] \o BodyOf[r]
        BY <2>1, <3>2, Zenon DEF Ask, BytesInv
      <4> HIDE DEF t
      <4>3. rBuf'[c] \o net'[c] = (rBuf[c] \o net[c]) \o t
        <5>1. (rBuf[c] \o net[c]) \o t = rBuf[c] \o (net[c] \o t)
          <6>1. rBuf[c] \in Seq(Byte) /\ net[c] \in Seq(Byte) /\ t \in Seq(Byte)
            BY <2>0, <4>1, Zenon
          <6> QED
            BY <6>1, Associative, Zenon
        <5>2. rBuf'[c] \o net'[c] = rBuf[c] \o (net[c] \o t)
          BY <4>1, <4>2, Zenon
        <5> QED
          BY <5>1, <5>2, Zenon
      <4> QED
        BY <2>0, <3>2, <4>1, <4>3, PrefixOfConcat, Zenon
    <3> QED
      BY <3>1, <3>2, Zenon
  <2>2. ASSUME NEW c \in Conn, NEW n \in 1 .. Len(net[c]), ReadSome(c, n) PROVE Keeps
    <3> SUFFICES ASSUME NEW d \in Conn PROVE Kept(d)
      BY Zenon
    <3>1. CASE d # c
      BY <2>2, <2>s, <3>1, ReadBytes, ZenonT(60) DEF BytesInv
    <3>2. CASE d = c
      BY <2>0, <2>2, <3>2, ReadBytes, PrefixOfConcat, Zenon
    <3> QED
      BY <3>1, <3>2, Zenon
  <2>3. ASSUME NEW c \in Conn, CloseConnection(c) PROVE Keeps
    BY <2>s, <2>3, Zenon DEF CloseConnection, BytesInv
  <2>4. ASSUME NEW c \in Conn, Respond(c) PROVE Keeps
    BY <2>s, <2>4, Zenon DEF Respond, Emptied, BytesInv
  <2>5. ASSUME UNCHANGED <<rBuf, net>> PROVE Keeps
    BY <2>s, <2>5, Zenon
  <2>6. ASSUME NEW c \in Conn,
               \/ \E how \in {"half", "closed"} : HangUp(c, how)
               \/ Recieve(c) \/ ReadNothing(c) \/ NoRoute(c)
        PROVE  Keeps
    BY <2>5, <2>6, Zenon DEF HangUp, Recieve, ReadNothing, NoRoute
  <2>7. CASE AddCallback
    BY <2>5, <2>7, Zenon DEF AddCallback, connVars
  <2> QED
    BY <2>1, <2>2, <2>3, <2>4, <2>6, <2>7, Zenon DEF Next, ServerStep
<1> QED
  BY <1>1, BytesInvariance, PTL DEF Spec, KeepsBytes

----------------------------------------------------------------------------
(***************************************************************************)
(* The search.                                                             *)
(***************************************************************************)

\* In a buffer that fits, the search looks everywhere.
LEMMA SearchIsComplete ==
    ASSUME NEW data \in Seq(Byte), Len(data) < NatRange, Found(data) = {},
           NEW i \in 0 .. Len(data) - 4
    PROVE  ~SeparatorAt(data, i)
<1>1. NatRange \in Nat /\ Len(data) \in Nat
  BY HttpAssumption
<1>2. Len(data) - 3 \in 0 .. NatRange - 1
  BY <1>1
<1>3. \A m \in Nat : \A k \in 0 .. m - 1 : k % m = k
  OBVIOUS
<1>4. ScanLimit(Len(data)) = Len(data) - 3
  BY <1>1, <1>2, <1>3, Zenon DEF ScanLimit
<1>5. i < ScanLimit(Len(data))
  BY <1>1, <1>4
<1> QED
  BY <1>5, Zenon DEF Found

\* When connectionThread waits for more, no complete header is in its buffer, as
\* long as no buffer outgrows a Nat.
THEOREM NothingOverlooked == Spec /\ []BuffersFit => []NoOverlookedHeader
<1>1. Init => NoOverlookedHeader
  BY Zenon DEF Init, NoOverlookedHeader
<1>2. NoOverlookedHeader /\ BytesInv /\ BuffersFit' /\ [Next]_vars => NoOverlookedHeader'
  <2> SUFFICES ASSUME NoOverlookedHeader, BytesInv, BuffersFit', [Next]_vars,
                      NEW d \in Conn, pc'[d] = "reading",
                      NEW i \in 0 .. Len(rBuf'[d]) - 4
               PROVE  ~SeparatorAt(rBuf'[d], i)
    BY Zenon DEF NoOverlookedHeader, SeparatorAt
  <2>0. ASSUME pc[d] = "reading", rBuf'[d] = rBuf[d] PROVE ~SeparatorAt(rBuf'[d], i)
    BY <2>0, Zenon DEF NoOverlookedHeader
  <2>e. ASSUME rBuf'[d] = <<>> PROVE FALSE
    BY <2>e
  <2>1. ASSUME NEW c \in Conn, NEW r \in Request, Ask(c, r) PROVE ~SeparatorAt(rBuf'[d], i)
    BY <2>0, <2>1, Zenon DEF Ask
  <2>2. ASSUME NEW c \in Conn, NEW how \in {"half", "closed"}, HangUp(c, how)
        PROVE  ~SeparatorAt(rBuf'[d], i)
    BY <2>0, <2>2, Zenon DEF HangUp
  <2>3. ASSUME NEW c \in Conn, Recieve(c) PROVE ~SeparatorAt(rBuf'[d], i)
    <3>1. CASE d = c
      BY <2>3, <2>e, <3>1, Zenon DEF Recieve, BytesInv
    <3>2. CASE d # c
      BY <2>0, <2>3, <3>2, Zenon DEF Recieve, BytesInv
    <3> QED
      BY <3>1, <3>2, Zenon
  <2>4. ASSUME NEW c \in Conn, NEW n \in 1 .. Len(net[c]), ReadSome(c, n)
        PROVE  ~SeparatorAt(rBuf'[d], i)
    <3>1. CASE d # c
      <4>1. PICK p : pc' = [pc EXCEPT ![c] = p]
        BY <2>4, Zenon DEF ReadSome
      <4> QED
        BY <2>0, <2>4, <3>1, <4>1, ReadBytes, ZenonT(60) DEF BytesInv
    <3>2. CASE d = c
      <4> DEFINE data == Grown(c).data \o SubSeq(net[c], 1, n)
      <4>1. ASSUME Found(data) # {} PROVE pc'[c] # "reading"
        <5>1. PICK p \in {"respond", "parse_error"} : pc' = [pc EXCEPT ![c] = p]
          BY <2>4, <4>1, Zenon DEF ReadSome
        <5> QED
          BY <5>1, Zenon DEF BytesInv
      <4>2. rBuf'[c] = data /\ rBuf'[c] \in Seq(Byte)
        <5>1. rBuf' = [rBuf EXCEPT ![c] = data]
          BY <2>4, Zenon DEF ReadSome
        <5> QED
          BY <2>4, <5>1, ReadBytes, Zenon DEF BytesInv
      <4> HIDE DEF data
      <4>3. Len(data) < NatRange
        BY <4>2, Zenon DEF BuffersFit
      <4> QED
        BY <3>2, <4>1, <4>2, <4>3, SearchIsComplete, Zenon
    <3> QED
      BY <3>1, <3>2, Zenon
  <2>5. ASSUME NEW c \in Conn, ReadNothing(c) \/ CloseConnection(c) \/ NoRoute(c)
        PROVE  ~SeparatorAt(rBuf'[d], i)
    BY <2>0, <2>5, Zenon DEF ReadNothing, CloseConnection, NoRoute, BytesInv
  <2>6. ASSUME NEW c \in Conn, Respond(c) PROVE ~SeparatorAt(rBuf'[d], i)
    <3>1. CASE d = c
      BY <2>6, <2>e, <3>1, Zenon DEF Respond, Emptied, BytesInv
    <3>2. CASE d # c
      BY <2>0, <2>6, <3>2, Zenon DEF Respond, Emptied, BytesInv
    <3> QED
      BY <3>1, <3>2, Zenon
  <2>7. CASE AddCallback \/ UNCHANGED vars
    BY <2>0, <2>7, Zenon DEF AddCallback, connVars, vars
  <2> QED
    BY <2>1, <2>2, <2>3, <2>4, <2>5, <2>6, <2>7, Zenon DEF Next, ServerStep
<1> QED
  BY <1>1, <1>2, BytesInvariance, PTL DEF Spec

----------------------------------------------------------------------------
(***************************************************************************)
(* Types.                                                                  *)
(***************************************************************************)

\* A buffer has a size that is a multiple of BufSize and holds what it is filled
\* with; there is a request while one is answered.
SizesInv ==
    /\ up \in [Conn -> {"open", "half", "closed"}]
    /\ count \in [Conn -> Nat]
    /\ request \in [Conn -> Request \cup {NoRequest}]
    /\ asked \in [Conn -> Seq(Request)] /\ answered \in [Conn -> Seq(Request)]
    /\ sent \in [Conn -> Seq(Byte)]
    /\ \A c \in Conn :
          /\ Len(rBuf[c]) <= count[c] /\ \E k \in Nat : count[c] = BufSize * k
          /\ (request[c] # NoRequest) <=> (pc[c] \in {"respond", "no_route"})

\* A multiple of BufSize is one after the buffer has grown.
LEMMA Multiples ==
    /\ \A k \in Nat : BufSize * k \in Nat /\ (BufSize * k) % BufSize = 0
    /\ \A k \in Nat : BufSize * k + BufSize = BufSize * (k + 1)
    /\ BufSize = BufSize * 1 /\ BufSize \in Nat
<1>1. BufSize \in Nat \ {0}
  BY HttpAssumption, Zenon
<1>2. \A b \in Nat \ {0}, k \in Nat : b * k \in Nat /\ (b * k) % b = 0
  OBVIOUS
<1> QED
  BY <1>1, <1>2

\* What readSocket makes of the header it found.
LEMMA ParseType == \A header : ParseRequest(header) \in Request \cup {NoRequest}
<1> TAKE header
<1> DEFINE hits == {r \in Request \ Malformed : HeaderOf[r] = header}
<1>1. CASE hits = {}
  BY <1>1, Zenon DEF ParseRequest
<1>2. CASE hits # {}
  <2>1. (CHOOSE r \in hits : TRUE) \in hits
    BY <1>2, Zenon
  <2>2. (CHOOSE r \in hits : TRUE) \in Request
    BY <2>1, Zenon
  <2> QED
    BY <1>2, <2>2, Zenon DEF ParseRequest
<1> QED
  BY <1>1, <1>2, Zenon

\* A read fills the room there is.
LEMMA ReadFits ==
    ASSUME BytesInv, SizesInv, NEW c \in Conn, NEW n \in 1 .. Len(net[c]), ReadSome(c, n)
    PROVE  /\ Len(rBuf'[c]) = Len(rBuf[c]) + n
           /\ count' = [count EXCEPT ![c] = Grown(c).count]
           /\ Grown(c).count \in Nat /\ Len(rBuf'[c]) <= Grown(c).count
           /\ \E k \in Nat : Grown(c).count = BufSize * k
<1>1. /\ rBuf[c] \in Seq(Byte) /\ net[c] \in Seq(Byte) /\ rBuf \in [Conn -> Seq(Byte)]
      /\ count[c] \in Nat /\ Len(rBuf[c]) <= count[c]
  BY Zenon DEF BytesInv, SizesInv
<1>2. PICK k \in Nat : count[c] = BufSize * k
  BY Zenon DEF SizesInv
<1>3. /\ Grown(c).data = rBuf[c] /\ Grown(c).count \in {count[c], count[c] + BufSize}
      /\ Grown(c).count \in Nat /\ Len(rBuf[c]) <= Grown(c).count
  <2>1. Grown(c).data = rBuf[c] /\ Grown(c).count \in {count[c], count[c] + BufSize}
    BY Zenon DEF Grown
  <2>2. BufSize \in Nat /\ Len(rBuf[c]) \in Nat
    BY <1>1, Multiples
  <2>3. \A x \in {count[c], count[c] + BufSize} : x \in Nat /\ Len(rBuf[c]) <= x
    BY <1>1, <2>2
  <2> QED
    BY <2>1, <2>3, Zenon
<1>4. \E m \in Nat : Grown(c).count = BufSize * m
  <2>1. k + 1 \in Nat /\ BufSize * k + BufSize = BufSize * (k + 1)
    BY Multiples
  <2> QED
    BY <1>2, <1>3, <2>1, Zenon
<1>5. Len(rBuf'[c]) = Len(rBuf[c]) + n
  <2>1. rBuf'[c] = rBuf[c] \o SubSeq(net[c], 1, n)
    BY <1>1, ReadBytes
  <2>2. SubSeq(net[c], 1, n) \in Seq(Byte) /\ Len(SubSeq(net[c], 1, n)) = n
    BY <1>1
  <2> QED
    BY <1>1, <2>1, <2>2, ConcatProperties
<1>6. /\ n \in 1 .. Min({Len(net[c]), Grown(c).count - Len(Grown(c).data)})
      /\ count' = [count EXCEPT ![c] = Grown(c).count]
  BY Zenon DEF ReadSome
<1>7. Min({Len(net[c]), Grown(c).count - Len(rBuf[c])}) <= Grown(c).count - Len(rBuf[c])
  <2> DEFINE S == {Len(net[c]), Grown(c).count - Len(rBuf[c])}
  <2>1. S \in SUBSET Nat /\ S # {} /\ Grown(c).count - Len(rBuf[c]) \in S
    BY <1>1, <1>3
  <2> HIDE DEF S
  <2>2. \A y \in S : Min(S) <= y
    BY <2>1, MinIsLeast, Zenon
  <2> QED
    BY <2>1, <2>2, Zenon DEF S
<1>8. n <= Grown(c).count - Len(rBuf[c])
  <2> DEFINE m == Min({Len(net[c]), Grown(c).count - Len(rBuf[c])})
  <2>1. n \in 1 .. m /\ m <= Grown(c).count - Len(rBuf[c])
    BY <1>3, <1>6, <1>7, Zenon
  <2>2. m \in Nat
    <3>1. {Len(net[c]), Grown(c).count - Len(rBuf[c])} \in SUBSET Nat
      BY <1>1, <1>3
    <3>2. m \in {Len(net[c]), Grown(c).count - Len(rBuf[c])}
      BY <3>1, MinIsLeast, Zenon
    <3> QED
      BY <3>1, <3>2, Zenon
  <2> HIDE DEF m
  <2>3. n <= m /\ n \in Nat /\ Grown(c).count \in Nat /\ Len(rBuf[c]) \in Nat
    BY <1>1, <1>3, <2>1, <2>2
  <2> QED
    BY <2>1, <2>2, <2>3
<1> QED
  BY <1>1, <1>3, <1>4, <1>5, <1>6, <1>8

\* Where a read leads, and what it found.
LEMMA ReadLeads ==
    ASSUME BytesInv, SizesInv, NEW c \in Conn, NEW n \in 1 .. Len(net[c]), ReadSome(c, n)
    PROVE  \E q \in Request \cup {NoRequest}, p \in {"respond", "parse_error", "out_of_bounds", "reading"} :
              /\ request' = [request EXCEPT ![c] = q] /\ pc' = [pc EXCEPT ![c] = p]
              /\ q # NoRequest <=> p = "respond"
              /\ q # NoRequest =>
                    /\ q = ParseRequest(SubSeq(rBuf'[c], 1, Min(Found(rBuf'[c])) + 4))
                    /\ Found(rBuf'[c]) # {}
<1> DEFINE data == Grown(c).data \o SubSeq(net[c], 1, n)
           hits == Found(data)
           parsed == ParseRequest(SubSeq(data, 1, Min(hits) + 4))
<1>1. parsed \in Request \cup {NoRequest}
  BY ParseType, Zenon
<1>2. rBuf'[c] = data
  <2>1. rBuf' = [rBuf EXCEPT ![c] = data]
    BY Zenon DEF ReadSome
  <2> QED
    BY <2>1, Zenon DEF BytesInv
<1>3. /\ request' = [request EXCEPT ![c] = IF hits # {} THEN parsed ELSE NoRequest]
      /\ pc' = [pc EXCEPT ![c] =
                CASE hits # {} /\ parsed # NoRequest -> "respond"
                  [] hits # {} /\ parsed = NoRequest -> "parse_error"
                  [] hits = {} /\ ScanLimit(Len(data)) > Grown(c).count -> "out_of_bounds"
                  [] OTHER -> "reading"]
  BY Zenon DEF ReadSome
<1>4. parsed = ParseRequest(SubSeq(rBuf'[c], 1, Min(Found(rBuf'[c])) + 4)) /\ hits = Found(rBuf'[c])
  BY <1>2, Zenon
<1> HIDE DEF data, hits, parsed
<1>5. CASE hits # {} /\ parsed # NoRequest
  <2>1. request' = [request EXCEPT ![c] = parsed] /\ pc' = [pc EXCEPT ![c] = "respond"]
    BY <1>3, <1>5, Zenon
  <2> QED
    BY <1>1, <1>4, <1>5, <2>1, Zenon
<1>6. CASE ~(hits # {} /\ parsed # NoRequest)
  <2>1. request' = [request EXCEPT ![c] = NoRequest]
    BY <1>3, <1>6, Zenon
  <2>2. PICK p \in {"parse_error", "out_of_bounds", "reading"} : pc' = [pc EXCEPT ![c] = p]
    BY <1>3, <1>6, Zenon
  <2>3. p # "respond"
    BY <2>2, Zenon
  <2> QED
    BY <2>1, <2>2, <2>3, Zenon
<1> QED
  BY <1>5, <1>6, Zenon

\* The sizes hold in every state.
LEMMA SizesInvariance == Spec => []SizesInv
<1>1. Init => SizesInv
  <2> SUFFICES ASSUME Init PROVE SizesInv
    BY Zenon
  <2>1. \A c \in Conn : rBuf[c] = <<>> /\ count[c] = BufSize /\ request[c] = NoRequest /\ pc[c] = "waiting"
    BY Zenon DEF Init
  <2>2. \A c \in Conn : Len(rBuf[c]) <= count[c] /\ \E k \in Nat : count[c] = BufSize * k
    BY <2>1, Multiples
  <2>3. <<>> \in Seq(Request) /\ <<>> \in Seq(Byte)
    OBVIOUS
  <2> QED
    BY <2>1, <2>2, <2>3, Multiples, Zenon DEF Init, SizesInv
<1>2. BytesInv /\ SizesInv /\ [Next]_vars => SizesInv'
  <2> SUFFICES ASSUME BytesInv, SizesInv, [Next]_vars PROVE SizesInv'
    BY Zenon
  <2>1. ASSUME NEW c \in Conn, NEW r \in Request, Ask(c, r) PROVE SizesInv'
    <3>1. asked' \in [Conn -> Seq(Request)]
      BY <2>1 DEF Ask, SizesInv
    <3>2. sent[c] \o HeaderOf[r] \o BodyOf[r] \in Seq(Byte)
      BY AskBytes, Zenon DEF SizesInv
    <3> QED
      BY <2>1, <3>1, <3>2, Zenon DEF Ask, SizesInv
  <2>2. ASSUME NEW c \in Conn, NEW how \in {"half", "closed"}, HangUp(c, how) PROVE SizesInv'
    BY <2>2, Zenon DEF HangUp, SizesInv
  <2>3. ASSUME NEW c \in Conn, Recieve(c) PROVE SizesInv'
    BY <2>3, Zenon DEF Recieve, SizesInv, BytesInv
  <2>4. ASSUME NEW c \in Conn, NEW n \in 1 .. Len(net[c]), ReadSome(c, n) PROVE SizesInv'
    <3>1. PICK q \in Request \cup {NoRequest}, p \in {"respond", "parse_error", "out_of_bounds", "reading"} :
              /\ request' = [request EXCEPT ![c] = q] /\ pc' = [pc EXCEPT ![c] = p]
              /\ q # NoRequest <=> p = "respond"
      BY <2>4, ReadLeads, Zenon
    <3>2. /\ count' = [count EXCEPT ![c] = Grown(c).count]
          /\ Grown(c).count \in Nat /\ Len(rBuf'[c]) <= Grown(c).count
          /\ \E k \in Nat : Grown(c).count = BufSize * k
      BY <2>4, ReadFits, Zenon
    <3>3. \A d \in Conn : d # c => rBuf'[d] = rBuf[d]
      BY <2>4, ReadBytes, ZenonT(60) DEF BytesInv
    <3>4. UNCHANGED <<up, asked, sent, answered>>
      BY <2>4, Zenon DEF ReadSome
    <3>5. request' \in [Conn -> Request \cup {NoRequest}] /\ count' \in [Conn -> Nat]
      BY <3>1, <3>2, Zenon DEF SizesInv
    <3>6. ASSUME NEW d \in Conn
          PROVE  /\ Len(rBuf'[d]) <= count'[d] /\ \E k \in Nat : count'[d] = BufSize * k
                 /\ (request'[d] # NoRequest) <=> (pc'[d] \in {"respond", "no_route"})
      <4>1. CASE d = c
        <5>1. count'[c] = Grown(c).count /\ request'[c] = q /\ pc'[c] = p
          BY <3>1, <3>2, Zenon DEF SizesInv, BytesInv
        <5> QED
          BY <3>1, <3>2, <4>1, <5>1, Zenon
      <4>2. CASE d # c
        <5>1. count'[d] = count[d] /\ request'[d] = request[d] /\ pc'[d] = pc[d]
          BY <3>1, <3>2, <4>2, Zenon DEF SizesInv, BytesInv
        <5> QED
          BY <3>3, <4>2, <5>1, Zenon DEF SizesInv
      <4> QED
        BY <4>1, <4>2, Zenon
    <3> QED
      BY <3>4, <3>5, <3>6, Zenon DEF SizesInv
  <2>5. ASSUME NEW c \in Conn, ReadNothing(c) PROVE SizesInv'
    BY <2>5, Zenon DEF ReadNothing, SizesInv, BytesInv
  <2>6. ASSUME NEW c \in Conn, CloseConnection(c) PROVE SizesInv'
    BY <2>6, Zenon DEF CloseConnection, SizesInv, BytesInv
  <2>7. ASSUME NEW c \in Conn, Respond(c) PROVE SizesInv'
    <3>1. /\ rBuf' = [rBuf EXCEPT ![c] = <<>>] /\ count' = [count EXCEPT ![c] = BufSize]
          /\ request' = [request EXCEPT ![c] = NoRequest] /\ pc' = [pc EXCEPT ![c] = "reading"]
          /\ answered' \in {answered, [answered EXCEPT ![c] = Append(@, request[c])]}
          /\ UNCHANGED <<up, asked, sent>> /\ pc[c] = "respond"
      BY <2>7, Zenon DEF Respond, Emptied, SizesInv
    <3>2. request[c] \in Request
      BY <3>1, Zenon DEF SizesInv
    <3>3. answered' \in [Conn -> Seq(Request)]
      <4>1. answered \in [Conn -> Seq(Request)] /\ Append(answered[c], request[c]) \in Seq(Request)
        BY <3>2 DEF SizesInv
      <4> QED
        BY <3>1, <4>1, Zenon
    <3>4. ASSUME NEW d \in Conn PROVE Len(rBuf'[d]) <= count'[d] /\ \E k \in Nat : count'[d] = BufSize * k
      <4>1. CASE d = c
        <5>1. rBuf'[d] = <<>> /\ count'[d] = BufSize
          BY <3>1, <4>1, Zenon DEF SizesInv, BytesInv
        <5> QED
          BY <5>1, Multiples
      <4>2. CASE d # c
        <5>1. rBuf'[d] = rBuf[d] /\ count'[d] = count[d]
          BY <3>1, <4>2, Zenon DEF SizesInv, BytesInv
        <5> QED
          BY <5>1, Zenon DEF SizesInv
      <4> QED
        BY <4>1, <4>2, Zenon
    <3>5. \A d \in Conn : (request'[d] # NoRequest) <=> (pc'[d] \in {"respond", "no_route"})
      BY <3>1, Zenon DEF SizesInv, BytesInv
    <3>6. request' \in [Conn -> Request \cup {NoRequest}] /\ count' \in [Conn -> Nat]
      BY <3>1, Multiples, Zenon DEF SizesInv
    <3> QED
      BY <3>1, <3>3, <3>4, <3>5, <3>6, Zenon DEF SizesInv
  <2>8. ASSUME NEW c \in Conn, NoRoute(c) PROVE SizesInv'
    BY <2>8, Zenon DEF NoRoute, SizesInv, BytesInv
  <2>9. CASE AddCallback \/ UNCHANGED vars
    BY <2>9, Zenon DEF AddCallback, connVars, vars, SizesInv
  <2> QED
    BY <2>1, <2>2, <2>3, <2>4, <2>5, <2>6, <2>7, <2>8, <2>9, Zenon DEF Next,
       ServerStep
<1> QED
  BY <1>1, <1>2, BytesInvariance, PTL DEF Spec

\* Buffers hold what was read into them and grow in steps of BufSize, and there
\* is a request exactly while it is answered, for any clients and requests.
THEOREM HttpTypes == Spec => []TypeOK
<1>1. RoutingTypeOK /\ BytesInv /\ SizesInv => TypeOK
  <2> SUFFICES ASSUME RoutingTypeOK, BytesInv, SizesInv, NEW c \in Conn
               PROVE  /\ rBuf[c] \in Seq(Byte) /\ net[c] \in Seq(Byte)
                      /\ Len(rBuf[c]) \in 0 .. count[c]
                      /\ count[c] % BufSize = 0
                      /\ request[c] \in Request \cup {NoRequest}
                      /\ (request[c] # NoRequest) <=> (pc[c] \in {"respond", "no_route"})
                      /\ asked[c] \in Seq(Request) /\ answered[c] \in Seq(Request)
                      /\ sent[c] \in Seq(Byte)
    BY Zenon DEF TypeOK, BytesInv, SizesInv
  <2>1. count[c] % BufSize = 0
    BY Multiples, Zenon DEF SizesInv
  <2>2. rBuf[c] \in Seq(Byte) /\ net[c] \in Seq(Byte)
    BY Zenon DEF BytesInv
  <2>3. Len(rBuf[c]) \in 0 .. count[c]
    BY <2>2 DEF SizesInv
  <2> QED
    BY <2>1, <2>2, <2>3, Zenon DEF SizesInv
<1> QED
  BY <1>1, RoutingInvariance, BytesInvariance, SizesInvariance, PTL


----------------------------------------------------------------------------
(***************************************************************************)
(* Answers in order.                                                       *)
(*                                                                         *)
(* While a connection is open the bytes in its buffer and in the network   *)
(* are the last ones its client has sent.  What was answered lies before   *)
(* them, and a request that is about to be answered is at their front.     *)
(***************************************************************************)

\* u begins with h.
Starts(u, h) == Len(h) <= Len(u) /\ \A i \in 1 .. Len(h) : u[i] = h[i]

\* Behind its first k bytes s goes on with u, and then ends.
GoesOnWith(s, k, u) == Len(s) = k + Len(u) /\ \A i \in 1 .. Len(u) : s[k + i] = u[i]

\* The headers of an are in s behind the bytes from[i], none before its predecessor ends.
Answers(an, s, from) ==
    /\ from \in [1 .. Len(an) -> Nat]
    /\ \A i \in 1 .. Len(an) : HeaderAt(s, from[i], an[i])
    /\ \A i \in 1 .. Len(an) : \A j \in 1 .. i - 1 :
          from[j] + Len(HeaderOf[an[j]]) <= from[i]

\* k bytes were dropped, those of the answered headers among them.
Reading(b, n, q, s, an, from, k) ==
    /\ k \in Nat /\ GoesOnWith(s, k, b \o n)
    /\ \A i \in 1 .. Len(an) : from[i] + Len(HeaderOf[an[i]]) <= k
    /\ q # NoRequest => Starts(b, HeaderOf[q])

\* p is the place of a connection, b its buffer, n what is under way, q its
\* request, s what was sent and an what was answered.
Ordered(p, b, n, q, s, an) ==
    \E from, k : Answers(an, s, from) /\ (p # "closed" => Reading(b, n, q, s, an, from, k))

OrderInv == \A c \in Conn : Ordered(pc[c], rBuf[c], net[c], request[c], sent[c], answered[c])

\* A header has a length.
LEMMA HeaderLen == \A r \in Request : HeaderOf[r] \in Seq(Byte) /\ Len(HeaderOf[r]) \in Nat
<1>1. \A r \in Request : HeaderOf[r] \in Seq(Byte)
  BY HttpAssumption, Zenon
<1> QED
  BY <1>1, LenProperties, Zenon

\* What a concatenation consists of.
LEMMA TwoParts ==
    ASSUME NEW s \in Seq(Byte), NEW t \in Seq(Byte)
    PROVE  /\ Len(s) \in Nat /\ Len(t) \in Nat /\ s \o t \in Seq(Byte)
           /\ Len(s \o t) = Len(s) + Len(t)
           /\ \A i \in 1 .. Len(s) : (s \o t)[i] = s[i]
           /\ \A i \in 1 .. Len(t) : (s \o t)[Len(s) + i] = t[i]
<1>1. /\ Len(s) \in Nat /\ Len(t) \in Nat /\ s \o t \in Seq(Byte)
      /\ Len(s \o t) = Len(s) + Len(t)
  BY ConcatProperties, LenProperties
<1>2. \A i \in 1 .. Len(s) : (s \o t)[i] = s[i]
  BY ConcatProperties, LenProperties
<1>3. \A i \in 1 .. Len(t) : (s \o t)[Len(s) + i] = t[i]
  BY <1>1, ConcatProperties
<1> QED
  BY <1>1, <1>2, <1>3, Zenon

\* More bytes leave a header where it is.
LEMMA HeaderKept ==
    ASSUME NEW s \in Seq(Byte), NEW x \in Seq(Byte), NEW k \in Nat, NEW r \in Request,
           HeaderAt(s, k, r)
    PROVE  HeaderAt(s \o x, k, r)
<1>1. Len(HeaderOf[r]) \in Nat
  BY HeaderLen, Zenon
<1>2. /\ Len(s) \in Nat /\ Len(x) \in Nat /\ Len(s \o x) = Len(s) + Len(x)
      /\ \A i \in 1 .. Len(s) : (s \o x)[i] = s[i]
  BY TwoParts, Zenon
<1>3. \A i \in 1 .. Len(HeaderOf[r]) : k + i \in 1 .. Len(s)
  BY <1>1, <1>2 DEF HeaderAt
<1>4. k + Len(HeaderOf[r]) <= Len(s \o x)
  BY <1>1, <1>2 DEF HeaderAt
<1> QED
  BY <1>2, <1>3, <1>4, Zenon DEF HeaderAt

\* More bytes leave the answers where they are.
LEMMA AnswersKept ==
    ASSUME NEW s \in Seq(Byte), NEW x \in Seq(Byte), NEW an \in Seq(Request), NEW from,
           Answers(an, s, from)
    PROVE  Answers(an, s \o x, from)
<1>1. \A i \in 1 .. Len(an) : an[i] \in Request
  BY ElementOfSeq, Zenon
<1>2. \A i \in 1 .. Len(an) : from[i] \in Nat /\ HeaderAt(s, from[i], an[i])
  BY Zenon DEF Answers
<1>3. \A i \in 1 .. Len(an) : HeaderAt(s \o x, from[i], an[i])
  BY <1>1, <1>2, HeaderKept, Zenon
<1> QED
  BY <1>3, Zenon DEF Answers

\* The client sends x: it follows what is under way.
LEMMA AskOrdered ==
    ASSUME NEW p, NEW b \in Seq(Byte), NEW n \in Seq(Byte), NEW q,
           NEW s \in Seq(Byte), NEW x \in Seq(Byte), NEW an \in Seq(Request),
           Ordered(p, b, n, q, s, an)
    PROVE  /\ p = "closed" => Ordered(p, b, n, q, s \o x, an)
           /\ p # "closed" => Ordered(p, b, n \o x, q, s \o x, an)
<1>1. PICK from, k : Answers(an, s, from) /\ (p # "closed" => Reading(b, n, q, s, an, from, k))
  BY Zenon DEF Ordered
<1>2. Answers(an, s \o x, from)
  BY <1>1, AnswersKept, Zenon
<1>3. ASSUME p # "closed" PROVE Reading(b, n \o x, q, s \o x, an, from, k)
  <2> DEFINE u == b \o n
  <2>1. u \in Seq(Byte) /\ b \o (n \o x) = u \o x
    <3>1. b \o n \in Seq(Byte)
      BY TwoParts, Zenon
    <3>2. (b \o n) \o x = b \o (n \o x)
      BY Associative, Zenon
    <3> QED
      BY <3>1, <3>2, Zenon
  <2>2. k \in Nat /\ GoesOnWith(s, k, u)
    BY <1>1, <1>3, Zenon DEF Reading
  <2> HIDE DEF u
  <2>3. /\ Len(s \o x) = Len(s) + Len(x) /\ Len(u \o x) = Len(u) + Len(x)
        /\ Len(s) \in Nat /\ Len(x) \in Nat /\ Len(u) \in Nat
        /\ \A i \in 1 .. Len(s) : (s \o x)[i] = s[i]
        /\ \A i \in 1 .. Len(u) : (u \o x)[i] = u[i]
        /\ \A i \in 1 .. Len(x) : (s \o x)[Len(s) + i] = x[i]
        /\ \A i \in 1 .. Len(x) : (u \o x)[Len(u) + i] = x[i]
    BY <2>1, TwoParts, Zenon
  <2>4. Len(s) = k + Len(u) /\ \A i \in 1 .. Len(u) : s[k + i] = u[i]
    BY <2>2, Zenon DEF GoesOnWith
  <2>5. ASSUME NEW i \in 1 .. Len(u \o x) PROVE (s \o x)[k + i] = (u \o x)[i]
    <3>1. CASE i \in 1 .. Len(u)
      <4>1. k + i \in 1 .. Len(s)
        BY <2>2, <2>3, <2>4, <3>1
      <4> QED
        BY <2>3, <2>4, <3>1, <4>1, Zenon
    <3>2. CASE i \notin 1 .. Len(u)
      <4> DEFINE j == i - Len(u)
      <4>1. j \in 1 .. Len(x) /\ Len(u) + j = i /\ Len(s) + j = k + i
        BY <2>2, <2>3, <2>4, <3>2
      <4> HIDE DEF j
      <4> QED
        BY <2>3, <4>1, Zenon
    <3> QED
      BY <3>1, <3>2, Zenon
  <2>6. Len(s \o x) = k + Len(u \o x)
    BY <2>2, <2>3, <2>4
  <2>7. GoesOnWith(s \o x, k, b \o (n \o x))
    BY <2>1, <2>5, <2>6, Zenon DEF GoesOnWith
  <2> QED
    BY <1>1, <1>3, <2>2, <2>7, Zenon DEF Reading
<1> QED
  BY <1>1, <1>2, <1>3, Zenon DEF Ordered

\* A read moves bytes to the buffer, and may find a request at the front of it.
LEMMA ReadOrdered ==
    ASSUME NEW p, NEW b, NEW n, NEW q, NEW s, NEW an, Ordered(p, b, n, q, s, an), p # "closed",
           NEW p2, NEW b2, NEW n2, NEW q2, b2 \o n2 = b \o n,
           q2 # NoRequest => Starts(b2, HeaderOf[q2])
    PROVE  Ordered(p2, b2, n2, q2, s, an)
<1>1. PICK from, k : Answers(an, s, from) /\ Reading(b, n, q, s, an, from, k)
  BY Zenon DEF Ordered
<1>2. Reading(b2, n2, q2, s, an, from, k)
  BY <1>1, Zenon DEF Reading
<1> QED
  BY <1>1, <1>2, Zenon DEF Ordered

\* A connection is closed, or goes on as it is.
LEMMA GoesOn ==
    ASSUME NEW p, NEW b, NEW n, NEW q, NEW s, NEW an, Ordered(p, b, n, q, s, an)
    PROVE  /\ p # "closed" => \A p2 : Ordered(p2, b, n, q, s, an)
           /\ \A b2, n2, q2 : Ordered("closed", b2, n2, q2, s, an)
  BY Zenon DEF Ordered

\* connectionThread answers the request at the front and drops its buffer.
LEMMA RespondOrdered ==
    ASSUME NEW p, NEW b \in Seq(Byte), NEW n \in Seq(Byte), NEW q \in Request,
           NEW s \in Seq(Byte), NEW an \in Seq(Request),
           Ordered(p, b, n, q, s, an), p # "closed", NEW p2
    PROVE  /\ Ordered(p2, <<>>, n, NoRequest, s, an)
           /\ Ordered(p2, <<>>, n, NoRequest, s, Append(an, q))
<1>1. PICK from, k : Answers(an, s, from) /\ Reading(b, n, q, s, an, from, k)
  BY Zenon DEF Ordered
<1>2. /\ k \in Nat /\ GoesOnWith(s, k, b \o n)
      /\ \A i \in 1 .. Len(an) : from[i] + Len(HeaderOf[an[i]]) <= k
      /\ Starts(b, HeaderOf[q])
  BY <1>1, HttpAssumption, Zenon DEF Reading
<1>3. /\ Len(b) \in Nat /\ Len(n) \in Nat /\ Len(b \o n) = Len(b) + Len(n)
      /\ \A i \in 1 .. Len(b) : (b \o n)[i] = b[i]
      /\ \A i \in 1 .. Len(n) : (b \o n)[Len(b) + i] = n[i]
  BY TwoParts, Zenon
<1>4. /\ Len(s) = k + Len(b \o n)
      /\ \A i \in 1 .. Len(b \o n) : s[k + i] = (b \o n)[i]
  BY <1>2, Zenon DEF GoesOnWith
<1>5. <<>> \o n = n
  OBVIOUS
<1>6. Len(HeaderOf[q]) \in Nat /\ Len(HeaderOf[q]) <= Len(b) /\ \A i \in 1 .. Len(HeaderOf[q]) : b[i] = HeaderOf[q][i]
  BY <1>2, HeaderLen, Zenon DEF Starts
<1> DEFINE k2 == k + Len(b)
<1>7. k2 \in Nat /\ k + Len(HeaderOf[q]) <= k2 /\ k <= k2 /\ Len(s) = k2 + Len(n)
  BY <1>2, <1>3, <1>4, <1>6
<1>8. GoesOnWith(s, k2, <<>> \o n)
  <2>1. ASSUME NEW i \in 1 .. Len(n) PROVE s[k2 + i] = n[i]
    <3>1. Len(b) + i \in 1 .. Len(b \o n) /\ k2 + i = k + (Len(b) + i)
      BY <1>2, <1>3
    <3> QED
      BY <1>3, <1>4, <3>1, Zenon
  <2> QED
    BY <1>5, <1>7, <2>1, Zenon DEF GoesOnWith
<1>9. HeaderAt(s, k, q)
  <2>1. \A i \in 1 .. Len(HeaderOf[q]) : i \in 1 .. Len(b) /\ i \in 1 .. Len(b \o n)
    BY <1>3, <1>6
  <2>2. k + Len(HeaderOf[q]) <= Len(s)
    BY <1>2, <1>3, <1>4, <1>6
  <2> QED
    BY <1>3, <1>4, <1>6, <2>1, <2>2, Zenon DEF HeaderAt
<1>10. /\ Len(an) \in Nat /\ \A i \in 1 .. Len(an) : an[i] \in Request
       /\ from \in [1 .. Len(an) -> Nat]
  BY <1>1, ElementOfSeq, LenProperties, Zenon DEF Answers
<1>11. \A i \in 1 .. Len(an) : from[i] + Len(HeaderOf[an[i]]) <= k2
  <2>1. \A i \in 1 .. Len(an) : from[i] \in Nat /\ Len(HeaderOf[an[i]]) \in Nat
    BY <1>10, HeaderLen, Zenon
  <2>2. \A x, y \in Nat : x + y <= k => x + y <= k2
    BY <1>2, <1>7
  <2> QED
    BY <1>2, <2>1, <2>2, Zenon
<1> HIDE DEF k2
<1>12. Reading(<<>>, n, NoRequest, s, an, from, k2)
  BY <1>7, <1>8, <1>11, Zenon DEF Reading
<1> DEFINE an2 == Append(an, q)
           l == Len(an) + 1
           from2 == [i \in 1 .. l |-> IF i = l THEN k ELSE from[i]]
<1>13. Len(an2) = l /\ an2[l] = q /\ \A i \in 1 .. Len(an) : an2[i] = an[i]
  BY <1>10, AppendProperties
<1>14. /\ l \in 1 .. l /\ \A i \in 1 .. l : i = l \/ i \in 1 .. Len(an)
       /\ \A i \in 1 .. Len(an) : i # l /\ i \in 1 .. l
       /\ \A j \in 1 .. l - 1 : j \in 1 .. Len(an)
       /\ \A i \in 1 .. Len(an) : \A j \in 1 .. i - 1 : j \in 1 .. Len(an)
  BY <1>10
<1> HIDE DEF an2, l
<1>15. /\ from2[l] = k /\ \A i \in 1 .. Len(an) : from2[i] = from[i]
       /\ from2 \in [1 .. l -> Nat]
  <2>1. from2[l] = k /\ \A i \in 1 .. Len(an) : from2[i] = from[i]
    BY <1>14, Zenon
  <2>2. \A i \in 1 .. l : (IF i = l THEN k ELSE from[i]) \in Nat
    BY <1>2, <1>10, <1>14, Zenon
  <2> QED
    BY <2>1, <2>2, Zenon
<1> HIDE DEF from2
<1>16. Answers(an2, s, from2)
  <2>1. ASSUME NEW i \in 1 .. l PROVE HeaderAt(s, from2[i], an2[i])
    BY <1>1, <1>9, <1>13, <1>14, <1>15, Zenon DEF Answers
  <2>2. ASSUME NEW i \in 1 .. l, NEW j \in 1 .. i - 1
        PROVE  from2[j] + Len(HeaderOf[an2[j]]) <= from2[i]
    <3>1. CASE i = l
      BY <1>2, <1>13, <1>14, <1>15, <3>1, Zenon
    <3>2. CASE i \in 1 .. Len(an)
      <4>1. from[j] + Len(HeaderOf[an[j]]) <= from[i] /\ j \in 1 .. Len(an)
        BY <1>1, <1>14, <3>2, Zenon DEF Answers
      <4> QED
        BY <1>13, <1>15, <3>2, <4>1, Zenon
    <3> QED
      BY <1>14, <3>1, <3>2, Zenon
  <2> QED
    BY <1>13, <1>15, <2>1, <2>2, Zenon DEF Answers
<1>17. \A i \in 1 .. l : from2[i] + Len(HeaderOf[an2[i]]) <= k2
  BY <1>7, <1>11, <1>13, <1>14, <1>15, Zenon
<1>18. Reading(<<>>, n, NoRequest, s, an2, from2, k2)
  BY <1>7, <1>8, <1>13, <1>17, Zenon DEF Reading
<1> QED
  BY <1>1, <1>12, <1>16, <1>18, Zenon DEF Ordered, an2

\* parseRequest returns a request with the header it was given.
LEMMA ParseFinds ==
    ASSUME NEW h, ParseRequest(h) # NoRequest
    PROVE  ParseRequest(h) \in Request \ Malformed /\ HeaderOf[ParseRequest(h)] = h
<1> DEFINE hits == {r \in Request \ Malformed : HeaderOf[r] = h}
<1>1. hits # {} /\ ParseRequest(h) = CHOOSE r \in hits : TRUE
  BY Zenon DEF ParseRequest
<1>2. (CHOOSE r \in hits : TRUE) \in hits
  BY <1>1, Zenon
<1>3. ParseRequest(h) \in hits
  BY <1>1, <1>2, Zenon
<1> HIDE DEF ParseRequest
<1> QED
  BY <1>3, Zenon

\* The header that was found is at the front of the buffer.
LEMMA FoundStarts ==
    ASSUME NEW d \in Seq(Byte), Found(d) # {}
    PROVE  Starts(d, SubSeq(d, 1, Min(Found(d)) + 4))
<1> DEFINE m == Min(Found(d))
<1>1. Found(d) \in SUBSET Nat /\ Found(d) \subseteq 0 .. Len(d) - 4
  BY DEF Found
<1>2. m \in 0 .. Len(d) - 4
  BY <1>1, MinIsLeast, Zenon
<1> HIDE DEF m
<1>3. Len(d) \in Nat /\ m + 4 \in 1 .. Len(d)
  BY <1>2
<1>4. Len(SubSeq(d, 1, m + 4)) = m + 4 /\ \A i \in 1 .. m + 4 : SubSeq(d, 1, m + 4)[i] = d[i]
  BY <1>3, SubSeqProperties
<1>5. Starts(d, SubSeq(d, 1, m + 4))
  BY <1>3, <1>4 DEF Starts
<1> QED
  BY <1>5, Zenon DEF m

\* A new connection has nothing to read and nothing answered.
LEMMA OrderInit == Init => OrderInv
<1> SUFFICES ASSUME Init, NEW c \in Conn
             PROVE  Ordered(pc[c], rBuf[c], net[c], request[c], sent[c], answered[c])
  BY Zenon DEF OrderInv
<1>1. rBuf[c] = <<>> /\ net[c] = <<>> /\ request[c] = NoRequest /\ sent[c] = <<>> /\ answered[c] = <<>>
  BY Zenon DEF Init
<1> DEFINE e == [i \in 1 .. 0 |-> 0]
<1>2. /\ e \in [1 .. 0 -> Nat] /\ 0 \in Nat /\ 0 = 0 + 0
      /\ Len(<<>>) = 0 /\ <<>> \o <<>> = <<>> /\ (\A i \in 1 .. 0 : FALSE)
  OBVIOUS
<1> HIDE DEF e
<1>3. Answers(<<>>, <<>>, e)
  BY <1>2, Zenon DEF Answers
<1>4. Reading(<<>>, <<>>, NoRequest, <<>>, <<>>, e, 0)
  BY <1>2, Zenon DEF Reading, GoesOnWith
<1>5. \A p : Ordered(p, <<>>, <<>>, NoRequest, <<>>, <<>>)
  BY <1>3, <1>4, Zenon DEF Ordered
<1> QED
  BY <1>1, <1>5, Zenon

\* Every step keeps the answers in order.
LEMMA OrderNext ==
    ASSUME BytesInv, SizesInv, OrderInv, [Next]_vars
    PROVE  OrderInv'
<1> DEFINE At(c) == Ordered(pc[c], rBuf[c], net[c], request[c], sent[c], answered[c])
<1>0. \A c \in Conn : /\ rBuf[c] \in Seq(Byte) /\ net[c] \in Seq(Byte)
                      /\ sent[c] \in Seq(Byte) /\ answered[c] \in Seq(Request) /\ At(c)
  BY Zenon DEF BytesInv, SizesInv, OrderInv
<1>s. ASSUME NEW d \in Conn, pc'[d] = pc[d], rBuf'[d] = rBuf[d], net'[d] = net[d],
             request'[d] = request[d], sent'[d] = sent[d], answered'[d] = answered[d]
      PROVE  At(d)'
  BY <1>0, <1>s, Zenon
<1>g. ASSUME NEW d \in Conn, pc[d] # "closed", rBuf'[d] = rBuf[d], net'[d] = net[d],
             request'[d] = request[d], sent'[d] = sent[d], answered'[d] = answered[d]
      PROVE  At(d)'
  <2>1. \A p2 : Ordered(p2, rBuf[d], net[d], request[d], sent[d], answered[d])
    BY <1>0, <1>g, GoesOn, Zenon
  <2> QED
    BY <1>g, <2>1, Zenon
<1> USE DEF BytesInv, SizesInv
<1>1. ASSUME NEW c \in Conn, NEW r \in Request, Ask(c, r), NEW d \in Conn PROVE At(d)'
  <2> DEFINE x == HeaderOf[r] \o BodyOf[r]
  <2>0. /\ x \in Seq(Byte) /\ net[c] \o HeaderOf[r] \o BodyOf[r] = net[c] \o x
        /\ sent[c] \o HeaderOf[r] \o BodyOf[r] = sent[c] \o x
    BY <1>0, AskBytes, Zenon
  <2>1. /\ UNCHANGED <<pc, rBuf, request, answered>>
        /\ sent' = [sent EXCEPT ![c] = sent[c] \o x]
        /\ net' = [net EXCEPT ![c] = IF pc[c] = "closed" THEN net[c] ELSE net[c] \o x]
    BY <1>1, <2>0, Zenon DEF Ask
  <2> HIDE DEF x
  <2>2. CASE d # c
    <3>1. sent'[d] = sent[d] /\ net'[d] = net[d]
      BY <2>1, <2>2, Zenon
    <3> QED
      BY <1>s, <2>1, <3>1, Zenon
  <2>3. CASE d = c
    <3>1. /\ sent'[c] = sent[c] \o x
          /\ net'[c] = IF pc[c] = "closed" THEN net[c] ELSE net[c] \o x
      BY <2>1, Zenon
    <3>2. /\ pc[c] = "closed" => Ordered(pc[c], rBuf[c], net[c], request[c], sent[c] \o x, answered[c])
          /\ pc[c] # "closed" => Ordered(pc[c], rBuf[c], net[c] \o x, request[c], sent[c] \o x, answered[c])
      BY <1>0, <2>0, AskOrdered, Zenon
    <3> QED
      BY <2>1, <2>3, <3>1, <3>2, Zenon
  <2> QED
    BY <2>2, <2>3, Zenon
<1>2. ASSUME NEW c \in Conn, NEW how \in {"half", "closed"}, HangUp(c, how), NEW d \in Conn PROVE At(d)'
  BY <1>2, <1>s, Zenon DEF HangUp
<1>3. ASSUME NEW c \in Conn, Recieve(c) \/ ReadNothing(c) \/ NoRoute(c), NEW d \in Conn PROVE At(d)'
  <2>1. UNCHANGED <<rBuf, net, request, sent, answered>>
    BY <1>3, Zenon DEF Recieve, ReadNothing, NoRoute
  <2>2. pc[d] # "closed" \/ pc'[d] = pc[d]
    BY <1>3, Zenon DEF Recieve, ReadNothing, NoRoute
  <2> QED
    BY <1>g, <1>s, <2>1, <2>2, Zenon
<1>4. ASSUME NEW c \in Conn, NEW n \in 1 .. Len(net[c]), ReadSome(c, n), NEW d \in Conn PROVE At(d)'
  <2>1. PICK q \in Request \cup {NoRequest}, p \in {"respond", "parse_error", "out_of_bounds", "reading"} :
            /\ request' = [request EXCEPT ![c] = q] /\ pc' = [pc EXCEPT ![c] = p]
            /\ q # NoRequest =>
                  /\ q = ParseRequest(SubSeq(rBuf'[c], 1, Min(Found(rBuf'[c])) + 4))
                  /\ Found(rBuf'[c]) # {}
    BY <1>4, ReadLeads, Zenon
  <2>2. /\ rBuf' = [rBuf EXCEPT ![c] = rBuf[c] \o SubSeq(net[c], 1, n)]
        /\ net' = [net EXCEPT ![c] = SubSeq(net[c], n + 1, Len(net[c]))]
        /\ rBuf'[c] \in Seq(Byte) /\ net'[c] \in Seq(Byte) /\ rBuf'[c] \o net'[c] = rBuf[c] \o net[c]
    BY <1>4, ReadBytes, Zenon
  <2>3. UNCHANGED <<sent, answered>> /\ pc[c] = "reading"
    BY <1>4, Zenon DEF ReadSome
  <2>4. CASE d # c
    <3>1. rBuf'[d] = rBuf[d] /\ net'[d] = net[d] /\ request'[d] = request[d] /\ pc'[d] = pc[d]
      BY <2>1, <2>2, <2>4, Zenon
    <3> QED
      BY <1>s, <2>3, <3>1, Zenon
  <2>5. CASE d = c
    <3>1. request'[c] = q /\ pc'[c] = p /\ pc[c] # "closed"
      BY <2>1, <2>3, Zenon
    <3>2. ASSUME q # NoRequest PROVE Starts(rBuf'[c], HeaderOf[q])
      <4>1. /\ q = ParseRequest(SubSeq(rBuf'[c], 1, Min(Found(rBuf'[c])) + 4)) /\ Found(rBuf'[c]) # {}
        BY <2>1, <3>2, Zenon
      <4>2. q \in Request \ Malformed /\ HeaderOf[q] = SubSeq(rBuf'[c], 1, Min(Found(rBuf'[c])) + 4)
        BY <3>2, <4>1, ParseFinds, Zenon
      <4>3. Starts(rBuf'[c], SubSeq(rBuf'[c], 1, Min(Found(rBuf'[c])) + 4))
        BY <2>2, <4>1, FoundStarts, Zenon
      <4> QED
        BY <4>2, <4>3, Zenon
    <3>3. Ordered(p, rBuf'[c], net'[c], q, sent[c], answered[c])
      <4> DEFINE b == rBuf[c]
                 m == net[c]
                 b2 == rBuf'[c]
                 m2 == net'[c]
      <4>1. /\ b2 \o m2 = b \o m /\ Ordered(pc[c], b, m, request[c], sent[c], answered[c])
            /\ q # NoRequest => Starts(b2, HeaderOf[q])
        BY <1>0, <2>2, <3>2, Zenon
      <4> HIDE DEF b, m, b2, m2, BytesInv, SizesInv
      <4>2. Ordered(p, b2, m2, q, sent[c], answered[c])
        BY <3>1, <4>1, ReadOrdered, ZenonT(60)
      <4> QED
        BY <4>2, Zenon DEF b2, m2
    <3> QED
      BY <2>3, <2>5, <3>1, <3>3, Zenon
  <2> QED
    BY <2>4, <2>5, Zenon
<1>5. ASSUME NEW c \in Conn, CloseConnection(c), NEW d \in Conn PROVE At(d)'
  <2>1. /\ pc' = [pc EXCEPT ![c] = "closed"] /\ net' = [net EXCEPT ![c] = <<>>] /\ pc[c] = "ending"
        /\ UNCHANGED <<rBuf, request, sent, answered>>
    BY <1>5, Zenon DEF CloseConnection
  <2>2. CASE d # c
    <3>1. pc'[d] = pc[d] /\ net'[d] = net[d]
      BY <2>1, <2>2, Zenon
    <3> QED
      BY <1>s, <2>1, <3>1, Zenon
  <2>3. CASE d = c
    <3>1. pc'[c] = "closed" /\ pc[c] # "closed"
      BY <2>1, Zenon
    <3>2. \A b2, n2, q2 : Ordered("closed", b2, n2, q2, sent[c], answered[c])
      BY <1>0, <3>1, GoesOn, Zenon
    <3> QED
      BY <2>1, <2>3, <3>1, <3>2, Zenon
  <2> QED
    BY <2>2, <2>3, Zenon
<1>6. ASSUME NEW c \in Conn, Respond(c), NEW d \in Conn PROVE At(d)'
  <2>1. /\ rBuf' = [rBuf EXCEPT ![c] = <<>>] /\ pc' = [pc EXCEPT ![c] = "reading"]
        /\ request' = [request EXCEPT ![c] = NoRequest] /\ UNCHANGED <<net, sent>> /\ pc[c] = "respond"
        /\ answered' = [answered EXCEPT ![c] = IF up[c] = "closed" THEN @ ELSE Append(@, request[c])]
    BY <1>6, Zenon DEF Respond, Emptied
  <2>2. CASE d # c
    <3>1. pc'[d] = pc[d] /\ rBuf'[d] = rBuf[d] /\ request'[d] = request[d] /\ answered'[d] = answered[d]
      BY <2>1, <2>2, Zenon
    <3> QED
      BY <1>s, <2>1, <3>1, Zenon
  <2>3. CASE d = c
    <3>1. /\ pc'[c] = "reading" /\ rBuf'[c] = <<>> /\ request'[c] = NoRequest
          /\ answered'[c] = answered[c] \/ answered'[c] = Append(answered[c], request[c])
      BY <2>1, Zenon
    <3>2. request[c] \in Request /\ pc[c] # "closed"
      BY <2>1, Zenon
    <3>3. /\ Ordered("reading", <<>>, net[c], NoRequest, sent[c], answered[c])
          /\ Ordered("reading", <<>>, net[c], NoRequest, sent[c], Append(answered[c], request[c]))
      BY <1>0, <3>2, RespondOrdered, Zenon
    <3> QED
      BY <2>1, <2>3, <3>1, <3>3, Zenon
  <2> QED
    BY <2>2, <2>3, Zenon
<1>7. ASSUME AddCallback \/ UNCHANGED vars, NEW d \in Conn PROVE At(d)'
  BY <1>7, <1>s, Zenon DEF AddCallback, connVars, vars
<1>8. \A d \in Conn : At(d)'
  BY <1>1, <1>2, <1>3, <1>4, <1>5, <1>6, <1>7, Zenon DEF Next, ServerStep
<1> QED
  BY <1>8, Zenon DEF OrderInv

\* Every answer on a connection is to a header in the bytes that its client has
\* sent, in the order of these bytes and without using one of them twice, however
\* the bytes arrive and however many requests are under way (connectionThread).
THEOREM AnsweredInOrder == Spec => []InOrder
<1>1. OrderInv /\ SizesInv => InOrder
  <2> SUFFICES ASSUME OrderInv, SizesInv, NEW c \in Conn
               PROVE  \E from \in [DOMAIN answered[c] -> Headers(sent[c])] :
                          \A i \in DOMAIN answered[c] :
                              /\ HeaderAt(sent[c], from[i], answered[c][i])
                              /\ \A j \in 1 .. i - 1 :
                                    from[j] + Len(HeaderOf[answered[c][j]]) <= from[i]
    BY Zenon DEF InOrder
  <2>1. /\ DOMAIN answered[c] = 1 .. Len(answered[c]) /\ Len(sent[c]) \in Nat
        /\ \A i \in 1 .. Len(answered[c]) : answered[c][i] \in Request
    BY DEF SizesInv
  <2>2. PICK from : Answers(answered[c], sent[c], from)
    BY Zenon DEF OrderInv, Ordered
  <2>3. ASSUME NEW i \in 1 .. Len(answered[c]) PROVE from[i] \in Headers(sent[c])
    <3>1. from[i] \in Nat /\ answered[c][i] \in Request /\ HeaderAt(sent[c], from[i], answered[c][i])
      BY <2>1, <2>2, Zenon DEF Answers
    <3>2. Len(HeaderOf[answered[c][i]]) \in Nat
      BY <3>1, HeaderLen, Zenon
    <3>3. from[i] \in 0 .. Len(sent[c])
      <4>1. from[i] + Len(HeaderOf[answered[c][i]]) <= Len(sent[c])
        BY <3>1, Zenon DEF HeaderAt
      <4> QED
        BY <2>1, <3>1, <3>2, <4>1
    <3> QED
      BY <3>1, <3>3, Zenon DEF Headers
  <2> QED
    BY <2>1, <2>2, <2>3, Zenon DEF Answers
<1>2. BytesInv /\ SizesInv /\ OrderInv /\ [Next]_vars => OrderInv'
  BY OrderNext, Zenon
<1> QED
  BY <1>1, <1>2, OrderInit, BytesInvariance, SizesInvariance, PTL DEF Spec
=============================================================================
