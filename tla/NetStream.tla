------------------------------ MODULE NetStream -----------------------------
(***************************************************************************)
(* A TCP stream (Core/Net/NetStream.cpp, Socket.cpp), its reads, peeks and *)
(* writes (Core/Io/HandleStream.cpp, PeekStream.cpp), the requests that    *)
(* wait for a descriptor or a timeout (OS/IORequest.cpp, IOHandle.cpp on   *)
(* POSIX), sleeping UThreads, and the sleep of their OS thread (UThread.cpp*)
(* and Thread.cpp, waitForWork).                                           *)
(*                                                                         *)
(* All UThreads are of one OS thread: streams are not shared between OS    *)
(* threads.  A step is what a UThread does until it blocks or returns, or  *)
(* what the OS thread does between two UThreads.  Which ready UThread runs *)
(* next is left open (module UThreadState has the order).  The kernel and  *)
(* the peer are external: the descriptor refers to the connection, which   *)
(* has bytes to read and room to write, and once it is closed it may be    *)
(* given to another file, which has bytes of its own.  Time is relative:   *)
(* left[u] is the time until the wake-up time of u.                        *)
(***************************************************************************)
EXTENDS FdMap

CONSTANTS
    UThread,
    fd,             \* the descriptor of the connection
    MaxSent,        \* bound: bytes the peer sends
    MaxRoom,        \* bytes the kernel buffers for a peer that does not read
    Counts,         \* the sizes of the buffers
    Timeouts,       \* timeouts of reads in ms, 0 for none
    Sleeps,         \* sleeping times in ms
    PerMs,          \* units of time per ms, 1000 in the code
    NatSize,        \* 2^32 in the code
    UseAfterClose   \* programs use the streams of a socket they have closed

ASSUME NetStreamAssumption ==
    /\ fd # NoFd /\ fd \in DOMAIN Hash /\ NoValue \notin UThread
    /\ MaxSent \in Nat /\ MaxRoom \in Nat /\ Counts \subseteq Nat \ {0}
    /\ Timeouts \subseteq Nat /\ Sleeps \subseteq Nat
    /\ PerMs \in Nat \ {0} /\ NatSize \in Nat \ {0} /\ UseAfterClose \in BOOLEAN

VARIABLES
    file,           \* what the descriptor refers to: "conn", "other" or "none"
    rx, sent,       \* the bytes to be read; how many were sent
    peerClosed, room,
    socket, in, out,    \* the NetStream and its two streams have a handle
    closed,         \* NetStream::closed
    lookahead, atEof,
    got,            \* the bytes that reads have returned
    op,             \* op[u]: the call u is in, and its IORequest
    handles,        \* the FdMap of the OS thread
    sleeping, left, \* the sorted list of sleepers and how long they sleep
    budget          \* how long the OS thread is in poll

peer == <<rx, sent, peerClosed, room>>
sock == <<socket, in, out, closed>>
stream == <<lookahead, atEof, got>>
waits == <<op, handles, sleeping, left>>
vars == <<file, peer, sock, stream, waits, budget>>

Awake == -2         \* the OS thread is not in poll
Forever == -1       \* poll has no timeout
Foreign == 0        \* a byte of another file

\* n: bytes left to read or write; timeout, closed, wake: of the IORequest.
Call(kind, n, ms) ==
    [kind |-> kind, n |-> n, ms |-> ms, timeout |-> FALSE, closed |-> FALSE, wake |-> FALSE]

Idle == Call("idle", 0, 0)

Waits(u) == op[u].kind \in {"read", "peek", "write"}

TypeOK ==
    /\ file \in {"conn", "other", "none"}
    /\ sent \in Nat /\ rx \in Seq(Nat) /\ got \in Seq(Nat) /\ lookahead \in Seq(Nat)
    /\ peerClosed \in BOOLEAN /\ room \in 0 .. MaxRoom
    /\ socket \in BOOLEAN /\ in \in BOOLEAN /\ out \in BOOLEAN
    /\ closed \subseteq {"in", "out"} /\ atEof \in BOOLEAN
    /\ op \in [UThread -> [kind : {"idle", "read", "peek", "write", "sleep"}, n : Nat,
                           ms : Nat, timeout : BOOLEAN, closed : BOOLEAN, wake : BOOLEAN]]
    /\ left \in [UThread -> Nat] /\ budget \in Nat \cup {Awake, Forever}

Init ==
    /\ file = "conn" /\ rx = <<>> /\ sent = 0 /\ peerClosed = FALSE /\ room = MaxRoom
    /\ socket = TRUE /\ in = TRUE /\ out = TRUE /\ closed = {}
    /\ lookahead = <<>> /\ atEof = FALSE /\ got = <<>>
    /\ op = [u \in UThread |-> Idle]
    /\ handles = EmptyMap /\ sleeping = <<>>
    /\ left = [u \in UThread |-> 0] /\ budget = Awake

----------------------------------------------------------------------------
\* Sleeping: SortedInlineList and the functions of UThreadState around it.

\* Mutant of sleepTarget: the timestamp is rounded down once more.
sleepTargetShort(ms) == ((ms * PerMs) % NatSize) - 1

\* sleepTarget, relative to now; the product is of 32 bits.
sleepTarget(ms) == (ms * PerMs) % NatSize

\* Mutant of Pushed: the list is not sorted.
PushedFirst(list, l, u) == <<u>> \o list

\* SortedInlineList::push, by the time that is left: behind all that are earlier.
Pushed(list, l, u) ==
    LET k == Min({i \in 0 .. Len(list) : i = Len(list) \/ ~(l[list[i + 1]] < l[u])})
    IN  SubSeq(list, 1, k) \o <<u>> \o SubSeq(list, k + 1, Len(list))

\* nextWake: the whole milliseconds until the first sleeper.
nextWake == (left[Head(sleeping)] \div PerMs) * PerMs

\* How many sleepers wakeThreads signals: those before the first that has time left.
Over == Min({i \in 0 .. Len(sleeping) : i = Len(sleeping) \/ left[sleeping[i + 1]] > 0})

Expired == {sleeping[i] : i \in 1 .. Over}

----------------------------------------------------------------------------
\* Requests: IOHandle and IORequest.

\* IOHandle::detach: the first element that is the request of u.
Detach(m, u) ==
    LET mine == {s \in Slots(m, fd) : m.val[s] = u}
    IN  IF mine = {} THEN m ELSE remove(m, First(m, fd, mine))

\* doWait: u waits for o.  The table and the list are as h and s say.
Wait(u, o, h, s) ==
    /\ op' = [op EXCEPT ![u] = o]
    /\ handles' = put(h, fd, u)
    /\ left' = [left EXCEPT ![u] = sleepTarget(o.ms)]
    /\ sleeping' = IF o.ms > 0 THEN Pushed(s, left', u) ELSE s

\* The call of u returns.
Return(u, h, s) ==
    /\ op' = [op EXCEPT ![u] = Idle]
    /\ handles' = h /\ sleeping' = s
    /\ left' = [left EXCEPT ![u] = 0]

\* poll reports the descriptor to a reader or a writer: also when the peer has gone.
Polled(o) ==
    \/ file # "conn" \/ peerClosed
    \/ o.kind = "write" /\ room > 0
    \/ o.kind # "write" /\ rx # <<>>

\* The requests that notifyAll wakes.
Notified == {u \in UThread : (\E s \in DOMAIN handles.val : handles.val[s] = u) /\ Polled(op[u])}

\* wakeThreads and checkIo.
Wakes ==
    /\ sleeping' = SubSeq(sleeping, Over + 1, Len(sleeping))
    /\ op' = [u \in UThread |->
          [op[u] EXCEPT !.wake = @ \/ u \in Expired \cup Notified,
                        !.timeout = @ \/ u \in Expired]]
    /\ budget' = Awake
    /\ UNCHANGED <<file, peer, sock, stream, handles, left>>

----------------------------------------------------------------------------
\* Calls of the UThreads, which run only while the OS thread is not in poll.

Runs(u) == budget = Awake /\ op[u].kind = "idle"

\* A stream has one reader and one writer at a time.
Nobody(kinds) == \A u \in UThread : op[u].kind \notin kinds

\* Mutant of Take: lookaheadStart is not moved.
TakeAgain(kind, front, data) ==
    /\ got' = IF kind = "read" THEN got \o front \o data ELSE got
    /\ lookahead' = IF kind = "read" THEN lookahead ELSE lookahead \o data

\* The read or peek ends or waits with data; front is what it took of the lookahead.
Take(kind, front, data) ==
    /\ got' = IF kind = "read" THEN got \o front \o data ELSE got
    /\ lookahead' = IF kind = "read" THEN SubSeq(lookahead, Len(front) + 1, Len(lookahead))
                    ELSE lookahead \o data

\* storm::read, from where the descriptor is read: data, the end, or a wait.
DoRead(u, o, front, h, s) ==
    /\ \/ /\ file = "conn" /\ rx # <<>>
          /\ LET k == Min({o.n, Len(rx)})
             IN  /\ Take(o.kind, front, SubSeq(rx, 1, k))
                 /\ rx' = SubSeq(rx, k + 1, Len(rx))
          /\ Return(u, h, s) /\ UNCHANGED atEof
       \/ /\ file = "other"
          /\ Take(o.kind, front, <<Foreign>>)
          /\ Return(u, h, s) /\ UNCHANGED <<rx, atEof>>
       \/ /\ file = "none" \/ (file = "conn" /\ rx = <<>> /\ peerClosed)
          /\ Take(o.kind, front, <<>>)
          /\ atEof' = TRUE
          /\ Return(u, h, s) /\ UNCHANGED rx
       \/ /\ file = "conn" /\ rx = <<>> /\ ~peerClosed
          /\ Take(o.kind, front, <<>>)
          /\ Wait(u, o, h, s) /\ UNCHANGED <<rx, atEof>>
    /\ UNCHANGED <<file, sent, peerClosed, room, sock, budget>>

\* A stream without a handle is at its end; its lookahead can still be read.
AtEnd(kind, front) ==
    /\ Take(kind, front, <<>>) /\ atEof' = TRUE
    /\ UNCHANGED <<file, peer, sock, waits, budget>>

\* PeekIStream::read into n bytes: first the lookahead, then the descriptor.
Read(u, n, ms) ==
    LET front == SubSeq(lookahead, 1, Min({n, Len(lookahead)}))
        o == Call("read", n - Len(front), ms)
    IN  /\ Runs(u) /\ Nobody({"read", "peek"}) /\ (UseAfterClose \/ socket \/ ~in)
        /\ \/ /\ o.n = 0
              /\ Take("read", front, <<>>)
              /\ UNCHANGED <<file, peer, sock, atEof, waits, budget>>
           \/ o.n > 0 /\ ~in /\ AtEnd("read", front)
           \/ o.n > 0 /\ in /\ DoRead(u, o, front, handles, sleeping)

\* PeekIStream::peek: what the lookahead lacks is read into it.
Peek(u, n, ms) ==
    LET o == Call("peek", n - Len(lookahead), ms)
    IN  /\ Runs(u) /\ Nobody({"read", "peek"}) /\ (UseAfterClose \/ socket \/ ~in)
        /\ n > Len(lookahead)
        /\ \/ ~in /\ AtEnd("peek", <<>>)
           \/ in /\ DoRead(u, o, <<>>, handles, sleeping)

\* storm::write in the loop of HandleOStream::write: what there is room for, then
\* wait.  The loop looks at the handle of the stream again after every storm::write.
DoWrite(u, o, h, s) ==
    LET k == Min({o.n, room})
    IN  /\ \/ /\ file # "conn" \/ peerClosed
              /\ Return(u, h, s) /\ UNCHANGED room
           \/ /\ file = "conn" /\ ~peerClosed
              /\ room' = room - k
              /\ IF k = o.n \/ (k > 0 /\ ~out) THEN Return(u, h, s)
                 ELSE Wait(u, [o EXCEPT !.n = @ - k], h, s)
        /\ UNCHANGED <<file, rx, sent, peerClosed, sock, stream, budget>>

Write(u, n) ==
    /\ Runs(u) /\ Nobody({"write"}) /\ out /\ (UseAfterClose \/ socket)
    /\ DoWrite(u, Call("write", n, 0), handles, sleeping)

\* UThreadState::sleep.
Sleep(u, ms) ==
    /\ Runs(u)
    /\ op' = [op EXCEPT ![u] = Call("sleep", 0, ms)]
    /\ left' = [left EXCEPT ![u] = sleepTarget(ms)]
    /\ sleeping' = Pushed(sleeping, left', u)
    /\ UNCHANGED <<file, peer, sock, stream, handles, budget>>

\* Mutant of CancelSleep: the timeout stays in the list.
CancelNothing(s, u) == s

\* UThreadState::cancelSleep.
CancelSleep(s, u) ==
    IF \A i \in DOMAIN s : s[i] # u THEN s
    ELSE LET k == CHOOSE i \in DOMAIN s : s[i] = u
         IN  SubSeq(s, 1, k - 1) \o SubSeq(s, k + 1, Len(s))

\* Mutant of Ended: a timeout is taken for the end of the stream.
EndedAnyway(o) == TRUE

\* What a request that was ended makes of atEof.
Ended(o) == IF o.kind = "write" THEN atEof ELSE ~o.timeout

\* u was woken and runs again: the request goes, then its outcome is looked at.
Resume(u) ==
    LET o == [op[u] EXCEPT !.wake = FALSE]
        h == IF Waits(u) THEN Detach(handles, u) ELSE handles
        s == IF op[u].timeout THEN sleeping ELSE CancelSleep(sleeping, u)
    IN  /\ budget = Awake /\ op[u].wake
        /\ \/ /\ o.kind = "sleep"
              /\ Return(u, h, s)
              /\ UNCHANGED <<file, peer, sock, stream, budget>>
           \/ /\ Waits(u) /\ (o.timeout \/ o.closed)
              /\ Return(u, h, s)
              /\ atEof' = Ended(o)
              /\ UNCHANGED <<file, peer, sock, lookahead, got, budget>>
           \/ /\ ~o.timeout /\ ~o.closed /\ o.kind = "write" /\ DoWrite(u, o, h, s)
           \/ /\ ~o.timeout /\ ~o.closed /\ o.kind \in {"read", "peek"}
              /\ DoRead(u, o, <<>>, h, s)

----------------------------------------------------------------------------
\* Closing.

\* closeSocket: IOHandle::remove ends the requests on the descriptor, close frees it.
closeSocket ==
    LET ended == {handles.val[s] : s \in Slots(handles, fd)}
    IN  /\ op' = [u \in UThread |->
              IF u \in ended THEN [op[u] EXCEPT !.closed = TRUE, !.wake = TRUE] ELSE op[u]]
        /\ handles' = removeAll(handles, fd)
        /\ file' = "none"

\* Socket::close.
Close ==
    /\ budget = Awake /\ socket
    /\ closeSocket
    /\ socket' = FALSE
    /\ UNCHANGED <<peer, in, out, closed, stream, sleeping, left, budget>>

\* NetIStream::close and NetOStream::close: closeEnd, and the handle of the stream.
CloseEnd(side) ==
    LET both == closed \cup {side} = {"in", "out"}
    IN  /\ budget = Awake /\ side \notin closed
        /\ IF both /\ socket THEN closeSocket /\ socket' = FALSE
           ELSE UNCHANGED <<file, op, handles, socket>>
        /\ closed' = closed \cup {side}
        /\ in' = (in /\ side # "in") /\ out' = (out /\ side # "out")
        /\ UNCHANGED <<peer, stream, sleeping, left, budget>>

----------------------------------------------------------------------------
\* The OS thread between two UThreads.

\* reap, which is part of every switch.
Reap ==
    /\ budget = Awake /\ Expired \cup Notified # {}
    /\ Wakes

\* waitForWork: nothing is ready, so poll; with less than a ms left it does not block.
EnterPoll ==
    /\ budget = Awake /\ \A u \in UThread : ~op[u].wake
    /\ Notified = {}
    /\ budget' = IF sleeping = <<>> THEN Forever ELSE nextWake
    /\ budget' # 0
    /\ UNCHANGED <<file, peer, sock, stream, waits>>

\* poll returns, for a descriptor, for its timeout or for a signal.
LeavePoll ==
    /\ budget # Awake
    /\ Wakes

Tick ==
    /\ \E u \in UThread : left[u] > 0
    /\ left' = [u \in UThread |-> IF left[u] > 0 THEN left[u] - 1 ELSE 0]
    /\ budget' = IF budget > 0 THEN budget - 1 ELSE budget
    /\ UNCHANGED <<file, peer, sock, stream, op, handles, sleeping>>

----------------------------------------------------------------------------
\* The peer, and the rest of the program.

Send ==
    /\ file = "conn" /\ ~peerClosed /\ sent < MaxSent
    /\ sent' = sent + 1 /\ rx' = Append(rx, sent + 1)
    /\ UNCHANGED <<file, peerClosed, room, sock, stream, waits, budget>>

Drain ==
    /\ file = "conn" /\ ~peerClosed /\ room < MaxRoom
    /\ room' = room + 1
    /\ UNCHANGED <<file, rx, sent, peerClosed, sock, stream, waits, budget>>

Leave ==
    /\ file = "conn" /\ ~peerClosed
    /\ peerClosed' = TRUE
    /\ UNCHANGED <<file, rx, sent, room, sock, stream, waits, budget>>

\* The descriptor is given to another file.
Reuse ==
    /\ file = "none"
    /\ file' = "other"
    /\ UNCHANGED <<peer, sock, stream, waits, budget>>

Next ==
    \/ \E u \in UThread :
          \/ \E n \in Counts, ms \in Timeouts : Read(u, n, ms) \/ Peek(u, n, ms)
          \/ \E n \in Counts : Write(u, n)
          \/ \E ms \in Sleeps : Sleep(u, ms)
          \/ Resume(u)
    \/ Close \/ CloseEnd("in") \/ CloseEnd("out")
    \/ Reap \/ EnterPoll \/ LeavePoll \/ Tick
    \/ Send \/ Drain \/ Leave \/ Reuse

Spec == Init /\ [][Next]_vars

----------------------------------------------------------------------------
\* Requests live on the stacks of the UThreads that wait.  The table that poll
\* and notifyAll go through holds exactly the requests that wait on the open
\* connection, and the list of sleepers exactly those whose time is not over:
\* neither ever points at a request that is gone, nor misses one.
Registered ==
    LET waiting == {u \in UThread : Waits(u) /\ ~op[u].closed}
        timed == {u \in UThread : op[u].kind = "sleep" \/ (Waits(u) /\ op[u].ms > 0)}
    IN  /\ handles.elems = Cardinality(waiting)
        /\ {handles.val[s] : s \in Slots(handles, fd)} = waiting
        /\ waiting # {} => file = "conn"
        /\ Range(sleeping) = {u \in timed : ~op[u].timeout}
        /\ IsInjective(sleeping)

\* Reads return the bytes of the connection, each once and in order, however
\* reads, peeks, timeouts and closes follow each other.
OwnData == got \o lookahead \o rx = [i \in 1 .. sent |-> i]

\* The OS thread never sleeps past the time of a sleeper or of a timeout.
NeverOversleeps ==
    /\ budget = Forever => sleeping = <<>>
    /\ budget >= 0 => \A u \in Range(sleeping) : budget <= left[u]

\* more() tells a timeout from the end: atEof is set only when the peer has
\* left and everything was read, or when this side has closed.
EndIsEnd ==
    atEof => ~in \/ ~socket \/ (peerClosed /\ rx = <<>>)
============================================================================
