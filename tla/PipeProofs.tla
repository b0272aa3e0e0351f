----------------------------- MODULE PipeProofs -----------------------------
(***************************************************************************)
(* The safety of storm::Pipe, for any readers, OS threads and sizes: bytes *)
(* come out as they went in, and its events tell the truth.                *)
(***************************************************************************)
EXTENDS Pipe, TLAPS

----------------------------------------------------------------------------
(***************************************************************************)
(* Lists are seen through membership and the absence of duplicates.        *)
(***************************************************************************)
On(x, q) == \E i \in 1 .. Len(q) : q[i] = x

Distinct(q) == \A i, j \in 1 .. Len(q) : q[i] = q[j] => i = j

\* Appending adds one element (InlineList::push).
LEMMA OnAppend ==
    ASSUME NEW S, NEW q \in Seq(S), NEW y \in S
    PROVE  /\ Append(q, y) \in Seq(S)
           /\ \A x : On(x, Append(q, y)) <=> On(x, q) \/ x = y
           /\ Distinct(q) /\ ~On(y, q) => Distinct(Append(q, y))
  BY DEF On, Distinct

\* Taking the first element takes no other (InlineList::pop).
LEMMA OnTail ==
    ASSUME NEW S, NEW q \in Seq(S), q # <<>>, Distinct(q)
    PROVE  /\ Tail(q) \in Seq(S)
           /\ Head(q) \in S
           /\ \A x : On(x, q) <=> On(x, Tail(q)) \/ x = Head(q)
           /\ ~On(Head(q), Tail(q))
           /\ Distinct(Tail(q))
<1>1. /\ Tail(q) \in Seq(S)
      /\ Head(q) \in S
      /\ Head(q) = q[1]
      /\ Len(q) \in Nat \ {0}
      /\ Len(Tail(q)) = Len(q) - 1
      /\ \A i \in 1 .. Len(q) - 1 : Tail(q)[i] = q[i + 1]
  OBVIOUS
<1>2. On(Head(q), q) /\ ~On(Head(q), Tail(q))
  BY <1>1 DEF On, Distinct
<1>3. ASSUME NEW x, On(x, Tail(q)) PROVE On(x, q)
  BY <1>1, <1>3 DEF On
<1>4. ASSUME NEW x, On(x, q), x # Head(q) PROVE On(x, Tail(q))
  <2>1. PICK i \in 1 .. Len(q) : q[i] = x
    BY <1>4, Zenon DEF On
  <2>2. i # 1 /\ i - 1 \in 1 .. Len(q) - 1 /\ Tail(q)[i - 1] = q[i]
    BY <1>1, <1>4, <2>1
  <2> QED
    BY <1>1, <2>1, <2>2, Zenon DEF On
<1>5. Distinct(Tail(q))
  BY <1>1 DEF Distinct
<1> QED
  BY <1>1, <1>2, <1>3, <1>4, <1>5, Zenon

\* The empty list has no elements.
LEMMA OnEmpty == (\A x : ~On(x, <<>>)) /\ Distinct(<<>>)
  BY DEF On, Distinct

\* A list that is not empty has its head.
LEMMA OnHead ==
    ASSUME NEW S, NEW q \in Seq(S)
    PROVE  /\ q # <<>> => On(Head(q), q) /\ Head(q) \in S
           /\ \A x : On(x, q) => q # <<>> /\ x \in S
  BY DEF On

----------------------------------------------------------------------------
(***************************************************************************)
(* The inductive invariant, in three layers: what the calls do to the      *)
(* bytes, who is on which list and inside the lock, and the flags.         *)
(***************************************************************************)

\* Function f can be at place l.
Reaches(f, l) ==
    /\ l = "idle" => f = "none"
    /\ l \in {"test", "enqueue", "lower"} => f \in {"read", "peek", "write"}
    /\ l \in {"lock", "body"} => f \in {"read", "peek", "more", "write"}
    /\ l = "full" => f = "write"
    /\ l \in {"raise", "grab", "wake"} => f \in {"read", "write", "closeRead", "closeWrite", "close"}
    /\ l = "unlock" => f \in {"none", "read", "peek", "write"}

\* The writer has bytes left until it has copied them, and room to count them.
OpInv ==
    \A u \in UThread :
        /\ Reaches(op[u], pc[u])
        /\ op[u] = "write" =>
              /\ u = Writer /\ sent + amount[u] <= MaxBytes
              /\ pc[u] \notin {"full", "raise", "grab", "wake"} => amount[u] > 0

RingTypes ==
    /\ data \in [0 .. Size - 1 -> 0 .. MaxBytes]
    /\ readPos \in 0 .. Size /\ (Size > 0 => readPos < Size)
    /\ filled \in 0 .. Size
    /\ readClosed \in BOOLEAN /\ writeClosed \in BOOLEAN
    /\ out \in Seq(0 .. MaxBytes) /\ sent \in 0 .. MaxBytes

ListTypes ==
    /\ ready \in [OSThread -> Seq(UThread)]
    /\ s \in [Ev -> {0, 1}] /\ waiting \in [Ev -> Seq(UThread)]
    /\ local \in [UThread -> Seq(UThread)]
    /\ count \in [{L} -> Nat] /\ lockQueue \in [{L} -> Seq(UThread)]

CallTypes ==
    /\ pc \in [UThread -> PC] /\ op \in [UThread -> Op]
    /\ amount \in [UThread -> Nat] /\ calls \in [UThread -> Nat]

BytesInv == RingTypes /\ Fifo /\ ListTypes /\ CallTypes /\ OpInv

----------------------------------------------------------------------------
ListInv ==
    /\ \A t \in OSThread : Distinct(ready[t]) /\ \A u \in UThread : On(u, ready[t]) => Owner[u] = t
    /\ \A e \in Ev : Distinct(waiting[e])
    /\ \A w \in UThread : Distinct(local[w])
    /\ Distinct(lockQueue[L])

\* Who is queued in wait() is there, for that event, and on no other list.
QueueInv ==
    \A e \in Ev : \A u \in UThread : On(u, waiting[e]) =>
        /\ pc[u] = "lock" /\ Awaits(u) = e
        /\ ~On(u, ready[Owner[u]])
        /\ \A w \in UThread : ~On(u, local[w])

\* So is who was taken off the queue and is not yet ready.
LocalInv ==
    \A u, w \in UThread : On(u, local[w]) =>
        /\ pc[u] = "lock"
        /\ ~On(u, ready[Owner[u]])
        /\ \A v \in UThread : On(u, local[v]) => v = w

\* Who is queued for the lock does not run.
LockQueueInv ==
    \A u \in UThread : On(u, lockQueue[L]) => pc[u] = "body" /\ ~On(u, ready[Owner[u]])

\* u holds the lock.  The closes set an event without it.
Inside(u) ==
    \/ pc[u] \in {"full", "lower", "unlock"}
    \/ pc[u] = "body" /\ ~On(u, lockQueue[L])
    \/ pc[u] \in {"raise", "grab", "wake"} /\ op[u] \in {"read", "write"}

LockInv ==
    /\ count[L] \in {0, 1}
    /\ \A u, v \in UThread : Inside(u) /\ Inside(v) => u = v
    /\ count[L] = 1 => lockQueue[L] = <<>> /\ \A u \in UThread : ~Inside(u)

ListsInv == ListInv /\ QueueInv /\ LocalInv /\ LockQueueInv /\ LockInv

----------------------------------------------------------------------------
ReadHonest == filled > 0 => s["waitRead"] = 1
WriteHonest == filled < Size => s["waitWrite"] = 1

\* The flags are honest, except for the one that the UThread inside the lock is
\* about to set; one that is about to be cleared may be.
Excuse(u) ==
    /\ ReadHonest \/ (pc[u] \in {"full", "raise"} /\ op[u] = "write")
    /\ WriteHonest \/ (pc[u] = "raise" /\ op[u] = "read")
    /\ pc[u] = "lower" => IF op[u] = "write" THEN filled = Size ELSE filled = 0

HonestInv ==
    /\ count[L] = 1 => ReadHonest /\ WriteHonest
    /\ \A u \in UThread : Inside(u) => Excuse(u)

IInv == BytesInv /\ ListsInv /\ HonestInv

----------------------------------------------------------------------------
(***************************************************************************)
(* The first layer: types, places, and the bytes.                          *)
(***************************************************************************)

\* What the steps need of the constants.
LEMMA Kinds ==
    /\ Owner \in [UThread -> OSThread]
    /\ Size \in Nat /\ MaxRead \in Nat /\ MaxBytes \in Nat
    /\ Reader \subseteq UThread /\ Writer \in UThread /\ Writer \notin Reader
  BY ReadyAssumption, PipeAssumption, Zenon

USE Kinds

\* Appending a UThread to a list of UThreads.
LEMMA Appended ==
    \A q \in Seq(UThread) : \A u \in UThread :
        /\ \A x : On(x, Append(q, u)) <=> On(x, q) \/ x = u
        /\ Distinct(q) /\ ~On(u, q) => Distinct(Append(q, u))
  BY OnAppend, Zenon

\* One step of u leaves the pcs, functions and amounts of the others alone.
LEMMA OpStep ==
    ASSUME CallTypes, OpInv, sent \in Nat, NEW u \in UThread,
           NEW l \in PC, NEW f \in Op, NEW n \in Nat,
           pc' = [pc EXCEPT ![u] = l], op' = [op EXCEPT ![u] = f],
           amount' = [amount EXCEPT ![u] = n],
           Reaches(f, l),
           f = "write" => /\ u = Writer /\ sent' + n <= MaxBytes
                          /\ l \notin {"full", "raise", "grab", "wake"} => n > 0,
           sent' = sent \/ u = Writer
    PROVE  OpInv' /\ pc' \in [UThread -> PC] /\ op' \in [UThread -> Op]
           /\ amount' \in [UThread -> Nat]
<1>1. pc' \in [UThread -> PC] /\ op' \in [UThread -> Op] /\ amount' \in [UThread -> Nat]
  BY Zenon DEF CallTypes
<1>2. pc'[u] = l /\ op'[u] = f /\ amount'[u] = n
  BY Zenon DEF CallTypes
<1>3. \A v \in UThread : v # u => pc'[v] = pc[v] /\ op'[v] = op[v] /\ amount'[v] = amount[v]
  BY Zenon DEF CallTypes
<1>4. ASSUME NEW v \in UThread, v # u
      PROVE  /\ Reaches(op[v], pc[v])
             /\ op[v] = "write" =>
                   /\ v = Writer /\ sent' + amount[v] <= MaxBytes
                   /\ pc[v] \notin {"full", "raise", "grab", "wake"} => amount[v] > 0
  BY <1>4, Zenon DEF OpInv
<1>5. OpInv'
  BY <1>2, <1>3, <1>4 DEF OpInv
<1> QED
  BY <1>1, <1>5, Zenon

\* Every step goes to a place of the function it is in.
LEMMA CallsNext ==
    ASSUME CallTypes, OpInv, RingTypes, NEW u \in UThread, Start(u) \/ Proceed(u) \/ Yield(u)
    PROVE  CallTypes' /\ OpInv'
<1>1. /\ pc[u] \in PC /\ op[u] \in Op /\ amount[u] \in Nat /\ calls[u] \in Nat
      /\ Reaches(op[u], pc[u])
      /\ op[u] = "write" => /\ u = Writer /\ sent + amount[u] <= MaxBytes
                            /\ pc[u] \notin {"full", "raise", "grab", "wake"} => amount[u] > 0
      /\ sent \in Nat /\ filled \in Nat
  BY DEF CallTypes, OpInv, RingTypes
<1>2. ASSUME NEW f \in Op, NEW n \in Nat, NEW l \in PC, Calls(u, f, n, l), Reaches(f, l), UNCHANGED sent,
             f = "write" => u = Writer /\ sent + n <= MaxBytes /\ n > 0
      PROVE  CallTypes' /\ OpInv'
  <2>1. calls' \in [UThread -> Nat]
    BY <1>1, <1>2 DEF CallTypes, Calls
  <2> QED
    BY <1>1, <1>2, <2>1, OpStep, Zenon DEF CallTypes, Calls, Goto
<1>3. ASSUME NEW f \in Op, NEW l \in PC, op' = [op EXCEPT ![u] = f], Goto(u, l), UNCHANGED <<sent, amount, calls>>,
             Reaches(f, l),
             f = "write" => op[u] = "write" /\ (l \notin {"full", "raise", "grab", "wake"} => amount[u] > 0)
      PROVE  CallTypes' /\ OpInv'
  <2>1. amount' = [amount EXCEPT ![u] = amount[u]]
    BY <1>3, Zenon DEF CallTypes
  <2>2. sent' + amount[u] = sent + amount[u]
    BY <1>3, Zenon
  <2>3. OpInv' /\ pc' \in [UThread -> PC] /\ op' \in [UThread -> Op] /\ amount' \in [UThread -> Nat]
    BY <1>1, <1>3, <2>1, <2>2, OpStep, Zenon DEF Goto
  <2> QED
    BY <1>3, <2>3, Zenon DEF CallTypes
<1>4. ASSUME NEW l \in PC, Goto(u, l), UNCHANGED <<sent, amount, op, calls>>,
             Reaches(op[u], l),
             op[u] = "write" => (l \notin {"full", "raise", "grab", "wake"} => amount[u] > 0)
      PROVE  CallTypes' /\ OpInv'
  <2>1. op' = [op EXCEPT ![u] = op[u]]
    BY <1>4, Zenon DEF CallTypes
  <2> QED
    BY <1>1, <1>3, <1>4, <2>1, Zenon
<1>5. ASSUME NEW l \in {"idle", "unlock"}, EndsIn(u, l), UNCHANGED <<sent, amount, calls>>
      PROVE  CallTypes' /\ OpInv'
  <2>1. l \in PC /\ "none" \in Op /\ Reaches("none", l)
    BY Zenon DEF Reaches, PC, Op
  <2> QED
    BY <1>3, <1>5, <2>1, Zenon DEF EndsIn
<1> USE DEF ring, closed, queues, event, locks, history
<1>r. ASSUME NEW n \in 0 .. MaxRead, Read(u, n) PROVE CallTypes' /\ OpInv'
  <2>1. Reaches("read", "test") /\ Reaches("peek", "test") /\ {"read", "peek"} \subseteq Op /\ "test" \in PC
    BY Zenon DEF Reaches, PC, Op
  <2> QED
    BY <1>2, <1>r, <2>1 DEF Read
<1>w. ASSUME NEW n \in 0 .. MaxBytes, Write(u, n) PROVE CallTypes' /\ OpInv'
  <2>1. Reaches("write", "test") /\ "write" \in Op /\ "test" \in PC
    BY Zenon DEF Reaches, PC, Op
  <2> QED
    BY <1>2, <1>w, <2>1 DEF Write
<1>m. ASSUME More(u) \/ CloseRead(u) \/ CloseWrite(u) PROVE CallTypes' /\ OpInv'
  <2>1. /\ Reaches("more", "lock") /\ \A f \in {"close", "closeRead", "closeWrite"} : Reaches(f, "raise")
        /\ {"more", "close", "closeRead", "closeWrite"} \subseteq Op /\ {"lock", "raise"} \subseteq PC
    BY Zenon DEF Reaches, PC, Op
  <2> QED
    BY <1>2, <1>m, <2>1, Zenon DEF More, CloseRead, CloseWrite
<1>y. CASE Yield(u) \/ Wake(u)
  BY <1>y, Zenon DEF Yield, Wake, CallTypes, OpInv
<1>t. CASE Test(u) \/ Enqueue(u)
  BY <1>1, <1>4, <1>t, Zenon DEF Test, Enqueue, At, Reaches, PC
<1>l. CASE Lock(u)
  BY <1>1, <1>4, <1>l, Zenon DEF Lock, At, Reaches, PC
<1>u. CASE Unlock(u)
  BY <1>1, <1>4, <1>u, Zenon DEF Unlock, At, Reaches, PC
<1>e. CASE ReadEnd(u) \/ PeekCopy(u) \/ MoreResult(u) \/ WriteEnd(u) \/ ReadDone(u)
  BY <1>5, <1>e, Zenon DEF ReadEnd, PeekCopy, MoreResult, WriteEnd, ReadDone
<1>n. CASE ReadNothing(u) \/ WriteNothing(u)
  BY <1>1, <1>4, <1>n, Zenon DEF ReadNothing, WriteNothing, At, Reaches, PC
<1>c. CASE ReadCopy(u)
  BY <1>1, <1>4, <1>c, Zenon DEF ReadCopy, At, Reaches, PC
<1>f. CASE WriteFull(u) \/ Raise(u) \/ Grab(u)
  BY <1>1, <1>4, <1>f, Zenon DEF WriteFull, Raise, Grab, At, Reaches, PC
<1>o. CASE Lower(u)
  BY <1>1, <1>4, <1>o, Zenon DEF Lower, At, Reaches, PC
<1>b. CASE CloseBoth(u)
  <2>1. Reaches("closeWrite", "raise") /\ "closeWrite" \in Op /\ "raise" \in PC
    BY Zenon DEF Reaches, PC, Op
  <2> QED
    BY <1>3, <1>b, <2>1, Zenon DEF CloseBoth
<1>a. CASE AfterSet(u)
  <2>1. CASE op[u] = "write" /\ amount[u] > 0 /\ Goto(u, "unlock") /\ UNCHANGED op
    BY <1>4, <1>a, <2>1, Zenon DEF AfterSet, Reaches, PC
  <2> QED
    BY <1>5, <1>a, <2>1, Zenon DEF AfterSet
<1>k. CASE WriteCopy(u)
  <2> DEFINE n == Least(Size - Wrap(readPos + filled), Least(Size - filled, amount[u]))
  <2>1. op[u] = "write" /\ sent' = sent + n /\ amount' = [amount EXCEPT ![u] = amount[u] - n]
        /\ pc' = [pc EXCEPT ![u] = "full"] /\ UNCHANGED <<op, calls>> /\ filled < Size
    BY <1>k, Zenon DEF WriteCopy, At, Goto
  <2>a. /\ readPos \in Nat /\ readPos < Size /\ filled \in Nat /\ filled < Size
        /\ amount[u] \in Nat
    BY <1>1, <2>1 DEF RingTypes
  <2>b. Size - Wrap(readPos + filled) \in Nat /\ Size - filled \in Nat
    BY <2>a DEF Wrap
  <2>c. \A a, b, c \in Nat : Least(a, Least(b, c)) \in 0 .. c
    BY DEF Least
  <2>2. n \in 0 .. amount[u]
    BY <2>a, <2>b, <2>c, Zenon
  <2>3. amount[u] - n \in Nat /\ sent' + (amount[u] - n) = sent + amount[u]
    BY <1>1, <2>1, <2>2
  <2>4. op' = [op EXCEPT ![u] = op[u]]
    BY <2>1, Zenon DEF CallTypes
  <2>5. "full" \in PC /\ Reaches(op[u], "full")
    BY <2>1, Zenon DEF Reaches, PC
  <2> HIDE DEF n
  <2>6. OpInv' /\ pc' \in [UThread -> PC] /\ op' \in [UThread -> Op] /\ amount' \in [UThread -> Nat]
    BY <1>1, <2>1, <2>3, <2>4, <2>5, OpStep, Zenon
  <2> QED
    BY <2>1, <2>6, Zenon DEF CallTypes
<1> QED
  BY <1>r, <1>w, <1>m, <1>y, <1>t, <1>l, <1>u, <1>e, <1>n, <1>c, <1>f, <1>o,
     <1>b, <1>a, <1>k, Zenon DEF Start, Proceed

\* The lists hold UThreads, and the flags are 0 or 1.
LEMMA ListTypesNext ==
    ASSUME ListTypes, CallTypes, NEW u \in UThread, Start(u) \/ Proceed(u) \/ Yield(u)
    PROVE  ListTypes'
<1> USE DEF queues, event, locks
<1>1. Awaits(u) \in Ev /\ Signals(u) \in Ev
  BY Zenon DEF Awaits, Signals, Ev
<1>2. Runs(u) => ready[Owner[u]] \in Seq(UThread) /\ Tail(ready[Owner[u]]) \in Seq(UThread)
  BY DEF Runs, ListTypes
<1>3. Park(u) /\ Runs(u) => ready' \in [OSThread -> Seq(UThread)]
  BY <1>2, Zenon DEF Park, ListTypes
<1>4. ASSUME NEW v \in UThread PROVE WakeUp(v) => ready' \in [OSThread -> Seq(UThread)]
  BY DEF WakeUp, ListTypes
<1>5. ASSUME NEW e \in Ev, NEW n \in {0, 1}, s' = [s EXCEPT ![e] = n] PROVE s' \in [Ev -> {0, 1}]
  BY <1>5, Zenon DEF ListTypes
<1>a. ASSUME UNCHANGED <<ready, event, locks>> PROVE ListTypes'
  BY <1>a, Zenon DEF ListTypes
<1>b. ASSUME UNCHANGED <<ready, queues, locks>>, s' \in [Ev -> {0, 1}] PROVE ListTypes'
  BY <1>b, Zenon DEF ListTypes
<1>s. CASE Start(u)
  BY <1>s, <1>a, Zenon DEF Start, Read, Write, More, CloseRead, CloseWrite
<1>y. CASE Yield(u)
  <2>1. ready' \in [OSThread -> Seq(UThread)]
    BY <1>2, <1>y DEF Yield, At, Leave, ListTypes
  <2> QED
    BY <1>y, <2>1, Zenon DEF Yield, ListTypes
<1>c. CASE \/ Test(u) \/ ReadEnd(u) \/ ReadNothing(u) \/ ReadCopy(u) \/ PeekCopy(u) \/ MoreResult(u)
           \/ WriteEnd(u) \/ WriteNothing(u) \/ WriteCopy(u) \/ AfterSet(u) \/ CloseBoth(u)
  BY <1>c, <1>a, Zenon DEF Test, ReadEnd, ReadNothing, ReadCopy, PeekCopy,
     MoreResult, WriteEnd, WriteNothing, WriteCopy, AfterSet, CloseBoth
<1>e. CASE Enqueue(u)
  <2>1. waiting' \in [Ev -> Seq(UThread)]
    BY <1>1, <1>e DEF Enqueue, ListTypes
  <2> QED
    BY <1>3, <1>e, <2>1, Zenon DEF Enqueue, At, ListTypes
<1>l. CASE Lock(u)
  <2>1. CASE Mutex!DownTakes(L) /\ UNCHANGED ready
    <3>1. count' \in [{L} -> Nat]
      BY <2>1 DEF Mutex!DownTakes, ListTypes
    <3> QED
      BY <1>l, <2>1, <3>1, Zenon DEF Lock, Mutex!DownTakes, ListTypes
  <2>2. CASE Mutex!DownQueues(L, u) /\ Park(u)
    <3>1. lockQueue' \in [{L} -> Seq(UThread)]
      BY <2>2 DEF Mutex!DownQueues, ListTypes
    <3> QED
      BY <1>3, <1>l, <2>2, <3>1, Zenon DEF Lock, At, Mutex!DownQueues,
         ListTypes
  <2> QED
    BY <1>l, <2>1, <2>2, Zenon DEF Lock
<1>u. CASE Unlock(u)
  <2>1. CASE Mutex!UpCounts(L) /\ UNCHANGED ready
    <3>1. count' \in [{L} -> Nat]
      BY <2>1 DEF Mutex!UpCounts, ListTypes
    <3> QED
      BY <1>u, <2>1, <3>1, Zenon DEF Unlock, Mutex!UpCounts, ListTypes
  <2>2. CASE Mutex!UpHandsOver(L) /\ WakeUp(Head(lockQueue[L]))
    <3>1. lockQueue[L] \in Seq(UThread) /\ lockQueue[L] # <<>>
      BY <2>2, Zenon DEF Mutex!UpHandsOver, ListTypes
    <3>2. Head(lockQueue[L]) \in UThread /\ Tail(lockQueue[L]) \in Seq(UThread)
      BY <3>1
    <3>3. lockQueue' \in [{L} -> Seq(UThread)]
      BY <2>2, <3>2, Zenon DEF Mutex!UpHandsOver, ListTypes
    <3> QED
      BY <1>4, <1>u, <2>2, <3>2, <3>3, Zenon DEF Unlock,
         Mutex!UpHandsOver, ListTypes
  <2> QED
    BY <1>u, <2>1, <2>2, Zenon DEF Unlock
<1>f. CASE WriteFull(u)
  <2>1. s' \in [Ev -> {0, 1}]
    BY <1>f, Zenon DEF WriteFull, ListTypes, Ev
  <2> QED
    BY <1>b, <1>f, <2>1, Zenon DEF WriteFull
<1>r. CASE Raise(u)
  <2>1. s' \in [Ev -> {0, 1}]
    BY <1>1, <1>5, <1>r, Zenon DEF Raise
  <2> QED
    BY <1>b, <1>r, <2>1, Zenon DEF Raise
<1>d. CASE ReadDone(u)
  <2>1. s' \in [Ev -> {0, 1}]
    BY <1>d, Zenon DEF ReadDone, ListTypes, Ev
  <2> QED
    BY <1>b, <1>d, <2>1, Zenon DEF ReadDone
<1>o. CASE Lower(u)
  <2>1. s' \in [Ev -> {0, 1}]
    BY <1>1, <1>5, <1>o, Zenon DEF Lower
  <2> QED
    BY <1>b, <1>o, <2>1, Zenon DEF Lower
<1>g. CASE Grab(u)
  BY <1>1, <1>g DEF Grab, ListTypes
<1>w. CASE Wake(u)
  <2>1. local[u] \in Seq(UThread) /\ local[u] # <<>>
    BY <1>w, Zenon DEF Wake, ListTypes
  <2>2. Head(local[u]) \in UThread /\ Tail(local[u]) \in Seq(UThread)
    BY <2>1
  <2>3. local' \in [UThread -> Seq(UThread)]
    BY <1>w, <2>2, Zenon DEF Wake, ListTypes
  <2> QED
    BY <1>4, <1>w, <2>2, <2>3, Zenon DEF Wake, ListTypes
<1> QED
  BY <1>s, <1>y, <1>c, <1>e, <1>l, <1>u, <1>f, <1>r, <1>d, <1>o, <1>g, <1>w,
     Zenon DEF Proceed

\* A position is wrapped once, and stays inside the buffer.
LEMMA WrapIn ==
    ASSUME NEW i \in Nat, i < 2 * Size
    PROVE  Wrap(i) \in 0 .. Size - 1
  BY DEF Wrap

\* readCommon takes the first bytes off the ring.
LEMMA ReadCopyBytes ==
    ASSUME RingTypes, Fifo, CallTypes, NEW u \in UThread, ReadCopy(u)
    PROVE  RingTypes' /\ Fifo'
<1> DEFINE n == Least(amount[u], filled)
<1>1. /\ filled > 0 /\ out' = out \o Copied(n) /\ filled' = filled - n
      /\ readPos' = Wrap(readPos + n) /\ UNCHANGED <<data, readClosed, writeClosed, sent>>
  BY Zenon DEF ReadCopy, closed
<1>2. amount[u] \in Nat /\ filled \in 0 .. Size /\ readPos \in 0 .. Size - 1 /\ Size > 0
  BY <1>1 DEF CallTypes, RingTypes
<1>3. n \in 0 .. filled
  BY <1>2 DEF Least
<1> HIDE DEF n
<1>4. \A i \in 0 .. filled : Wrap(readPos + i) \in 0 .. Size - 1
  BY <1>2, WrapIn
<1>5. \A i \in 1 .. n : Wrap(readPos + i - 1) \in 0 .. Size - 1 /\ data[Wrap(readPos + i - 1)] = Len(out) + i
  <2> TAKE i \in 1 .. n
  <2>1. i - 1 \in 0 .. filled - 1 /\ readPos + (i - 1) = readPos + i - 1
    BY <1>2, <1>3
  <2>2. data[Wrap(readPos + (i - 1))] = Len(out) + (i - 1) + 1
    BY <2>1, Zenon DEF Fifo
  <2>3. Len(out) \in Nat
    BY DEF RingTypes
  <2>4. Wrap(readPos + i - 1) = Wrap(readPos + (i - 1)) /\ i - 1 \in 0 .. filled
    BY <2>1, <1>2
  <2>5. Wrap(readPos + (i - 1)) \in 0 .. Size - 1
    BY <1>4, <2>4, Zenon
  <2>6. Len(out) + (i - 1) + 1 = Len(out) + i
    BY <1>2, <1>3, <2>3
  <2> QED
    BY <2>2, <2>4, <2>5, <2>6, Zenon
<1>6. Copied(n) \in Seq(0 .. MaxBytes) /\ Len(Copied(n)) = n /\ \A i \in 1 .. n : Copied(n)[i] = Len(out) + i
  <2>1. \A i \in 1 .. n : data[Wrap(readPos + i - 1)] \in 0 .. MaxBytes
    BY <1>5, Zenon DEF RingTypes
  <2>2. n \in Nat
    BY <1>2, <1>3
  <2> QED
    BY <1>5, <2>1, <2>2 DEF Copied
<1>7. /\ out \in Seq(0 .. MaxBytes) /\ Len(out) \in Nat /\ sent \in 0 .. MaxBytes
      /\ sent = Len(out) + filled /\ \A i \in 1 .. Len(out) : out[i] = i
  BY DEF RingTypes, Fifo
<1>8. /\ out' \in Seq(0 .. MaxBytes) /\ Len(out') = Len(out) + n
      /\ \A i \in 1 .. Len(out') : out'[i] = i
  <2>1. out' \in Seq(0 .. MaxBytes) /\ Len(out') = Len(out) + n
    BY <1>1, <1>6, <1>7
  <2>2. \A i \in 1 .. Len(out) : out'[i] = out[i]
    BY <1>1, <1>6, <1>7
  <2>3. \A i \in Len(out) + 1 .. Len(out) + n : out'[i] = Copied(n)[i - Len(out)] /\ i - Len(out) \in 1 .. n
    BY <1>1, <1>3, <1>2, <1>6, <1>7
  <2>4. ASSUME NEW i \in 1 .. Len(out') PROVE out'[i] = i
    <3>1. CASE i <= Len(out)
      BY <2>2, <3>1, <1>7
    <3>2. CASE i > Len(out)
      <4>1. i \in Len(out) + 1 .. Len(out) + n
        BY <2>1, <2>4, <3>2, <1>3, <1>2, <1>7
      <4>2. Copied(n)[i - Len(out)] = Len(out) + (i - Len(out))
        BY <2>3, <4>1, <1>6, Zenon
      <4> QED
        BY <2>3, <4>1, <4>2, <1>7
    <3> QED
      BY <3>1, <3>2, <1>7
  <2> QED
    BY <2>1, <2>4, Zenon
<1>9. readPos' \in 0 .. Size - 1 /\ filled' \in 0 .. Size
  <2>1. Wrap(readPos + n) \in 0 .. Size - 1
    BY <1>3, <1>4, Zenon
  <2> QED
    BY <1>1, <1>2, <1>3, <2>1
<1>10. RingTypes'
  <2>1. readPos' \in 0 .. Size /\ readPos' < Size
    BY <1>9, <1>2
  <2> QED
    BY <1>1, <1>8, <1>9, <2>1, Zenon DEF RingTypes
<1>11. ASSUME NEW k \in 0 .. filled' - 1 PROVE data'[Wrap(readPos' + k)] = Len(out') + k + 1
  <2>1. n + k \in 0 .. filled - 1
    BY <1>1, <1>2, <1>3
  <2>2. data[Wrap(readPos + (n + k))] = Len(out) + (n + k) + 1
    BY <2>1, Zenon DEF Fifo
  <2>3. Wrap(readPos' + k) = Wrap(readPos + (n + k))
    BY <1>1, <1>2, <1>3, <2>1 DEF Wrap
  <2> QED
    BY <1>1, <1>2, <1>3, <1>7, <1>8, <2>2, <2>3
<1>12. sent' = Len(out') + filled'
  BY <1>1, <1>2, <1>3, <1>7, <1>8
<1> QED
  BY <1>8, <1>10, <1>11, <1>12, Zenon DEF Fifo

\* write puts its bytes behind the others, and on no byte that is still to be read.
LEMMA WriteCopyBytes ==
    ASSUME RingTypes, Fifo, CallTypes, OpInv, NEW u \in UThread, WriteCopy(u)
    PROVE  RingTypes' /\ Fifo'
<1> DEFINE tail == Wrap(readPos + filled)
           n == Least(Size - tail, Least(Size - filled, amount[u]))
<1>1. /\ op[u] = "write" /\ filled < Size
      /\ data' = [i \in 0 .. Size - 1 |->
                     IF i \in tail .. tail + n - 1 THEN sent + 1 + i - tail ELSE data[i]]
      /\ filled' = filled + n /\ sent' = sent + n
      /\ UNCHANGED <<readPos, readClosed, writeClosed, out>>
  BY Zenon DEF WriteCopy, closed
<1>2. /\ amount[u] \in Nat /\ filled \in 0 .. Size - 1 /\ readPos \in 0 .. Size - 1
      /\ sent \in 0 .. MaxBytes /\ sent + amount[u] <= MaxBytes
  BY <1>1 DEF CallTypes, RingTypes, OpInv
<1>3. tail \in 0 .. Size - 1
  BY <1>2, WrapIn
<1>4. n \in 0 .. Size - tail /\ n <= Size - filled /\ n <= amount[u]
  BY <1>2, <1>3 DEF Least
<1> HIDE DEF n
<1>5. data' \in [0 .. Size - 1 -> 0 .. MaxBytes]
  <2>1. data \in [0 .. Size - 1 -> 0 .. MaxBytes]
    BY Zenon DEF RingTypes
  <2>2. \A i \in 0 .. Size - 1 : i \in tail .. tail + n - 1 => sent + 1 + i - tail \in 0 .. MaxBytes
    BY <1>2, <1>3, <1>4
  <2> HIDE DEF tail
  <2> QED
    BY <1>1, <2>1, <2>2, Zenon
<1>6. RingTypes'
  <2> HIDE DEF tail
  <2>1. filled' \in 0 .. Size /\ sent' \in 0 .. MaxBytes
    BY <1>1, <1>2, <1>3, <1>4
  <2> QED
    BY <1>1, <1>5, <2>1, Zenon DEF RingTypes
<1>7. Len(out) \in Nat /\ sent = Len(out) + filled
  BY DEF RingTypes, Fifo
<1>8. sent' = Len(out') + filled'
  <2> HIDE DEF tail
  <2> QED
    BY <1>1, <1>2, <1>3, <1>4, <1>7
<1>9. ASSUME NEW k \in 0 .. filled' - 1 PROVE data'[Wrap(readPos' + k)] = Len(out') + k + 1
  <2>0. k \in Nat /\ k < filled + n /\ readPos + k \in Nat /\ readPos + k < 2 * Size
    <3> HIDE DEF tail
    <3>1. filled' = filled + n /\ n \in Nat /\ n <= Size - filled /\ filled \in Nat
      BY <1>1, <1>2, <1>3, <1>4
    <3>2. k \in Nat /\ k < filled + n
      BY <3>1
    <3> QED
      BY <1>2, <3>1, <3>2
  <2>1. Wrap(readPos + k) \in 0 .. Size - 1 /\ k \in Nat /\ k < filled + n
    BY <2>0, WrapIn, Zenon
  <2>2. CASE k < filled
    <3>0. k \in 0 .. filled - 1
      BY <1>2, <2>1, <2>2
    <3>1. data[Wrap(readPos + k)] = Len(out) + k + 1
      BY <3>0, Zenon DEF Fifo
    <3>2. Wrap(readPos + k) \notin tail .. tail + n - 1
      BY <1>2, <1>3, <1>4, <2>1, <2>2 DEF Wrap
    <3> HIDE DEF tail
    <3> QED
      BY <1>1, <2>1, <3>1, <3>2, Zenon
  <2>3. CASE k >= filled
    <3>1. Wrap(readPos + k) = tail + (k - filled)
      BY <1>2, <1>3, <1>4, <2>1, <2>3 DEF Wrap
    <3> HIDE DEF tail
    <3>2. Wrap(readPos + k) \in tail .. tail + n - 1
      BY <1>2, <1>3, <1>4, <2>1, <2>3, <3>1
    <3>3. data'[Wrap(readPos + k)] = sent + 1 + Wrap(readPos + k) - tail
      BY <1>1, <2>1, <3>2, Zenon
    <3> QED
      BY <1>1, <1>2, <1>3, <1>7, <2>1, <3>1, <3>3, SMTT(20)
  <2> QED
    BY <1>2, <2>1, <2>2, <2>3
<1> QED
  BY <1>1, <1>6, <1>8, <1>9, Zenon DEF Fifo

\* Nothing else touches the ring.
LEMMA RingNext ==
    ASSUME RingTypes, Fifo, CallTypes, OpInv, NEW u \in UThread, Start(u) \/ Proceed(u) \/ Yield(u)
    PROVE  RingTypes' /\ Fifo'
<1> USE DEF ring, closed, history
<1>1. ASSUME UNCHANGED <<ring, history>>, readClosed' \in BOOLEAN, writeClosed' \in BOOLEAN
      PROVE  RingTypes' /\ Fifo'
  BY <1>1, Zenon DEF RingTypes, Fifo
<1>2. ASSUME UNCHANGED <<ring, closed, history>> PROVE RingTypes' /\ Fifo'
  BY <1>1, <1>2, Zenon DEF RingTypes
<1>3. CASE Start(u)
  <2>1. readClosed' \in BOOLEAN /\ writeClosed' \in BOOLEAN
    BY <1>3, Zenon DEF Start, Read, Write, More, CloseRead, CloseWrite,
       RingTypes
  <2> QED
    BY <1>1, <1>3, <2>1, Zenon DEF Start, Read, Write, More, CloseRead,
       CloseWrite
<1>4. CASE CloseBoth(u)
  <2>1. readClosed' \in BOOLEAN /\ writeClosed' \in BOOLEAN
    BY <1>4, Zenon DEF CloseBoth, RingTypes
  <2> QED
    BY <1>1, <1>4, <2>1, Zenon DEF CloseBoth
<1>5. CASE \/ Test(u) \/ Enqueue(u) \/ Lock(u) \/ Unlock(u) \/ ReadEnd(u) \/ ReadNothing(u) \/ PeekCopy(u)
           \/ MoreResult(u) \/ WriteEnd(u) \/ WriteNothing(u) \/ WriteFull(u) \/ Raise(u) \/ Grab(u) \/ Wake(u)
           \/ AfterSet(u) \/ ReadDone(u) \/ Lower(u) \/ Yield(u)
  BY <1>2, <1>5, Zenon DEF Test, Enqueue, Lock, Unlock, ReadEnd, ReadNothing,
     PeekCopy, MoreResult, WriteEnd, WriteNothing, WriteFull, Raise, Grab,
     Wake, AfterSet, ReadDone, Lower, Yield
<1> QED
  BY <1>3, <1>4, <1>5, ReadCopyBytes, WriteCopyBytes, Zenon DEF Proceed

\* The layer as a whole.
LEMMA BytesNext == BytesInv /\ [Next]_vars => BytesInv'
<1> SUFFICES ASSUME BytesInv, [Next]_vars PROVE BytesInv'
  BY Zenon
<1>1. CASE UNCHANGED vars
  BY <1>1, Zenon DEF BytesInv, RingTypes, Fifo, ListTypes, CallTypes, OpInv,
     vars, ring, closed, event, queues, locks, history
<1>2. ASSUME NEW u \in UThread, Start(u) \/ Proceed(u) \/ Yield(u) PROVE BytesInv'
  BY <1>2, CallsNext, ListTypesNext, RingNext, Zenon DEF BytesInv
<1> QED
  BY <1>1, <1>2, Zenon DEF Next

\* A new Pipe is empty.
LEMMA BytesInit == Init => BytesInv
<1> SUFFICES ASSUME Init PROVE BytesInv
  BY Zenon
<1>1. RingTypes /\ Fifo
  <2>1. out = <<>> /\ Len(out) = 0 /\ sent = 0 /\ filled = 0 /\ readPos = 0
    BY Zenon DEF Init
  <2>a. 0 \in 0 .. MaxBytes /\ 0 \in 0 .. Size
    OBVIOUS
  <2>b. data \in [0 .. Size - 1 -> 0 .. MaxBytes]
    BY <2>a, Zenon DEF Init
  <2>c. out \in Seq(0 .. MaxBytes) /\ (Size > 0 => readPos < Size)
    BY <2>1
  <2>d. readClosed \in BOOLEAN /\ writeClosed \in BOOLEAN
    BY Zenon DEF Init
  <2>2. RingTypes
    BY <2>1, <2>a, <2>b, <2>c, <2>d, Zenon DEF RingTypes
  <2> QED
    BY <2>1, <2>2 DEF Fifo
<1>2. ListTypes
  BY ReadyAssumption DEF Init, ListTypes, Ev
<1>3. CallTypes
  BY PipeAssumption, Zenon DEF Init, CallTypes, PC, Op
<1>4. OpInv
  BY Zenon DEF Init, OpInv, Reaches
<1> QED
  BY <1>1, <1>2, <1>3, <1>4, Zenon DEF BytesInv

----------------------------------------------------------------------------
(***************************************************************************)
(* The second layer: the lists, and who is inside the lock.                *)
(***************************************************************************)

\* Who runs is on its ready list and on no other list.
LEMMA RunningOn ==
    ASSUME ListTypes, ListsInv, NEW u \in UThread, Runs(u)
    PROVE  /\ On(u, ready[Owner[u]])
           /\ \A e \in Ev : ~On(u, waiting[e])
           /\ \A w \in UThread : ~On(u, local[w])
           /\ ~On(u, lockQueue[L])
<1>1. ready[Owner[u]] \in Seq(UThread)
  BY Zenon DEF ListTypes
<1>2. On(u, ready[Owner[u]])
  BY <1>1, OnHead, Zenon DEF Runs
<1> QED
  BY <1>2, Zenon DEF ListsInv, QueueInv, LocalInv, LockQueueInv

ReadyInv ==
    \A t \in OSThread : Distinct(ready[t]) /\ \A u \in UThread : On(u, ready[t]) => Owner[u] = t

\* wait() takes the running UThread off its ready list.
LEMMA ParkReady ==
    ASSUME ListTypes, ReadyInv, NEW u \in UThread, Runs(u), Park(u)
    PROVE  /\ ReadyInv'
           /\ \A v \in UThread : On(v, ready'[Owner[v]]) <=> On(v, ready[Owner[v]]) /\ v # u
<1> DEFINE q == ready[Owner[u]]
<1>1. q \in Seq(UThread) /\ q # <<>> /\ Distinct(q) /\ Head(q) = u
  BY Zenon DEF ListTypes, ReadyInv, Runs
<1>2. /\ \A x : On(x, q) <=> On(x, Tail(q)) \/ x = u
      /\ ~On(u, Tail(q)) /\ Distinct(Tail(q))
  BY <1>1, OnTail, Zenon
<1>3. ready'[Owner[u]] = Tail(q) /\ \A t \in OSThread : t # Owner[u] => ready'[t] = ready[t]
  BY Zenon DEF Park, ListTypes
<1>4. ASSUME NEW t \in OSThread
      PROVE  Distinct(ready'[t]) /\ \A v \in UThread : On(v, ready'[t]) <=> On(v, ready[t]) /\ v # u
  <2>1. CASE t = Owner[u]
    BY <1>2, <1>3, <2>1, Zenon
  <2>2. CASE t # Owner[u]
    BY <1>3, <2>2, Zenon DEF ReadyInv
  <2> QED
    BY <2>1, <2>2, Zenon
<1> QED
  BY <1>4, Zenon DEF ReadyInv

\* wake() adds a UThread that is on no ready list to the one of its OS thread.
LEMMA WakeReady ==
    ASSUME ListTypes, ReadyInv, NEW h \in UThread, ~On(h, ready[Owner[h]]), WakeUp(h)
    PROVE  /\ ReadyInv'
           /\ \A v \in UThread : On(v, ready'[Owner[v]]) <=> On(v, ready[Owner[v]]) \/ v = h
<1> DEFINE q == ready[Owner[h]]
<1>1. q \in Seq(UThread) /\ Distinct(q)
  BY Zenon DEF ListTypes, ReadyInv
<1>2. /\ \A x : On(x, Append(q, h)) <=> On(x, q) \/ x = h
      /\ Distinct(Append(q, h))
  BY <1>1, OnAppend
<1>3. ready'[Owner[h]] = Append(q, h) /\ \A t \in OSThread : t # Owner[h] => ready'[t] = ready[t]
  BY Zenon DEF WakeUp, ListTypes
<1>4. ASSUME NEW t \in OSThread
      PROVE  /\ Distinct(ready'[t])
             /\ \A v \in UThread : On(v, ready'[t]) <=> On(v, ready[t]) \/ (v = h /\ t = Owner[h])
  <2>1. CASE t = Owner[h]
    BY <1>2, <1>3, <2>1, Zenon
  <2>2. CASE t # Owner[h]
    BY <1>3, <2>2, Zenon DEF ReadyInv
  <2> QED
    BY <2>1, <2>2, Zenon
<1> QED
  BY <1>4, Zenon DEF ReadyInv

\* leave() moves the running UThread to the end of the ready list.
LEMMA LeaveReady ==
    ASSUME ListTypes, ReadyInv, NEW u \in UThread, Runs(u), Leave(u)
    PROVE  ReadyInv' /\ \A v \in UThread : On(v, ready'[Owner[v]]) <=> On(v, ready[Owner[v]])
<1> DEFINE q == ready[Owner[u]]
<1>1. q \in Seq(UThread) /\ q # <<>> /\ Distinct(q) /\ Head(q) = u
  BY Zenon DEF ListTypes, ReadyInv, Runs
<1>2. /\ \A x : On(x, q) <=> On(x, Tail(q)) \/ x = u
      /\ ~On(u, Tail(q)) /\ Distinct(Tail(q)) /\ Tail(q) \in Seq(UThread)
  BY <1>1, OnTail, Zenon
<1>3. /\ \A x : On(x, Append(Tail(q), u)) <=> On(x, q)
      /\ Distinct(Append(Tail(q), u))
  <2> DEFINE z == Tail(q)
  <2>1. z \in Seq(UThread) /\ Distinct(z) /\ ~On(u, z) /\ \A x : On(x, q) <=> On(x, z) \/ x = u
    BY <1>2, Zenon
  <2> HIDE DEF z, q
  <2>2. (\A x : On(x, Append(z, u)) <=> On(x, z) \/ x = u) /\ Distinct(Append(z, u))
    BY <2>1, OnAppend, Zenon
  <2>3. (\A x : On(x, Append(z, u)) <=> On(x, q)) /\ Distinct(Append(z, u))
    BY <2>1, <2>2, Zenon
  <2> QED
    BY <2>3, Zenon DEF z
<1>4. ready'[Owner[u]] = Append(Tail(q), u) /\ \A t \in OSThread : t # Owner[u] => ready'[t] = ready[t]
  BY Zenon DEF Leave, ListTypes
<1>5. ASSUME NEW t \in OSThread
      PROVE  Distinct(ready'[t]) /\ \A v \in UThread : On(v, ready'[t]) <=> On(v, ready[t])
  <2>1. CASE t = Owner[u]
    BY <1>3, <1>4, <2>1, Zenon
  <2>2. CASE t # Owner[u]
    BY <1>4, <2>2, Zenon DEF ReadyInv
  <2> QED
    BY <2>1, <2>2, Zenon
<1> QED
  BY <1>5, Zenon DEF ReadyInv

\* Nothing happens to who waits for an event.
LEMMA QueueFrame ==
    ASSUME ListsInv, UNCHANGED <<waiting, local>>,
           \A v \in UThread :
              (\E e \in Ev : On(v, waiting[e])) \/ (\E w \in UThread : On(v, local[w])) =>
                 /\ pc'[v] = pc[v] /\ op'[v] = op[v]
                 /\ On(v, ready'[Owner[v]]) => On(v, ready[Owner[v]])
    PROVE  QueueInv' /\ LocalInv'
<1>1. ASSUME NEW e \in Ev, NEW u \in UThread, On(u, waiting'[e])
      PROVE  /\ pc'[u] = "lock" /\ Awaits(u)' = e
             /\ ~On(u, ready'[Owner[u]])
             /\ \A w \in UThread : ~On(u, local'[w])
  <2>1. On(u, waiting[e])
    BY <1>1, Zenon
  <2>2. /\ pc[u] = "lock" /\ Awaits(u) = e
        /\ ~On(u, ready[Owner[u]])
        /\ \A w \in UThread : ~On(u, local[w])
    BY <2>1, Zenon DEF ListsInv, QueueInv
  <2>3. pc'[u] = pc[u] /\ op'[u] = op[u] /\ (On(u, ready'[Owner[u]]) => On(u, ready[Owner[u]]))
    BY <2>1, Zenon
  <2> QED
    BY <2>2, <2>3, Zenon DEF Awaits
<1>2. ASSUME NEW u \in UThread, NEW w \in UThread, On(u, local'[w])
      PROVE  /\ pc'[u] = "lock" /\ ~On(u, ready'[Owner[u]])
             /\ \A v \in UThread : On(u, local'[v]) => v = w
  <2>1. On(u, local[w])
    BY <1>2, Zenon
  <2>2. /\ pc[u] = "lock" /\ ~On(u, ready[Owner[u]])
        /\ \A v \in UThread : On(u, local[v]) => v = w
    BY <2>1, Zenon DEF ListsInv, LocalInv
  <2>3. pc'[u] = pc[u] /\ (On(u, ready'[Owner[u]]) => On(u, ready[Owner[u]]))
    BY <2>1, Zenon
  <2> QED
    BY <2>2, <2>3, Zenon
<1> QED
  BY <1>1, <1>2, Zenon DEF QueueInv, LocalInv

\* A step of a running UThread that leaves the lists alone, and does not enter
\* the lock.
LEMMA QuietLists ==
    ASSUME ListTypes, ListsInv, NEW u \in UThread, Runs(u),
           UNCHANGED <<waiting, local, count, lockQueue>>,
           UNCHANGED ready \/ Leave(u),
           \A v \in UThread : v # u => pc'[v] = pc[v] /\ op'[v] = op[v],
           Inside(u)' => Inside(u)
    PROVE  ListsInv'
<1>1. /\ \A e \in Ev : ~On(u, waiting[e])
      /\ \A w \in UThread : ~On(u, local[w])
      /\ ~On(u, lockQueue[L])
  BY RunningOn, Zenon
<1>2. ReadyInv' /\ \A v \in UThread : On(v, ready'[Owner[v]]) <=> On(v, ready[Owner[v]])
  <2>1. ReadyInv
    BY Zenon DEF ListsInv, ListInv, ReadyInv
  <2>2. CASE UNCHANGED ready
    BY <2>1, <2>2, Zenon DEF ReadyInv
  <2> QED
    BY <2>1, <2>2, LeaveReady, Zenon
<1>3. ListInv'
  BY <1>2, Zenon DEF ListsInv, ListInv, ReadyInv
<1>4. QueueInv' /\ LocalInv'
  BY <1>1, <1>2, QueueFrame
<1>6. LockQueueInv'
  BY <1>1, <1>2, Zenon DEF ListsInv, LockQueueInv
<1>7. \A v \in UThread : v # u => (Inside(v)' <=> Inside(v))
  BY Zenon DEF Inside
<1>8. LockInv'
  BY <1>7, Zenon DEF ListsInv, LockInv
<1> QED
  BY <1>3, <1>4, <1>6, <1>8, Zenon DEF ListsInv

\* wait() queues the caller.
LEMMA EnqueueLists ==
    ASSUME BytesInv, ListsInv, NEW u \in UThread, Enqueue(u)
    PROVE  ListsInv'
<1> DEFINE e == Awaits(u)
<1>1. /\ Runs(u) /\ pc[u] = "enqueue" /\ Park(u) /\ e \in Ev
      /\ waiting' = [waiting EXCEPT ![e] = Append(waiting[e], u)]
      /\ UNCHANGED <<local, count, lockQueue, op>>
      /\ pc' = [pc EXCEPT ![u] = "lock"]
  BY Zenon DEF Enqueue, At, Goto, locks, Awaits, Ev
<1>2. ListTypes /\ CallTypes /\ ReadyInv
  BY Zenon DEF BytesInv, ListsInv, ListInv, ReadyInv
<1>3. pc'[u] = "lock" /\ Awaits(u)' = e /\ \A v \in UThread : v # u => pc'[v] = pc[v]
  BY <1>1, <1>2, Zenon DEF CallTypes, Awaits
<1>4. /\ \A f \in Ev : ~On(u, waiting[f])
      /\ \A w \in UThread : ~On(u, local[w])
      /\ ~On(u, lockQueue[L])
  BY <1>1, <1>2, RunningOn, Zenon
<1>5. ReadyInv' /\ \A v \in UThread : On(v, ready'[Owner[v]]) <=> On(v, ready[Owner[v]]) /\ v # u
  BY <1>1, <1>2, ParkReady, Zenon
<1>6. \A v \in UThread : Awaits(v)' = Awaits(v)
  BY <1>1, Zenon DEF Awaits
<1> HIDE DEF e
<1>7. /\ waiting'[e] = Append(waiting[e], u) /\ waiting[e] \in Seq(UThread)
      /\ \A f \in Ev : f # e => waiting'[f] = waiting[f]
  BY <1>1, <1>2, Zenon DEF ListTypes
<1>8. Distinct(waiting'[e]) /\ \A x : On(x, waiting'[e]) <=> On(x, waiting[e]) \/ x = u
  <2>1. Distinct(waiting[e]) /\ ~On(u, waiting[e])
    BY <1>1, <1>4, Zenon DEF ListsInv, ListInv
  <2> QED
    BY <1>7, <2>1, Appended
<1>9. ListInv'
  BY <1>1, <1>5, <1>7, <1>8, Zenon DEF ListsInv, ListInv, ReadyInv
<1>10. QueueInv'
  <2> SUFFICES ASSUME NEW f \in Ev, NEW v \in UThread, On(v, waiting'[f])
               PROVE  /\ pc'[v] = "lock" /\ Awaits(v)' = f
                      /\ ~On(v, ready'[Owner[v]])
                      /\ \A w \in UThread : ~On(v, local'[w])
    BY Zenon DEF QueueInv
  <2>1. CASE v = u
    <3>1. f = e
      BY <1>4, <1>7, <2>1, Zenon
    <3> QED
      BY <1>1, <1>3, <1>4, <1>5, <2>1, <3>1, Zenon
  <2>2. CASE v # u
    <3>1. On(v, waiting[f])
      BY <1>7, <1>8, <2>2, Zenon
    <3> QED
      BY <1>1, <1>3, <1>5, <1>6, <2>2, <3>1 DEF ListsInv, QueueInv
  <2> QED
    BY <2>1, <2>2, Zenon
<1>11. LocalInv'
  BY <1>1, <1>3, <1>4, <1>5, Zenon DEF ListsInv, LocalInv
<1>12. LockQueueInv'
  BY <1>1, <1>3, <1>4, <1>5, Zenon DEF ListsInv, LockQueueInv
<1>13. \A v \in UThread : Inside(v)' <=> Inside(v)
  BY <1>1, <1>3, Zenon DEF Inside
<1>14. LockInv'
  BY <1>1, <1>13, Zenon DEF ListsInv, LockInv
<1> QED
  BY <1>9, <1>10, <1>11, <1>12, <1>14, Zenon DEF ListsInv

\* lock() takes the free lock, or queues the caller.
LEMMA LockLists ==
    ASSUME BytesInv, ListsInv, NEW u \in UThread, Lock(u)
    PROVE  ListsInv'
<1>1. /\ Runs(u) /\ pc[u] = "lock" /\ UNCHANGED <<waiting, local, op>>
      /\ pc' = [pc EXCEPT ![u] = "body"]
  BY Zenon DEF Lock, At, Goto, event, queues
<1>2. ListTypes /\ CallTypes /\ ReadyInv
  BY Zenon DEF BytesInv, ListsInv, ListInv, ReadyInv
<1>3. pc'[u] = "body" /\ \A v \in UThread : v # u => pc'[v] = pc[v]
  BY <1>1, <1>2, Zenon DEF CallTypes
<1>4. /\ \A f \in Ev : ~On(u, waiting[f])
      /\ \A w \in UThread : ~On(u, local[w])
      /\ ~On(u, lockQueue[L])
  BY <1>1, <1>2, RunningOn, Zenon
<1>6. CASE Mutex!DownTakes(L) /\ UNCHANGED ready
  <2>1. count[L] = 1 /\ count'[L] = 0 /\ UNCHANGED lockQueue /\ count[L] > 0
    BY <1>2, <1>6 DEF Mutex!DownTakes, ListTypes, ListsInv, LockInv
  <2>2. ListInv'
    BY <1>1, <1>6, <2>1, Zenon DEF ListsInv, ListInv
  <2>3. QueueInv' /\ LocalInv'
    BY <1>1, <1>3, <1>4, <1>6, QueueFrame, Zenon
  <2>5. LockQueueInv'
    BY <1>3, <1>4, <1>6, <2>1, Zenon DEF ListsInv, LockQueueInv
  <2>6. \A v \in UThread : v # u => ~Inside(v)'
    BY <1>1, <1>3, <2>1, Zenon DEF ListsInv, LockInv, Inside
  <2>7. LockInv'
    BY <2>1, <2>6 DEF LockInv
  <2> QED
    BY <2>2, <2>3, <2>5, <2>7, Zenon DEF ListsInv
<1>7. CASE Mutex!DownQueues(L, u) /\ Park(u)
  <2>1. /\ count[L] = 0 /\ UNCHANGED count
        /\ lockQueue'[L] = Append(lockQueue[L], u) /\ lockQueue[L] \in Seq(UThread)
    BY <1>2, <1>7, Zenon DEF Mutex!DownQueues, ListTypes
  <2>2. ReadyInv' /\ \A v \in UThread : On(v, ready'[Owner[v]]) <=> On(v, ready[Owner[v]]) /\ v # u
    BY <1>1, <1>2, <1>7, ParkReady, Zenon
  <2>3. Distinct(lockQueue'[L]) /\ \A x : On(x, lockQueue'[L]) <=> On(x, lockQueue[L]) \/ x = u
    <3>1. Distinct(lockQueue[L])
      BY Zenon DEF ListsInv, ListInv
    <3> QED
      BY <1>4, <2>1, <3>1, Appended
  <2>4. ListInv'
    BY <1>1, <2>2, <2>3, Zenon DEF ListsInv, ListInv, ReadyInv
  <2>5. QueueInv' /\ LocalInv'
    BY <1>1, <1>3, <1>4, <2>2, QueueFrame, Zenon
  <2>7. LockQueueInv'
    BY <1>3, <1>4, <2>2, <2>3, Zenon DEF ListsInv, LockQueueInv
  <2>8. \A v \in UThread : Inside(v)' => Inside(v)
    BY <1>1, <1>3, <2>3, Zenon DEF Inside
  <2>9. LockInv'
    <3>1. count'[L] = 0 /\ \A v, w \in UThread : Inside(v) /\ Inside(w) => v = w
      BY <2>1, Zenon DEF ListsInv, LockInv
    <3> QED
      BY <2>8, <3>1 DEF LockInv
  <2> QED
    BY <2>4, <2>5, <2>7, <2>9, Zenon DEF ListsInv
<1> QED
  BY <1>6, <1>7, Zenon DEF Lock

\* unlock() frees the lock, or hands it to the first in the queue.
LEMMA UnlockLists ==
    ASSUME BytesInv, ListsInv, NEW u \in UThread, Unlock(u)
    PROVE  ListsInv'
<1>1. /\ Runs(u) /\ pc[u] = "unlock" /\ UNCHANGED <<waiting, local, op>>
      /\ pc' = [pc EXCEPT ![u] = IF op[u] = "none" THEN "idle" ELSE "test"]
  BY Zenon DEF Unlock, At, Goto, event, queues
<1>2. ListTypes /\ CallTypes /\ ReadyInv
  BY Zenon DEF BytesInv, ListsInv, ListInv, ReadyInv
<1>3. pc'[u] \in {"idle", "test"} /\ \A v \in UThread : v # u => pc'[v] = pc[v]
  BY <1>1, <1>2, Zenon DEF CallTypes
<1>4. /\ \A f \in Ev : ~On(u, waiting[f])
      /\ \A w \in UThread : ~On(u, local[w])
      /\ ~On(u, lockQueue[L])
  BY <1>1, <1>2, RunningOn, Zenon
<1>6. Inside(u) /\ count[L] = 0 /\ ~Inside(u)' /\ \A v \in UThread : Inside(v) => v = u
  BY <1>1, <1>3, Zenon DEF ListsInv, LockInv, Inside
<1>7. CASE Mutex!UpCounts(L) /\ UNCHANGED ready
  <2>1. lockQueue[L] = <<>> /\ count'[L] = 1 /\ UNCHANGED lockQueue
    BY <1>2, <1>6, <1>7 DEF Mutex!UpCounts, ListTypes
  <2>2. ListInv'
    BY <1>1, <1>7, <2>1, Zenon DEF ListsInv, ListInv
  <2>3. QueueInv' /\ LocalInv'
    BY <1>1, <1>3, <1>4, <1>7, QueueFrame, Zenon
  <2>5. LockQueueInv'
    BY <1>3, <1>4, <1>7, <2>1, Zenon DEF ListsInv, LockQueueInv
  <2>6. \A v \in UThread : ~Inside(v)'
    <3>1. ASSUME NEW v \in UThread, v # u PROVE ~Inside(v)'
      BY <1>1, <1>3, <1>6, <2>1, <3>1, Zenon DEF Inside
    <3> QED
      BY <1>6, <3>1, Zenon
  <2>7. LockInv'
    BY <2>1, <2>6, Zenon DEF LockInv
  <2> QED
    BY <2>2, <2>3, <2>5, <2>7, Zenon DEF ListsInv
<1>8. CASE Mutex!UpHandsOver(L) /\ WakeUp(Head(lockQueue[L]))
  <2> DEFINE q == lockQueue[L]
             h == Head(lockQueue[L])
  <2>1. /\ q # <<>> /\ UNCHANGED count /\ lockQueue'[L] = Tail(q) /\ q \in Seq(UThread) /\ Distinct(q)
    BY <1>2, <1>8, Zenon DEF Mutex!UpHandsOver, ListTypes, ListsInv, ListInv
  <2>2. /\ h \in UThread /\ On(h, q) /\ ~On(h, Tail(q)) /\ Distinct(Tail(q))
        /\ \A x : On(x, q) <=> On(x, Tail(q)) \/ x = h
    BY <2>1, OnTail, Zenon
  <2>3. pc[h] = "body" /\ ~On(h, ready[Owner[h]]) /\ h # u
    BY <1>4, <2>2, Zenon DEF ListsInv, LockQueueInv
  <2> HIDE DEF h
  <2>4. ReadyInv' /\ \A v \in UThread : On(v, ready'[Owner[v]]) <=> On(v, ready[Owner[v]]) \/ v = h
    BY <1>2, <1>8, <2>2, <2>3, WakeReady, Zenon DEF h
  <2>5. Distinct(lockQueue'[L]) /\ \A x : On(x, lockQueue'[L]) <=> On(x, lockQueue[L]) /\ x # h
    BY <2>1, <2>2, Zenon
  <2> HIDE DEF q
  <2>6. ListInv'
    BY <1>1, <2>4, <2>5, Zenon DEF ListsInv, ListInv, ReadyInv
  <2>7. QueueInv' /\ LocalInv'
    <3>1. (\A e \in Ev : ~On(h, waiting[e])) /\ \A w \in UThread : ~On(h, local[w])
      BY <2>2, <2>3, Zenon DEF ListsInv, QueueInv, LocalInv
    <3> QED
      BY <1>1, <1>3, <1>4, <2>4, <3>1, QueueFrame
  <2>9. LockQueueInv'
    BY <1>3, <1>4, <2>4, <2>5, Zenon DEF ListsInv, LockQueueInv
  <2>10. \A v \in UThread : Inside(v)' => v = h
    <3>1. ASSUME NEW v \in UThread, v # u, v # h PROVE ~Inside(v)'
      BY <1>1, <1>3, <1>6, <2>5, <3>1, Zenon DEF Inside
    <3> QED
      BY <1>6, <3>1, Zenon
  <2>11. LockInv'
    <3>1. count'[L] = 0
      BY <1>6, <2>1, Zenon
    <3> QED
      BY <2>10, <3>1 DEF LockInv
  <2> QED
    BY <2>6, <2>7, <2>9, <2>11, Zenon DEF ListsInv
<1> QED
  BY <1>7, <1>8, Zenon DEF Unlock

\* set() takes the queue over.
LEMMA GrabLists ==
    ASSUME BytesInv, ListsInv, NEW u \in UThread, Grab(u)
    PROVE  ListsInv'
<1> DEFINE e == Signals(u)
<1>1. /\ Runs(u) /\ pc[u] = "grab" /\ e \in Ev
      /\ local' = [local EXCEPT ![u] = waiting[e]]
      /\ waiting' = [waiting EXCEPT ![e] = <<>>]
      /\ UNCHANGED <<ready, count, lockQueue, op>>
      /\ pc' = [pc EXCEPT ![u] = "wake"]
  BY Zenon DEF Grab, At, Goto, locks, Signals, Ev
<1> HIDE DEF e
<1>2. ListTypes /\ CallTypes
  BY Zenon DEF BytesInv
<1>3. pc'[u] = "wake" /\ \A v \in UThread : v # u => pc'[v] = pc[v]
  BY <1>1, <1>2, Zenon DEF CallTypes
<1>4. /\ \A f \in Ev : ~On(u, waiting[f])
      /\ \A w \in UThread : ~On(u, local[w])
      /\ ~On(u, lockQueue[L])
  BY <1>1, <1>2, RunningOn, Zenon
<1>5. \A v \in UThread : Awaits(v)' = Awaits(v)
  BY <1>1, Zenon DEF Awaits
<1>6. /\ waiting'[e] = <<>> /\ \A f \in Ev : f # e => waiting'[f] = waiting[f]
      /\ local'[u] = waiting[e] /\ \A w \in UThread : w # u => local'[w] = local[w]
  BY <1>1, <1>2, Zenon DEF ListTypes
<1>7. ListInv'
  BY <1>1, <1>6, OnEmpty, Zenon DEF ListsInv, ListInv
<1>8. QueueInv'
  <2> SUFFICES ASSUME NEW f \in Ev, NEW v \in UThread, On(v, waiting'[f])
               PROVE  /\ pc'[v] = "lock" /\ Awaits(v)' = f
                      /\ ~On(v, ready'[Owner[v]])
                      /\ \A w \in UThread : ~On(v, local'[w])
    BY Zenon DEF QueueInv
  <2>1. f # e /\ On(v, waiting[f])
    BY <1>6, OnEmpty, Zenon
  <2>2. pc[v] = "lock" /\ Awaits(v) = f /\ ~On(v, ready[Owner[v]]) /\ \A w \in UThread : ~On(v, local[w])
    BY <2>1, Zenon DEF ListsInv, QueueInv
  <2>3. ~On(v, waiting[e])
    BY <1>1, <2>1, <2>2, Zenon DEF ListsInv, QueueInv
  <2> QED
    BY <1>1, <1>3, <1>4, <1>5, <1>6, <2>1, <2>2, <2>3, Zenon
<1>9. LocalInv'
  <2> SUFFICES ASSUME NEW v \in UThread, NEW w \in UThread, On(v, local'[w])
               PROVE  /\ pc'[v] = "lock" /\ ~On(v, ready'[Owner[v]])
                      /\ \A x \in UThread : On(v, local'[x]) => x = w
    BY Zenon DEF LocalInv
  <2>1. CASE w = u
    <3>1. On(v, waiting[e])
      BY <1>6, <2>1, Zenon
    <3>2. pc[v] = "lock" /\ ~On(v, ready[Owner[v]]) /\ \A x \in UThread : ~On(v, local[x])
      BY <1>1, <3>1, Zenon DEF ListsInv, QueueInv
    <3> QED
      BY <1>1, <1>3, <1>6, <2>1, <3>2, Zenon
  <2>2. CASE w # u
    <3>1. On(v, local[w])
      BY <1>6, <2>2, Zenon
    <3>2. pc[v] = "lock" /\ ~On(v, ready[Owner[v]]) /\ \A x \in UThread : On(v, local[x]) => x = w
      BY <3>1, Zenon DEF ListsInv, LocalInv
    <3>3. ~On(v, waiting[e])
      BY <1>1, <3>1, Zenon DEF ListsInv, QueueInv
    <3> QED
      BY <1>1, <1>3, <1>6, <3>2, <3>3, Zenon
  <2> QED
    BY <2>1, <2>2, Zenon
<1>10. LockQueueInv'
  BY <1>1, <1>3, <1>4, Zenon DEF ListsInv, LockQueueInv
<1>11. \A v \in UThread : Inside(v)' <=> Inside(v)
  BY <1>1, <1>3, Zenon DEF Inside
<1>12. LockInv'
  BY <1>1, <1>11, Zenon DEF ListsInv, LockInv
<1> QED
  BY <1>7, <1>8, <1>9, <1>10, <1>12, Zenon DEF ListsInv

\* set() wakes the first UThread it took over.
LEMMA WakeLists ==
    ASSUME BytesInv, ListsInv, NEW u \in UThread, Wake(u)
    PROVE  ListsInv'
<1> DEFINE q == local[u]
           h == Head(local[u])
<1>1. /\ q # <<>> /\ WakeUp(h) /\ local' = [local EXCEPT ![u] = Tail(q)]
      /\ UNCHANGED <<waiting, count, lockQueue, pc, op>>
  BY Zenon DEF Wake, locks
<1>2. ListTypes /\ ReadyInv
  BY Zenon DEF BytesInv, ListsInv, ListInv, ReadyInv
<1>3. q \in Seq(UThread) /\ Distinct(q)
  BY <1>2, Zenon DEF ListTypes, ListsInv, ListInv
<1>4. /\ h \in UThread /\ On(h, q) /\ ~On(h, Tail(q)) /\ Distinct(Tail(q))
      /\ \A x : On(x, q) <=> On(x, Tail(q)) \/ x = h
  BY <1>1, <1>3, OnTail, Zenon
<1>5. /\ pc[h] = "lock" /\ ~On(h, ready[Owner[h]])
      /\ \A w \in UThread : On(h, local[w]) => w = u
  BY <1>4, Zenon DEF ListsInv, LocalInv
<1>6. \A e \in Ev : ~On(h, waiting[e])
  BY <1>4, Zenon DEF ListsInv, QueueInv
<1>7. ~On(h, lockQueue[L])
  BY <1>4, <1>5, Zenon DEF ListsInv, LockQueueInv
<1>8. local'[u] = Tail(q) /\ \A w \in UThread : w # u => local'[w] = local[w]
  BY <1>1, <1>2, Zenon DEF ListTypes
<1>9. \A w \in UThread : Distinct(local'[w]) /\ \A x : On(x, local'[w]) <=> On(x, local[w]) /\ ~(x = h /\ w = u)
  <2> TAKE w \in UThread
  <2>1. CASE w = u
    BY <1>4, <1>8, <2>1, Zenon
  <2>2. CASE w # u
    BY <1>8, <2>2, Zenon DEF ListsInv, ListInv
  <2> QED
    BY <2>1, <2>2, Zenon
<1> HIDE DEF h, q
<1>10. ReadyInv' /\ \A v \in UThread : On(v, ready'[Owner[v]]) <=> On(v, ready[Owner[v]]) \/ v = h
  BY <1>1, <1>2, <1>4, <1>5, WakeReady, Zenon
<1>11. \A v \in UThread : Awaits(v)' = Awaits(v) /\ (Inside(v)' <=> Inside(v))
  BY <1>1, Zenon DEF Awaits, Inside
<1>12. ListInv'
  BY <1>1, <1>9, <1>10, Zenon DEF ListsInv, ListInv, ReadyInv
<1>13. QueueInv'
  <2> SUFFICES ASSUME NEW e \in Ev, NEW v \in UThread, On(v, waiting'[e])
               PROVE  /\ pc'[v] = "lock" /\ Awaits(v)' = e
                      /\ ~On(v, ready'[Owner[v]])
                      /\ \A w \in UThread : ~On(v, local'[w])
    BY Zenon DEF QueueInv
  <2>1. On(v, waiting[e]) /\ v # h
    BY <1>1, <1>6, Zenon
  <2>2. pc[v] = "lock" /\ Awaits(v) = e /\ ~On(v, ready[Owner[v]]) /\ \A w \in UThread : ~On(v, local[w])
    BY <2>1, Zenon DEF ListsInv, QueueInv
  <2> QED
    BY <1>1, <1>9, <1>10, <1>11, <2>1, <2>2, Zenon
<1>14. LocalInv'
  <2> SUFFICES ASSUME NEW v \in UThread, NEW w \in UThread, On(v, local'[w])
               PROVE  /\ pc'[v] = "lock" /\ ~On(v, ready'[Owner[v]])
                      /\ \A x \in UThread : On(v, local'[x]) => x = w
    BY Zenon DEF LocalInv
  <2>1. On(v, local[w]) /\ ~(v = h /\ w = u)
    BY <1>9, Zenon
  <2>2. v # h
    BY <1>5, <2>1, Zenon
  <2> QED
    BY <1>1, <1>9, <1>10, <2>1, <2>2, Zenon DEF ListsInv, LocalInv
<1>15. LockQueueInv'
  BY <1>1, <1>7, <1>10, Zenon DEF ListsInv, LockQueueInv
<1>16. LockInv'
  BY <1>1, <1>11, Zenon DEF ListsInv, LockInv
<1> QED
  BY <1>12, <1>13, <1>14, <1>15, <1>16, Zenon DEF ListsInv

\* The other steps do not touch the lists, and only Lock enters the lock.
Quiet(u) ==
    \/ Start(u) \/ Yield(u) \/ Test(u)
    \/ ReadEnd(u) \/ ReadNothing(u) \/ ReadCopy(u) \/ PeekCopy(u) \/ MoreResult(u)
    \/ WriteEnd(u) \/ WriteNothing(u) \/ WriteCopy(u) \/ WriteFull(u)
    \/ Raise(u) \/ AfterSet(u) \/ ReadDone(u) \/ Lower(u) \/ CloseBoth(u)

\* What the quiet steps leave alone.
LEMMA QuietFrame ==
    ASSUME BytesInv, ListsInv, NEW u \in UThread, Quiet(u)
    PROVE  /\ Runs(u)
           /\ UNCHANGED <<waiting, local, count, lockQueue>>
           /\ UNCHANGED ready \/ Leave(u)
           /\ \A v \in UThread : v # u => pc'[v] = pc[v] /\ op'[v] = op[v]
           /\ Inside(u)' => Inside(u)
<1> USE DEF event, queues, locks, ring, closed, history
<1>1. CallTypes /\ pc[u] \in PC /\ op[u] \in Op /\ Reaches(op[u], pc[u])
  BY Zenon DEF BytesInv, CallTypes, OpInv
<1>2. ASSUME NEW l \in PC, Goto(u, l) PROVE pc'[u] = l /\ \A v \in UThread : v # u => pc'[v] = pc[v]
  BY <1>1, <1>2, Zenon DEF Goto, CallTypes
<1>3. ASSUME NEW f \in Op, op' = [op EXCEPT ![u] = f]
      PROVE  op'[u] = f /\ \A v \in UThread : v # u => op'[v] = op[v]
  BY <1>1, <1>3, Zenon DEF CallTypes
<1>4. ASSUME NEW f \in Op, NEW n, NEW l \in {"test", "lock", "raise"}, Calls(u, f, n, l), UNCHANGED <<event, locks, ready>>,
             l = "raise" => f \in {"closeRead", "closeWrite", "close"}
      PROVE  /\ Runs(u)
             /\ \A v \in UThread : v # u => pc'[v] = pc[v] /\ op'[v] = op[v]
             /\ ~Inside(u)'
  <2>1. l \in PC
    BY Zenon DEF PC
  <2> QED
    BY <1>2, <1>3, <1>4, <2>1, Zenon DEF Calls, At, Inside
<1>s. CASE Start(u)
  <2>1. {"read", "peek", "more", "write", "closeRead", "closeWrite", "close"} \subseteq Op
    BY Zenon DEF Op
  <2>2. CASE \E n \in 0 .. MaxRead : Read(u, n)
    BY <1>4, <2>1, <2>2, Zenon DEF Read
  <2>3. CASE \E n \in 0 .. MaxBytes : Write(u, n)
    BY <1>4, <2>1, <2>3, Zenon DEF Write
  <2>4. CASE More(u) \/ CloseRead(u) \/ CloseWrite(u)
    BY <1>4, <2>1, <2>4, Zenon DEF More, CloseRead, CloseWrite
  <2> QED
    BY <1>s, <2>2, <2>3, <2>4, Zenon DEF Start
<1>y. CASE Yield(u)
  BY <1>y, Zenon DEF Yield, At, Inside
<1>t. CASE Test(u)
  BY <1>2, <1>t, Zenon DEF Test, At, Inside, PC
<1>e. CASE ReadEnd(u) \/ PeekCopy(u) \/ MoreResult(u) \/ WriteEnd(u)
  <2>1. At(u, "body") /\ EndsIn(u, "unlock") /\ UNCHANGED <<waiting, local, count, lockQueue, ready>>
    BY <1>e, Zenon DEF ReadEnd, PeekCopy, MoreResult, WriteEnd
  <2>2. ~On(u, lockQueue[L])
    BY <2>1, RunningOn, Zenon DEF At, BytesInv
  <2>3. Inside(u)
    BY <2>1, <2>2, Zenon DEF At, Inside
  <2> QED
    BY <1>2, <1>3, <2>1, <2>3, Zenon DEF EndsIn, At, PC, Op
<1>n. CASE ReadNothing(u) \/ WriteNothing(u) \/ ReadCopy(u) \/ WriteCopy(u)
  <2>1. /\ At(u, "body") /\ UNCHANGED <<waiting, local, count, lockQueue, ready, op>>
        /\ Goto(u, "lower") \/ Goto(u, "raise") \/ Goto(u, "full")
    BY <1>n, Zenon DEF ReadNothing, WriteNothing, ReadCopy, WriteCopy
  <2>2. ~On(u, lockQueue[L])
    BY <2>1, RunningOn, Zenon DEF At, BytesInv
  <2>3. Inside(u)
    BY <2>1, <2>2, Zenon DEF At, Inside
  <2> QED
    BY <1>2, <2>1, <2>3, Zenon DEF At, PC
<1>f. CASE WriteFull(u) \/ Lower(u)
  BY <1>2, <1>f, Zenon DEF WriteFull, Lower, At, Inside, PC
<1>r. CASE Raise(u)
  BY <1>2, <1>r, Zenon DEF Raise, At, Inside, PC
<1>a. CASE AfterSet(u)
  <2>1. At(u, "wake") /\ UNCHANGED <<waiting, local, count, lockQueue, ready>>
    BY <1>a, Zenon DEF AfterSet, SetDone
  <2>2. CASE op[u] \in {"closeRead", "closeWrite"} /\ EndsIn(u, "idle")
    BY <1>2, <1>3, <2>1, <2>2, Zenon DEF At, EndsIn, Inside, PC, Op
  <2>3. CASE op[u] = "write" /\ EndsIn(u, "unlock")
    BY <1>2, <1>3, <2>1, <2>3, Zenon DEF At, EndsIn, Inside, PC, Op
  <2>4. CASE op[u] = "write" /\ Goto(u, "unlock") /\ UNCHANGED op
    BY <1>2, <2>1, <2>4, Zenon DEF At, Inside, PC
  <2> QED
    BY <1>a, <2>2, <2>3, <2>4, Zenon DEF AfterSet
<1>d. CASE ReadDone(u)
  BY <1>2, <1>3, <1>d, Zenon DEF ReadDone, SetDone, EndsIn, At, Inside, PC, Op
<1>b. CASE CloseBoth(u)
  BY <1>2, <1>3, <1>b, Zenon DEF CloseBoth, SetDone, At, Inside, PC, Op
<1> QED
  BY <1>s, <1>y, <1>t, <1>e, <1>n, <1>f, <1>r, <1>a, <1>d, <1>b, Zenon DEF
     Quiet

\* The layer as a whole.
LEMMA ListsNext == BytesInv /\ ListsInv /\ [Next]_vars => ListsInv'
<1> SUFFICES ASSUME BytesInv, ListsInv, [Next]_vars PROVE ListsInv'
  BY Zenon
<1>1. CASE UNCHANGED vars
  BY <1>1, SMTT(20) DEF ListsInv, ListInv, QueueInv, LocalInv, LockQueueInv, LockInv, Inside, Awaits,
     vars, event, queues, locks
<1>2. ASSUME NEW u \in UThread, Start(u) \/ Proceed(u) \/ Yield(u) PROVE ListsInv'
  <2>1. CASE Quiet(u)
    <3>1. ListTypes
      BY Zenon DEF BytesInv
    <3> QED
      BY <2>1, <3>1, QuietFrame, QuietLists, Zenon
  <2> QED
    BY <1>2, <2>1, EnqueueLists, LockLists, UnlockLists, GrabLists,
       WakeLists, Zenon DEF Quiet, Proceed
<1> QED
  BY <1>1, <1>2, Zenon DEF Next

\* Everybody starts on its ready list.
LEMMA ListsInit == Init => ListsInv
<1> SUFFICES ASSUME Init PROVE ListsInv
  BY Zenon
<1>1. /\ \A e \in Ev : waiting[e] = <<>>
      /\ \A w \in UThread : local[w] = <<>> /\ pc[w] = "idle"
      /\ lockQueue[L] = <<>> /\ count[L] = 1 /\ ready = Started
  BY Zenon DEF Init
<1>2. ReadyInv
  <2>1. \A t \in OSThread : Distinct(ready[t])
    BY <1>1, ReadyAssumption, Zenon DEF Distinct
  <2>2. \A t \in OSThread : \A u \in UThread : On(u, ready[t]) => Owner[u] = t
    <3> SUFFICES ASSUME NEW t \in OSThread, NEW u \in UThread, On(u, Started[t]) PROVE Owner[u] = t
      BY <1>1, Zenon
    <3>1. u \in {Started[t][i] : i \in 1 .. Len(Started[t])}
      BY Zenon DEF On
    <3>2. {Started[t][i] : i \in 1 .. Len(Started[t])} = {v \in UThread : Owner[v] = t}
      BY ReadyAssumption, Zenon
    <3>3. u \in {v \in UThread : Owner[v] = t}
      BY <3>1, <3>2, Zenon
    <3> QED
      BY <3>3, Zenon
  <2> QED
    BY <2>1, <2>2, Zenon DEF ReadyInv
<1>3. ListInv
  BY <1>1, <1>2, OnEmpty, Zenon DEF ListInv, ReadyInv
<1>4. QueueInv /\ LocalInv /\ LockQueueInv
  BY <1>1, OnEmpty, Zenon DEF QueueInv, LocalInv, LockQueueInv
<1>5. LockInv
  BY <1>1, Zenon DEF LockInv, Inside
<1> QED
  BY <1>3, <1>4, <1>5, Zenon DEF ListsInv

----------------------------------------------------------------------------
(***************************************************************************)
(* The third layer: the flags.                                             *)
(***************************************************************************)

\* A step of the UThread inside the lock answers for itself alone.
LEMMA HolderStep ==
    ASSUME ListsInv, HonestInv, NEW u \in UThread, Inside(u),
           UNCHANGED <<count, lockQueue>>,
           \A v \in UThread : v # u => pc'[v] = pc[v] /\ op'[v] = op[v],
           Excuse(u)'
    PROVE  HonestInv'
<1>1. count[L] = 0 /\ \A v \in UThread : v # u => ~Inside(v)
  BY Zenon DEF ListsInv, LockInv
<1>2. \A v \in UThread : v # u => ~Inside(v)'
  BY <1>1, Zenon DEF Inside
<1>3. count'[L] # 1
  BY <1>1
<1>4. \A v \in UThread : Inside(v)' => Excuse(v)'
  BY <1>2, Zenon
<1> QED
  BY <1>3, <1>4, Zenon DEF HonestInv

\* A step outside the lock leaves the bytes alone, and raises flags at most.
LEMMA OutsiderStep ==
    ASSUME ListTypes, HonestInv, NEW u \in UThread, ~Inside(u)',
           UNCHANGED <<count, lockQueue, filled>>,
           \A e \in Ev : s'[e] = s[e] \/ s'[e] = 1,
           \A v \in UThread : v # u => pc'[v] = pc[v] /\ op'[v] = op[v]
    PROVE  HonestInv'
<1>1. (ReadHonest => ReadHonest') /\ (WriteHonest => WriteHonest')
  BY Zenon DEF ReadHonest, WriteHonest, Ev
<1>2. ASSUME NEW v \in UThread, v # u, Inside(v)' PROVE Excuse(v)'
  <2>1. Inside(v) /\ Excuse(v)
    BY <1>2, Zenon DEF Inside, HonestInv
  <2> QED
    BY <1>1, <1>2, <2>1, Zenon DEF Excuse
<1>3. count'[L] = 1 => ReadHonest' /\ WriteHonest'
  BY <1>1, Zenon DEF HonestInv
<1> QED
  BY <1>2, <1>3, Zenon DEF HonestInv

\* Steps outside the lock.
LEMMA OutsiderHonest ==
    ASSUME BytesInv, ListsInv, HonestInv, NEW u \in UThread, Quiet(u) \/ Grab(u) \/ Wake(u), ~Inside(u)
    PROVE  HonestInv'
<1> USE DEF event, queues, locks, ring, closed, history
<1>1. ListTypes /\ CallTypes /\ OpInv
  BY Zenon DEF BytesInv
<1>2. CASE Grab(u) \/ Wake(u)
  <2>1. ~Inside(u)'
    BY <1>1, <1>2, Zenon DEF Grab, Wake, At, Goto, Inside, CallTypes
  <2>2. \A v \in UThread : v # u => pc'[v] = pc[v] /\ op'[v] = op[v]
    BY <1>1, <1>2, Zenon DEF Grab, Wake, Goto, CallTypes
  <2>3. UNCHANGED <<count, lockQueue, filled, s>>
    BY <1>2, Zenon DEF Grab, Wake
  <2> QED
    BY <1>1, <2>1, <2>2, <2>3, OutsiderStep, Zenon
<1>3. CASE Quiet(u)
  <2>1. /\ Runs(u) /\ ~Inside(u)' /\ UNCHANGED <<count, lockQueue>>
        /\ \A v \in UThread : v # u => pc'[v] = pc[v] /\ op'[v] = op[v]
    BY <1>3, QuietFrame, Zenon
  <2>2. pc[u] \notin {"full", "lower", "unlock", "body"}
    BY <1>1, <2>1, RunningOn, Zenon DEF Inside
  <2>3. filled' = filled /\ \A e \in Ev : s'[e] = s[e] \/ s'[e] = 1
    <3>1. CASE Start(u)
      BY <3>1, Zenon DEF Start, Read, Write, More, CloseRead, CloseWrite
    <3>2. CASE Yield(u) \/ Test(u) \/ AfterSet(u) \/ CloseBoth(u)
      BY <3>2, Zenon DEF Yield, Test, AfterSet, CloseBoth
    <3>3. CASE Raise(u)
      <4>1. filled' = filled /\ s' = [s EXCEPT ![Signals(u)] = 1]
        BY <3>3, Zenon DEF Raise
      <4> QED
        BY <1>1, <4>1, Zenon DEF ListTypes
    <3>4. ~ReadDone(u)
      BY Zenon DEF ReadDone, SetDone, At, Inside
    <3>5. /\ ~ReadEnd(u) /\ ~ReadNothing(u) /\ ~ReadCopy(u) /\ ~PeekCopy(u) /\ ~MoreResult(u)
          /\ ~WriteEnd(u) /\ ~WriteNothing(u) /\ ~WriteCopy(u) /\ ~WriteFull(u) /\ ~Lower(u)
      BY <2>2, Zenon DEF At, ReadEnd, ReadNothing, ReadCopy, PeekCopy,
         MoreResult, WriteEnd, WriteNothing, WriteCopy, WriteFull, Lower
    <3> QED
      BY <1>3, <3>1, <3>2, <3>3, <3>4, <3>5, Zenon DEF Quiet
  <2> QED
    BY <1>1, <2>1, <2>3, OutsiderStep, Zenon
<1> QED
  BY <1>2, <1>3, Zenon

\* Steps inside the lock: a flag is raised before the lock is released, and
\* cleared only when it has nothing to tell.
LEMMA HolderHonest ==
    ASSUME BytesInv, ListsInv, HonestInv, NEW u \in UThread, Quiet(u) \/ Grab(u) \/ Wake(u), Inside(u)
    PROVE  HonestInv'
<1> USE DEF event, queues, locks, ring, closed, history
<1>1. /\ ListTypes /\ CallTypes /\ filled \in 0 .. Size /\ amount[u] \in Nat
      /\ pc[u] \in PC /\ Reaches(op[u], pc[u])
  BY Zenon DEF BytesInv, OpInv, CallTypes, RingTypes
<1>2. Excuse(u)
  BY Zenon DEF HonestInv
<1>3. /\ UNCHANGED <<count, lockQueue>>
      /\ \A v \in UThread : v # u => pc'[v] = pc[v] /\ op'[v] = op[v]
  <2>1. CASE Quiet(u)
    BY <2>1, QuietFrame, Zenon
  <2>2. CASE Grab(u) \/ Wake(u)
    BY <1>1, <2>2, Zenon DEF Grab, Wake, Goto, CallTypes
  <2> QED
    BY <2>1, <2>2, Zenon
<1>4. ASSUME NEW l \in PC, Goto(u, l) PROVE pc'[u] = l
  BY <1>1, <1>4, Zenon DEF Goto, CallTypes
<1>5. pc[u] \in {"body", "full", "lower", "unlock", "raise", "grab", "wake"}
  BY Zenon DEF Inside
<1>s. s \in [{"waitRead", "waitWrite"} -> {0, 1}]
  BY <1>1, Zenon DEF ListTypes, Ev
<1>h. /\ pc[u] \notin {"full", "raise"} => ReadHonest
      /\ pc[u] # "raise" => WriteHonest
  BY <1>2, Zenon DEF Excuse
<1>k. ASSUME ReadHonest, WriteHonest, UNCHANGED <<s, filled>>, pc'[u] # "lower" PROVE Excuse(u)'
  BY <1>k, Zenon DEF Excuse, ReadHonest, WriteHonest
<1>w. CASE Wake(u)
  <2>1. Excuse(u)'
    BY <1>2, <1>w, Zenon DEF Wake, Excuse, ReadHonest, WriteHonest
  <2> QED
    BY <1>3, <2>1, HolderStep, Zenon
<1>g. CASE Grab(u)
  <2>1. pc[u] = "grab" /\ pc'[u] = "wake" /\ UNCHANGED <<s, filled>>
    BY <1>4, <1>g, Zenon DEF Grab, At, PC
  <2> QED
    BY <1>3, <1>h, <1>k, <2>1, HolderStep, Zenon
<1>e. CASE ReadEnd(u) \/ PeekCopy(u) \/ MoreResult(u) \/ WriteEnd(u)
  <2>1. pc[u] = "body" /\ Goto(u, "unlock") /\ UNCHANGED <<s, filled>>
    BY <1>e, Zenon DEF ReadEnd, PeekCopy, MoreResult, WriteEnd, At, EndsIn
  <2>2. pc'[u] = "unlock"
    BY <1>4, <2>1, Zenon DEF PC
  <2> QED
    BY <1>3, <1>h, <1>k, <2>1, <2>2, HolderStep, Zenon
<1>n. CASE ReadNothing(u) \/ WriteNothing(u)
  <2>1. pc[u] = "body" /\ Goto(u, "lower") /\ UNCHANGED <<s, filled, op>>
        /\ IF op[u] = "write" THEN filled >= Size ELSE filled = 0
    BY <1>n, Zenon DEF ReadNothing, WriteNothing, At
  <2>2. pc'[u] = "lower"
    BY <1>4, <2>1, Zenon DEF PC
  <2>a. filled >= Size => filled = Size
    BY <1>1
  <2>b. ReadHonest' /\ WriteHonest'
    BY <1>h, <2>1, Zenon DEF ReadHonest, WriteHonest
  <2>3. Excuse(u)'
    BY <2>1, <2>2, <2>a, <2>b, Zenon DEF Excuse
  <2> QED
    BY <1>3, <2>3, HolderStep, Zenon
<1>c. CASE ReadCopy(u)
  <2>1. /\ pc[u] = "body" /\ Goto(u, "raise") /\ UNCHANGED <<s, op>> /\ op[u] = "read" /\ filled > 0
        /\ filled' = filled - Least(amount[u], filled)
    BY <1>c, Zenon DEF ReadCopy, At
  <2>2. pc'[u] = "raise" /\ op'[u] = "read"
    BY <1>4, <2>1, Zenon DEF PC
  <2>3. s["waitRead"] = 1
    BY <1>h, <2>1, Zenon DEF ReadHonest
  <2>4. Excuse(u)'
    BY <2>1, <2>2, <2>3, Zenon DEF Excuse, ReadHonest
  <2> QED
    BY <1>3, <2>4, HolderStep, Zenon
<1>v. CASE WriteCopy(u)
  <2>1. /\ pc[u] = "body" /\ Goto(u, "full") /\ UNCHANGED <<s, op>> /\ op[u] = "write" /\ filled < Size
    BY <1>v, Zenon DEF WriteCopy, At
  <2>2. pc'[u] = "full" /\ op'[u] = "write"
    BY <1>4, <2>1, Zenon DEF PC
  <2>3. s["waitWrite"] = 1
    BY <1>h, <2>1, Zenon DEF WriteHonest
  <2>4. Excuse(u)'
    BY <2>1, <2>2, <2>3, Zenon DEF Excuse, WriteHonest
  <2> QED
    BY <1>3, <2>4, HolderStep, Zenon
<1>f. CASE WriteFull(u)
  <2>1. /\ pc[u] = "full" /\ Goto(u, "raise") /\ UNCHANGED <<op, filled>>
        /\ s' = [s EXCEPT !["waitWrite"] = IF filled >= Size THEN 0 ELSE @]
    BY <1>f, Zenon DEF WriteFull, At
  <2>2. pc'[u] = "raise" /\ op[u] = "write" /\ op'[u] = "write"
    BY <1>1, <1>4, <2>1, Zenon DEF PC, Reaches
  <2>3. filled < Size => s'["waitWrite"] = s["waitWrite"]
    <3>1. filled \in Nat
      BY <1>1
    <3> QED
      BY <1>s, <2>1, <3>1
  <2>4. WriteHonest'
    BY <1>h, <2>1, <2>3, Zenon DEF WriteHonest
  <2>5. Excuse(u)'
    BY <2>2, <2>4, Zenon DEF Excuse
  <2> QED
    BY <1>3, <2>5, HolderStep, Zenon
<1>r. CASE Raise(u)
  <2>1. /\ pc[u] = "raise" /\ Goto(u, "grab") /\ UNCHANGED <<op, filled>>
        /\ s' = [s EXCEPT ![Signals(u)] = 1] /\ op[u] \in {"read", "write"}
    BY <1>r, Zenon DEF Raise, At, Inside
  <2>2. pc'[u] = "grab"
    BY <1>4, <2>1, Zenon DEF PC
  <2>3. Excuse(u)'
    <3>1. CASE op[u] = "write"
      <4>1. s'["waitRead"] = 1 /\ s'["waitWrite"] = s["waitWrite"] /\ WriteHonest
        BY <1>2, <1>s, <2>1, <3>1, Zenon DEF Signals, Excuse
      <4> QED
        BY <2>1, <2>2, <4>1, Zenon DEF Excuse, ReadHonest, WriteHonest
    <3>2. CASE op[u] = "read"
      <4>1. s'["waitWrite"] = 1 /\ s'["waitRead"] = s["waitRead"] /\ ReadHonest
        BY <1>2, <1>s, <2>1, <3>2, Zenon DEF Signals, Excuse
      <4> QED
        BY <2>1, <2>2, <4>1, Zenon DEF Excuse, ReadHonest, WriteHonest
    <3> QED
      BY <2>1, <3>1, <3>2, Zenon
  <2> QED
    BY <1>3, <2>3, HolderStep, Zenon
<1>a. CASE AfterSet(u)
  <2>1. pc[u] = "wake" /\ (Goto(u, "unlock") \/ Goto(u, "idle")) /\ UNCHANGED <<s, filled>>
    BY <1>a, Zenon DEF AfterSet, SetDone, At, EndsIn
  <2>2. pc'[u] \in {"unlock", "idle"}
    BY <1>4, <2>1, Zenon DEF PC
  <2> QED
    BY <1>3, <1>h, <1>k, <2>1, <2>2, HolderStep, Zenon
<1>d. CASE ReadDone(u)
  <2>1. /\ pc[u] = "wake" /\ Goto(u, "unlock") /\ UNCHANGED filled
        /\ s' = [s EXCEPT !["waitRead"] = IF filled = 0 THEN 0 ELSE @]
    BY <1>d, Zenon DEF ReadDone, SetDone, At, EndsIn
  <2>2. pc'[u] = "unlock"
    BY <1>4, <2>1, Zenon DEF PC
  <2>3. s'["waitWrite"] = s["waitWrite"] /\ (filled > 0 => s'["waitRead"] = s["waitRead"])
    <3>1. filled \in Nat
      BY <1>1
    <3> QED
      BY <1>s, <2>1, <3>1
  <2>4. Excuse(u)'
    BY <1>h, <2>1, <2>2, <2>3, Zenon DEF Excuse, ReadHonest, WriteHonest
  <2> QED
    BY <1>3, <2>4, HolderStep, Zenon
<1>o. CASE Lower(u)
  <2>1. /\ pc[u] = "lower" /\ Goto(u, "unlock") /\ UNCHANGED filled
        /\ s' = [s EXCEPT ![Awaits(u)] = 0]
    BY <1>o, Zenon DEF Lower, At
  <2>2. pc'[u] = "unlock"
    BY <1>4, <2>1, Zenon DEF PC
  <2>3. ReadHonest' /\ WriteHonest'
    <3>1. CASE op[u] = "write"
      <4>1. filled = Size /\ s'["waitRead"] = s["waitRead"]
        BY <1>2, <1>s, <2>1, <3>1, Zenon DEF Excuse, Awaits
      <4> QED
        BY <1>h, <2>1, <4>1 DEF ReadHonest, WriteHonest
    <3>2. CASE op[u] # "write"
      <4>1. filled = 0 /\ s'["waitWrite"] = s["waitWrite"]
        BY <1>2, <1>s, <2>1, <3>2, Zenon DEF Excuse, Awaits
      <4> QED
        BY <1>h, <2>1, <4>1 DEF ReadHonest, WriteHonest
    <3> QED
      BY <3>1, <3>2, Zenon
  <2>4. Excuse(u)'
    BY <2>2, <2>3, Zenon DEF Excuse
  <2> QED
    BY <1>3, <2>4, HolderStep, Zenon
<1>b. ~CloseBoth(u) /\ ~Start(u) /\ ~Yield(u) /\ ~Test(u)
  BY <1>5, Zenon DEF CloseBoth, SetDone, Start, Read, Write, More, CloseRead,
     CloseWrite, Calls, Yield, Test, At, Inside
<1> QED
  BY <1>w, <1>g, <1>e, <1>n, <1>c, <1>v, <1>f, <1>r, <1>a, <1>d, <1>o, <1>b,
     Zenon DEF Quiet

\* lock() finds the flags as they were left, and unlock() leaves them honest.
LEMMA LockHonest ==
    ASSUME BytesInv, ListsInv, HonestInv, NEW u \in UThread, Lock(u)
    PROVE  HonestInv'
<1>1. ListTypes /\ CallTypes
  BY Zenon DEF BytesInv
<1>2. /\ Runs(u) /\ pc[u] = "lock" /\ UNCHANGED <<s, filled, op>>
      /\ pc'[u] = "body" /\ \A v \in UThread : v # u => pc'[v] = pc[v]
  BY <1>1, Zenon DEF Lock, At, Goto, event, ring, CallTypes
<1>3. CASE Mutex!DownTakes(L)
  <2>1. count[L] = 1 /\ count'[L] = 0 /\ UNCHANGED lockQueue
    BY <1>1, <1>3 DEF Mutex!DownTakes, ListTypes, ListsInv, LockInv
  <2>2. ReadHonest' /\ WriteHonest'
    BY <1>2, <2>1, Zenon DEF HonestInv, ReadHonest, WriteHonest
  <2>3. \A v \in UThread : v # u => ~Inside(v)'
    BY <1>2, <2>1, Zenon DEF ListsInv, LockInv, Inside
  <2> QED
    BY <1>2, <2>1, <2>2, <2>3, Zenon DEF HonestInv, Excuse
<1>4. CASE Mutex!DownQueues(L, u)
  <2>1. /\ count[L] = 0 /\ UNCHANGED count
        /\ lockQueue'[L] = Append(lockQueue[L], u) /\ lockQueue[L] \in Seq(UThread)
    BY <1>1, <1>4, Zenon DEF Mutex!DownQueues, ListTypes
  <2>2. \A x : On(x, lockQueue'[L]) <=> On(x, lockQueue[L]) \/ x = u
    BY <2>1, Appended
  <2>3. \A v \in UThread : Inside(v)' => Inside(v) /\ v # u
    BY <1>2, <2>2, Zenon DEF Inside
  <2>4. \A v \in UThread : v # u /\ Excuse(v) => Excuse(v)'
    BY <1>2, Zenon DEF Excuse, ReadHonest, WriteHonest
  <2>5. count'[L] # 1
    BY <2>1
  <2>6. \A v \in UThread : Inside(v)' => Excuse(v)'
    BY <2>3, <2>4, Zenon DEF HonestInv
  <2> QED
    BY <2>5, <2>6, Zenon DEF HonestInv
<1> QED
  BY <1>3, <1>4, Zenon DEF Lock

\* Who leaves the lock leaves honest flags.
LEMMA UnlockHonest ==
    ASSUME BytesInv, ListsInv, HonestInv, NEW u \in UThread, Unlock(u)
    PROVE  HonestInv'
<1>1. ListTypes /\ CallTypes
  BY Zenon DEF BytesInv
<1>2. /\ pc[u] = "unlock" /\ UNCHANGED <<s, filled, op>>
      /\ pc'[u] \in {"idle", "test"} /\ \A v \in UThread : v # u => pc'[v] = pc[v]
  BY <1>1, Zenon DEF Unlock, At, Goto, event, ring, CallTypes
<1>3. Inside(u) /\ \A v \in UThread : v # u => ~Inside(v)
  BY <1>2, Zenon DEF ListsInv, LockInv, Inside
<1>4. ReadHonest' /\ WriteHonest'
  BY <1>2, <1>3, Zenon DEF HonestInv, Excuse, ReadHonest, WriteHonest
<1>5. ASSUME NEW v \in UThread, Inside(v)' PROVE Excuse(v)'
  <2>1. v # u
    BY <1>2, <1>5, Zenon DEF Inside
  <2>2. pc'[v] = "body"
    BY <1>2, <1>3, <1>5, <2>1, Zenon DEF Inside
  <2> QED
    BY <1>4, <2>2, Zenon DEF Excuse
<1> QED
  BY <1>4, <1>5, Zenon DEF HonestInv

\* The layer as a whole.
LEMMA HonestNext == BytesInv /\ ListsInv /\ HonestInv /\ [Next]_vars => HonestInv'
<1> SUFFICES ASSUME BytesInv, ListsInv, HonestInv, [Next]_vars PROVE HonestInv'
  BY Zenon
<1>1. CASE UNCHANGED vars
  BY <1>1, Zenon DEF HonestInv, Inside, Excuse, ReadHonest, WriteHonest, vars,
     event, locks, ring
<1>2. ASSUME NEW u \in UThread, Start(u) \/ Proceed(u) \/ Yield(u) PROVE HonestInv'
  <2>1. CASE Enqueue(u)
    <3>1. ListTypes /\ CallTypes
      BY Zenon DEF BytesInv
    <3>2. pc'[u] = "lock" /\ \A v \in UThread : v # u => pc'[v] = pc[v] /\ op'[v] = op[v]
      BY <2>1, <3>1, Zenon DEF Enqueue, Goto, CallTypes
    <3>3. UNCHANGED <<count, lockQueue, filled, s>> /\ ~Inside(u)'
      BY <2>1, <3>2, Zenon DEF Enqueue, locks, ring, Inside
    <3> QED
      BY <3>1, <3>2, <3>3, OutsiderStep, Zenon
  <2> QED
    BY <1>2, <2>1, LockHonest, UnlockHonest, OutsiderHonest, HolderHonest,
       Zenon DEF Quiet, Proceed
<1> QED
  BY <1>1, <1>2, Zenon DEF Next

\* A new Pipe has room and nothing to read.
LEMMA HonestInit == Init => HonestInv
<1> SUFFICES ASSUME Init PROVE HonestInv
  BY Zenon
<1>1. s["waitWrite"] = 1 /\ filled = 0 /\ \A u \in UThread : pc[u] = "idle"
  BY Zenon DEF Init, Ev
<1>2. ReadHonest /\ WriteHonest
  BY <1>1 DEF ReadHonest, WriteHonest
<1> QED
  BY <1>1, <1>2, Zenon DEF HonestInv, Inside

----------------------------------------------------------------------------
(***************************************************************************)
(* The theorems.                                                           *)
(***************************************************************************)

\* The three layers hold in every state.
THEOREM PipeInvariance == Spec => []IInv
<1>1. Init => IInv
  BY BytesInit, ListsInit, HonestInit, Zenon DEF IInv
<1>2. IInv /\ [Next]_vars => IInv'
  BY BytesNext, ListsNext, HonestNext, Zenon DEF IInv
<1> QED
  BY <1>1, <1>2, PTL DEF Spec

\* Positions and counts stay inside the buffer, and lists hold UThreads.
THEOREM TypeCorrect == Spec => []TypeOK
<1>1. IInv => TypeOK
  BY Zenon DEF IInv, BytesInv, RingTypes, ListTypes, CallTypes, TypeOK
<1> QED
  BY <1>1, PipeInvariance, PTL

\* Bytes come out of the pipe as they went in, whatever the sizes of the buffer,
\* the reads and the writes, and however the calls interleave.
THEOREM BytesInOrder == Spec => []Fifo
<1>1. IInv => Fifo
  BY Zenon DEF IInv, BytesInv
<1> QED
  BY <1>1, PipeInvariance, PTL

\* At most one UThread is inside the lock, whoever closes an end meanwhile.
Exclusive == \A u, v \in UThread : Inside(u) /\ Inside(v) => u = v

\* The lock of the pipe excludes, although set() wakes UThreads inside it.
THEOREM Exclusion == Spec => []Exclusive
<1>1. IInv => Exclusive
  BY Zenon DEF IInv, ListsInv, LockInv, Exclusive
<1> QED
  BY <1>1, PipeInvariance, PTL

\* Whenever the lock is free, waitRead is set if there is something to read and
\* waitWrite if there is room.
THEOREM FlagsTellTheTruth == Spec => []FlagsHonest
<1>1. IInv => FlagsHonest
  BY Zenon DEF IInv, HonestInv, ReadHonest, WriteHonest, FlagsHonest
<1> QED
  BY <1>1, PipeInvariance, PTL
=============================================================================
