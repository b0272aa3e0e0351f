---------------------------- MODULE EventProofs ----------------------------
(***************************************************************************)
(* The safety of os::Event, for any OS threads, UThreads and events.       *)
(***************************************************************************)
EXTENDS Event, FiniteSetTheorems, TLAPS

----------------------------------------------------------------------------
(***************************************************************************)
(* Lists are seen through membership and the absence of duplicates.        *)
(***************************************************************************)
On(x, q) == \E i \in 1 .. Len(q) : q[i] = x

Distinct(q) == \A i, j \in 1 .. Len(q) : q[i] = q[j] => i = j

\* Appending adds one element (InlineList::push).
LEMMA OnAppend ==
    ASSUME NEW S, NEW q \in Seq(S), NEW y \in S
    PROVE  /\ Append(q, y) \in Seq(S)
           /\ \A x : On(x, Append(q, y)) <=> On(x, q) \/ x = y
           /\ Distinct(q) /\ ~On(y, q) => Distinct(Append(q, y))
           /\ Append(q, y) # <<>>
           /\ q # <<>> => Head(Append(q, y)) = Head(q)
<1>1. /\ Append(q, y) \in Seq(S)
      /\ \A x : On(x, Append(q, y)) <=> On(x, q) \/ x = y
      /\ Distinct(q) /\ ~On(y, q) => Distinct(Append(q, y))
  BY DEF On, Distinct
<1>2. Append(q, y) # <<>> /\ Head(Append(q, y)) = Append(q, y)[1]
  OBVIOUS
<1>3. q # <<>> => Append(q, y)[1] = q[1] /\ Head(q) = q[1]
  OBVIOUS
<1> QED
  BY <1>1, <1>2, <1>3, Zenon

\* Taking the first element takes no other (InlineList::pop).
LEMMA OnTail ==
    ASSUME NEW S, NEW q \in Seq(S), q # <<>>, Distinct(q)
    PROVE  /\ Tail(q) \in Seq(S)
           /\ Head(q) \in S
           /\ \A x : On(x, q) <=> On(x, Tail(q)) \/ x = Head(q)
           /\ ~On(Head(q), Tail(q))
           /\ Distinct(Tail(q))
<1>1. /\ Tail(q) \in Seq(S)
      /\ Head(q) \in S
      /\ Head(q) = q[1]
      /\ Len(q) \in Nat \ {0}
      /\ Len(Tail(q)) = Len(q) - 1
      /\ \A i \in 1 .. Len(q) - 1 : Tail(q)[i] = q[i + 1]
  OBVIOUS
<1>2. On(Head(q), q) /\ ~On(Head(q), Tail(q))
  BY <1>1 DEF On, Distinct
<1>3. ASSUME NEW x, On(x, Tail(q)) PROVE On(x, q)
  BY <1>1, <1>3 DEF On
<1>4. ASSUME NEW x, On(x, q), x # Head(q) PROVE On(x, Tail(q))
  <2>1. PICK i \in 1 .. Len(q) : q[i] = x
    BY <1>4, Zenon DEF On
  <2>2. i # 1 /\ i - 1 \in 1 .. Len(q) - 1 /\ Tail(q)[i - 1] = q[i]
    BY <1>1, <1>4, <2>1
  <2> QED
    BY <1>1, <2>1, <2>2, Zenon DEF On
<1>5. Distinct(Tail(q))
  BY <1>1 DEF Distinct
<1> QED
  BY <1>1, <1>2, <1>3, <1>4, <1>5, Zenon

\* The empty list has no elements.
LEMMA OnEmpty == (\A x : ~On(x, <<>>)) /\ Distinct(<<>>)
  BY DEF On, Distinct

\* A list that is not empty has its head.
LEMMA OnHead ==
    ASSUME NEW S, NEW q \in Seq(S)
    PROVE  /\ q # <<>> => On(Head(q), q) /\ Head(q) \in S
           /\ \A x : On(x, q) => q # <<>> /\ x \in S
  BY DEF On

\* The places of x in a list: none, or one.
LEMMA OnPlaces ==
    ASSUME NEW S, NEW x, NEW q \in Seq(S), NEW n
    PROVE  /\ ~On(x, q) => Where(x, q, n) = {}
           /\ On(x, q) /\ Distinct(q) => \E p : Where(x, q, n) = {p}
<1>1. ASSUME ~On(x, q) PROVE Where(x, q, n) = {}
  BY <1>1 DEF On, Where
<1>2. ASSUME On(x, q), Distinct(q) PROVE \E p : Where(x, q, n) = {p}
  <2>1. PICK i \in 1 .. Len(q) : q[i] = x
    BY <1>2, Zenon DEF On
  <2>2. DOMAIN q = 1 .. Len(q)
    OBVIOUS
  <2>3. \A j \in 1 .. Len(q) : q[j] = x => j = i
    BY <1>2, <2>1, Zenon DEF Distinct
  <2>4. {j \in DOMAIN q : q[j] = x} = {i}
    BY <2>1, <2>2, <2>3, Zenon
  <2>5. Where(x, q, n) = {<<n, i>>}
    BY <2>4, Zenon DEF Where
  <2> QED
    BY <2>5, Zenon
<1> QED
  BY <1>1, <1>2, Zenon

----------------------------------------------------------------------------
(***************************************************************************)
(* The inductive invariant.                                                *)
(***************************************************************************)
\* What the steps need of the constants.
LEMMA Kinds ==
    /\ Owner \in [UThread -> OSThread]
    /\ Users \in [Ev -> SUBSET UThread]
    /\ NoEv \notin Ev
  BY ReadyAssumption, EventAssumption, Zenon

USE Kinds

\* Ready lists hold the UThreads of their OS thread, once; so do queues and
\* local lists those that wait.
ListInv ==
    /\ \A t \in OSThread : Distinct(ready[t]) /\ \A u \in UThread : On(u, ready[t]) => Owner[u] = t
    /\ \A e \in Ev : Distinct(waiting[e])
    /\ \A w \in UThread : Distinct(local[w])

\* Who is on a queue is in wait() of that event and on no other list.
QueueInv ==
    \A e \in Ev : \A u \in UThread : On(u, waiting[e]) =>
        /\ pc[u] = "parked" /\ arg[u] = e
        /\ ~On(u, ready[Owner[u]])
        /\ \A w \in UThread : ~On(u, local[w])

\* Who is on the local list of a set() is on no other list, and excused.
LocalInv ==
    \A u, w \in UThread : On(u, local[w]) =>
        /\ pc[u] = "parked" /\ pc[w] = "wake" /\ excused[u]
        /\ ~On(u, ready[Owner[u]])
        /\ \A v \in UThread : On(u, local[v]) => v = w

\* Nobody is lost.
PlaceInv ==
    \A u \in UThread :
        \/ On(u, ready[Owner[u]])
        \/ \E e \in Ev : On(u, waiting[e])
        \/ \E w \in UThread : On(u, local[w])

\* A UThread inside a call runs, unless it is parked, and is a user of the event.
CallInv ==
    \A u \in UThread :
        /\ pc[u] \in {"enqueue", "grab", "wake"} => Runs(u)
        /\ pc[u] # "idle" => arg[u] \in Ev /\ u \in Users[arg[u]]
        /\ pc[u] = "idle" => arg[u] = NoEv

\* Who is in wait() of an event that a set() is about to empty is excused, and so
\* is who was woken.
ExcuseInv ==
    /\ \A u, w \in UThread :
          pc[u] \in {"enqueue", "parked"} /\ pc[w] = "grab" /\ arg[w] = arg[u] => excused[u]
    /\ \A u \in UThread : pc[u] = "parked" /\ On(u, ready[Owner[u]]) => excused[u]

\* On an event of one OS thread the flag is still down when wait() queues.
Alone(e) == \A u, w \in Users[e] : Owner[u] = Owner[w]

AloneInv ==
    \A e \in Ev : Alone(e) =>
        /\ \A u \in UThread : pc[u] = "enqueue" /\ arg[u] = e => s[e] = 0
        /\ s[e] = 1 /\ waiting[e] # <<>> => InSet(e)

IInv ==
    /\ TypeOK /\ ListInv /\ QueueInv /\ LocalInv /\ PlaceInv
    /\ CallInv /\ ExcuseInv /\ AloneInv

----------------------------------------------------------------------------
(***************************************************************************)
(* The initial state, and one lemma for each action.                       *)
(***************************************************************************)

\* Every UThread starts on the ready list of its OS thread.
LEMMA InitIInv == Init => IInv
<1> SUFFICES ASSUME Init PROVE IInv
  BY Zenon
<1> USE ReadyAssumption, EventAssumption DEF Init
<1>1. TypeOK
  BY DEF TypeOK, PC
<1>2. \A x, e, w : (e \in Ev => ~On(x, waiting[e])) /\ (w \in UThread => ~On(x, local[w]))
  BY OnEmpty, Zenon
<1>3. \A t \in OSThread : Distinct(ready[t])
  BY Zenon DEF Distinct
<1>4. \A t \in OSThread : \A u \in UThread : On(u, ready[t]) <=> Owner[u] = t
  BY DEF On
<1>5. ListInv
  BY <1>3, <1>4, OnEmpty, Zenon DEF ListInv
<1>6. QueueInv /\ LocalInv
  BY <1>2, Zenon DEF QueueInv, LocalInv
<1>7. PlaceInv
  BY <1>4, Zenon DEF PlaceInv
<1>8. CallInv /\ ExcuseInv
  BY Zenon DEF CallInv, ExcuseInv
<1>9. AloneInv
  BY Zenon DEF AloneInv
<1> QED
  BY <1>1, <1>5, <1>6, <1>7, <1>8, <1>9, Zenon DEF IInv

\* Who runs is on its ready list, and one UThread runs on an OS thread.
LEMMA RunningOn ==
    ASSUME IInv
    PROVE  /\ \A u \in UThread : Runs(u) => On(u, ready[Owner[u]])
           /\ \A u, w \in UThread : Runs(u) /\ Runs(w) /\ Owner[u] = Owner[w] => u = w
<1>1. \A u \in UThread : ready[Owner[u]] \in Seq(UThread)
  BY Zenon DEF IInv, TypeOK
<1>2. ASSUME NEW u \in UThread, Runs(u) PROVE On(u, ready[Owner[u]])
  BY <1>1, <1>2, OnHead, Zenon DEF Runs
<1> QED
  BY <1>2, Zenon DEF Runs

\* A call keeps the types of what it changes.
LEMMA CallTypes ==
    ASSUME TypeOK, NEW u \in UThread, NEW e \in Ev, NEW l \in PC, Calls(u, e, l)
    PROVE  /\ pc' \in [UThread -> PC] /\ arg' \in [UThread -> Ev \cup {NoEv}]
           /\ calls' \in [UThread -> 0 .. MaxCalls]
<1>1. calls[u] \in 0 .. MaxCalls /\ calls[u] > 0
  BY Zenon DEF TypeOK, Calls
<1>3. calls[u] - 1 \in 0 .. MaxCalls
  BY <1>1, EventAssumption
<1>2. calls' \in [UThread -> 0 .. MaxCalls]
  BY <1>3, Zenon DEF TypeOK, Calls
<1> QED
  BY <1>2, Zenon DEF TypeOK, Calls

\* wait() with the flag up.
LEMMA WaitReturnsStep ==
    ASSUME IInv, NEW u \in UThread, NEW e \in Ev, WaitReturns(u, e)
    PROVE  IInv'
<1> USE DEF WaitReturns, Calls, At
<1>1. TypeOK'
  <2>1. "idle" \in PC /\ TypeOK
    BY Zenon DEF IInv, PC
  <2>2. /\ pc' \in [UThread -> PC] /\ arg' \in [UThread -> Ev \cup {NoEv}]
        /\ calls' \in [UThread -> 0 .. MaxCalls]
    BY <2>1, CallTypes, Zenon
  <2> QED
    BY <2>1, <2>2, Zenon DEF TypeOK
<1>2. ListInv'
  BY Zenon DEF IInv, ListInv
<1>3. pc[u] = "idle" /\ Runs(u) /\ On(u, ready[Owner[u]])
  BY RunningOn, Zenon
<1>4. QueueInv'
  BY <1>3 DEF IInv, TypeOK, QueueInv
<1>5. LocalInv'
  BY <1>3, Zenon DEF IInv, TypeOK, LocalInv
<1>6. PlaceInv'
  BY Zenon DEF IInv, PlaceInv
<1>7. CallInv'
  BY <1>3, Zenon DEF IInv, TypeOK, CallInv, Runs
<1>8. ExcuseInv'
  BY <1>3, Zenon DEF IInv, TypeOK, ExcuseInv, CallInv
<1>9. AloneInv'
  BY <1>3, ZenonT(40) DEF IInv, TypeOK, AloneInv, CallInv, InSet, Alone
<1> QED
  BY <1>1, <1>2, <1>4, <1>5, <1>6, <1>7, <1>8, <1>9, Zenon DEF IInv

\* wait() with the flag down: nobody else of this OS thread runs until it is queued.
LEMMA WaitBlocksStep ==
    ASSUME IInv, NEW u \in UThread, NEW e \in Ev, WaitBlocks(u, e)
    PROVE  IInv'
<1> USE DEF WaitBlocks, Calls, At
<1>1. TypeOK'
  <2>1. "enqueue" \in PC /\ TypeOK
    BY Zenon DEF IInv, PC
  <2>2. /\ pc' \in [UThread -> PC] /\ arg' \in [UThread -> Ev \cup {NoEv}]
        /\ calls' \in [UThread -> 0 .. MaxCalls]
    BY <2>1, CallTypes, Zenon
  <2>3. InSet(e) \in BOOLEAN
    BY Zenon DEF InSet
  <2>4. excused' \in [UThread -> BOOLEAN]
    BY <2>1, <2>3, Zenon DEF TypeOK
  <2> QED
    BY <2>1, <2>2, <2>4, Zenon DEF TypeOK
<1>2. ListInv'
  BY Zenon DEF IInv, ListInv
<1>3. pc[u] = "idle" /\ Runs(u) /\ On(u, ready[Owner[u]])
  BY RunningOn, Zenon
<1>4. QueueInv'
  BY <1>3 DEF IInv, TypeOK, QueueInv
<1>5. LocalInv'
  BY <1>3, Zenon DEF IInv, TypeOK, LocalInv
<1>6. PlaceInv'
  BY Zenon DEF IInv, PlaceInv
<1>7. CallInv'
  BY <1>3, Zenon DEF IInv, TypeOK, CallInv, Runs
<1>8. ExcuseInv'
  BY <1>3, Zenon DEF IInv, TypeOK, ExcuseInv, CallInv, InSet
<1>9. AloneInv'
  BY <1>3, ZenonT(40) DEF IInv, TypeOK, AloneInv, CallInv, InSet, Alone
<1> QED
  BY <1>1, <1>2, <1>4, <1>5, <1>6, <1>7, <1>8, <1>9, Zenon DEF IInv

\* set() raises the flag; whoever is in wait() is excused.
LEMMA SetStep ==
    ASSUME IInv, NEW u \in UThread, NEW e \in Ev, Set(u, e)
    PROVE  IInv'
<1> USE DEF Set, Calls, At, NoteSet
<1>1. TypeOK'
  <2>1. "grab" \in PC /\ TypeOK
    BY Zenon DEF IInv, PC
  <2>2. /\ pc' \in [UThread -> PC] /\ arg' \in [UThread -> Ev \cup {NoEv}]
        /\ calls' \in [UThread -> 0 .. MaxCalls]
    BY <2>1, CallTypes, Zenon
  <2> QED
    BY <2>1, <2>2, Zenon DEF TypeOK
<1>2. ListInv'
  BY Zenon DEF IInv, ListInv
<1>3. pc[u] = "idle" /\ Runs(u) /\ On(u, ready[Owner[u]])
  BY RunningOn, Zenon
<1>4. QueueInv'
  BY <1>3 DEF IInv, TypeOK, QueueInv
<1>5. LocalInv'
  BY <1>3, Zenon DEF IInv, TypeOK, LocalInv
<1>6. PlaceInv'
  BY Zenon DEF IInv, PlaceInv
<1>7. CallInv'
  BY <1>3, Zenon DEF IInv, TypeOK, CallInv, Runs
<1>8. ExcuseInv'
  BY <1>3, Zenon DEF IInv, TypeOK, ExcuseInv, CallInv
<1>9. AloneInv'
  <2>1. ASSUME NEW f \in Ev, Alone(f), NEW v \in UThread, pc'[v] = "enqueue", arg'[v] = f
        PROVE  s'[f] = 0
    <3>1. v # u /\ pc[v] = "enqueue" /\ arg[v] = f /\ s[f] = 0
      BY <2>1, Zenon DEF IInv, TypeOK, AloneInv
    <3>2. f = e => u = v
      BY <1>3, <2>1, <3>1, RunningOn, Zenon DEF IInv, CallInv, Alone
    <3> QED
      BY <3>1, <3>2, Zenon DEF IInv, TypeOK
  <2>2. ASSUME NEW f \in Ev, Alone(f), s'[f] = 1, waiting'[f] # <<>>
        PROVE  InSet(f)'
    <3>1. CASE f = e
      BY <3>1, Zenon DEF IInv, TypeOK, InSet
    <3>2. CASE f # e
      <4>1. s[f] = 1 /\ InSet(f)
        BY <2>2, <3>2, Zenon DEF IInv, TypeOK, AloneInv
      <4> QED
        BY <1>3, <4>1, Zenon DEF IInv, TypeOK, InSet
    <3> QED
      BY <3>1, <3>2, Zenon
  <2> QED
    BY <2>1, <2>2, Zenon DEF AloneInv, Alone
<1> QED
  BY <1>1, <1>2, <1>4, <1>5, <1>6, <1>7, <1>8, <1>9, Zenon DEF IInv

\* clear()
LEMMA ClearStep ==
    ASSUME IInv, NEW u \in UThread, NEW e \in Ev, Clear(u, e)
    PROVE  IInv'
<1> USE DEF Clear, Calls, At
<1>1. TypeOK'
  <2>1. "idle" \in PC /\ TypeOK
    BY Zenon DEF IInv, PC
  <2>2. /\ pc' \in [UThread -> PC] /\ arg' \in [UThread -> Ev \cup {NoEv}]
        /\ calls' \in [UThread -> 0 .. MaxCalls]
    BY <2>1, CallTypes, Zenon
  <2> QED
    BY <2>1, <2>2, Zenon DEF TypeOK
<1>2. ListInv'
  BY Zenon DEF IInv, ListInv
<1>3. pc[u] = "idle" /\ Runs(u) /\ On(u, ready[Owner[u]])
  BY RunningOn, Zenon
<1>4. QueueInv'
  BY <1>3 DEF IInv, TypeOK, QueueInv
<1>5. LocalInv'
  BY <1>3, Zenon DEF IInv, TypeOK, LocalInv
<1>6. PlaceInv'
  BY Zenon DEF IInv, PlaceInv
<1>7. CallInv'
  BY <1>3, Zenon DEF IInv, TypeOK, CallInv, Runs
<1>8. ExcuseInv'
  BY <1>3, Zenon DEF IInv, TypeOK, ExcuseInv, CallInv
<1>9. AloneInv'
  <2>1. ASSUME NEW f \in Ev, Alone(f), NEW v \in UThread, pc'[v] = "enqueue", arg'[v] = f
        PROVE  s'[f] = 0
    <3>1. v # u /\ pc[v] = "enqueue" /\ arg[v] = f /\ s[f] = 0
      BY <2>1, Zenon DEF IInv, TypeOK, AloneInv
    <3> QED
      BY <3>1, Zenon DEF IInv, TypeOK
  <2>2. ASSUME NEW f \in Ev, Alone(f), s'[f] = 1, waiting'[f] # <<>>
        PROVE  InSet(f)'
    <3>1. s[f] = 1 /\ InSet(f)
      BY <2>2, Zenon DEF IInv, TypeOK, AloneInv
    <3> QED
      BY <1>3, <3>1, Zenon DEF IInv, TypeOK, InSet
  <2> QED
    BY <2>1, <2>2, Zenon DEF AloneInv, Alone
<1> QED
  BY <1>1, <1>2, <1>4, <1>5, <1>6, <1>7, <1>8, <1>9, Zenon DEF IInv

\* wait() returns.
LEMMA ResumeStep ==
    ASSUME IInv, NEW u \in UThread, Resume(u)
    PROVE  IInv'
<1> USE DEF Resume, Returns, At
<1>1. TypeOK'
  BY Zenon DEF IInv, TypeOK, PC
<1>2. ListInv'
  BY Zenon DEF IInv, ListInv
<1>3. pc[u] = "parked" /\ Runs(u) /\ On(u, ready[Owner[u]])
  BY RunningOn, Zenon
<1>a. ASSUME NEW v \in UThread, v # u PROVE pc'[v] = pc[v] /\ arg'[v] = arg[v]
  BY <1>a, Zenon DEF IInv, TypeOK
<1>4. QueueInv'
  BY <1>3, <1>a DEF IInv, QueueInv
<1>5. LocalInv'
  BY <1>3 DEF IInv, TypeOK, LocalInv
<1>6. PlaceInv'
  BY Zenon DEF IInv, PlaceInv
<1>7. CallInv'
  BY <1>3, Zenon DEF IInv, TypeOK, CallInv, Runs
<1>8. ExcuseInv'
  BY <1>3, Zenon DEF IInv, TypeOK, ExcuseInv, CallInv
<1>9. AloneInv'
  BY <1>3, Zenon DEF IInv, TypeOK, AloneInv, CallInv, InSet, Alone
<1> QED
  BY <1>1, <1>2, <1>4, <1>5, <1>6, <1>7, <1>8, <1>9, Zenon DEF IInv

\* set() returns when its list is empty.
LEMMA SetReturnsStep ==
    ASSUME IInv, NEW u \in UThread, SetReturns(u)
    PROVE  IInv'
<1> USE DEF SetReturns, Returns, At
<1>1. TypeOK'
  BY Zenon DEF IInv, TypeOK, PC
<1>2. ListInv'
  BY Zenon DEF IInv, ListInv
<1>3. pc[u] = "wake" /\ Runs(u) /\ On(u, ready[Owner[u]])
  BY RunningOn, Zenon
<1>4. QueueInv'
  BY <1>3, Zenon DEF IInv, TypeOK, QueueInv
<1>a. ASSUME NEW v \in UThread, v # u PROVE pc'[v] = pc[v]
  BY <1>a, Zenon DEF IInv, TypeOK
<1>b. \A v : ~On(v, local[u])
  BY OnEmpty, Zenon
<1>5. LocalInv'
  BY <1>3, <1>a, <1>b, Zenon DEF IInv, LocalInv
<1>6. PlaceInv'
  BY Zenon DEF IInv, PlaceInv
<1>7. CallInv'
  BY <1>3, Zenon DEF IInv, TypeOK, CallInv, Runs
<1>8. ExcuseInv'
  BY <1>3, Zenon DEF IInv, TypeOK, ExcuseInv, CallInv
<1>9. AloneInv'
  BY <1>3, ZenonT(40) DEF IInv, TypeOK, AloneInv, CallInv, InSet, Alone
<1> QED
  BY <1>1, <1>2, <1>4, <1>5, <1>6, <1>7, <1>8, <1>9, Zenon DEF IInv

\* wait() queues its UThread and gives up the OS thread.
LEMMA EnqueueStep ==
    ASSUME IInv, NEW u \in UThread, Enqueue(u)
    PROVE  IInv'
<1> DEFINE t == Owner[u]
<1> DEFINE e == arg[u]
<1>1. /\ pc[u] = "enqueue" /\ Runs(u)
      /\ waiting' = [waiting EXCEPT ![e] = Append(waiting[e], u)]
      /\ pc' = [pc EXCEPT ![u] = "parked"]
      /\ ready' = [ready EXCEPT ![t] = Tail(ready[t])]
      /\ UNCHANGED <<s, arg, local, calls, excused>>
  BY Zenon DEF Enqueue, At, Park
<1>2. /\ t \in OSThread /\ e \in Ev /\ u \in Users[e]
      /\ ready[t] \in Seq(UThread) /\ waiting[e] \in Seq(UThread)
      /\ ready[t] # <<>> /\ Head(ready[t]) = u
      /\ Distinct(ready[t]) /\ Distinct(waiting[e])
  BY <1>1, Zenon DEF IInv, TypeOK, ListInv, CallInv, Runs
<1>3. /\ On(u, ready[t])
      /\ \A v \in UThread : ~On(u, local[v])
      /\ \A f \in Ev : ~On(u, waiting[f])
  BY <1>1, RunningOn, Zenon DEF IInv, QueueInv, LocalInv
<1>4. /\ ready'[t] \in Seq(UThread) /\ Distinct(ready'[t]) /\ ~On(u, ready'[t])
      /\ \A x : On(x, ready[t]) <=> On(x, ready'[t]) \/ x = u
      /\ \A r \in OSThread : r # t => ready'[r] = ready[r]
  <2>1. ready'[t] = Tail(ready[t]) /\ \A r \in OSThread : r # t => ready'[r] = ready[r]
    BY <1>1, <1>2, Zenon DEF IInv, TypeOK
  <2> DEFINE q == ready[t]
  <2>2. q \in Seq(UThread) /\ q # <<>> /\ Distinct(q) /\ Head(q) = u
    BY <1>2, Zenon
  <2> HIDE DEF q
  <2>3. /\ Tail(q) \in Seq(UThread) /\ Distinct(Tail(q)) /\ ~On(u, Tail(q))
        /\ \A x : On(x, q) <=> On(x, Tail(q)) \/ x = u
    BY <2>2, OnTail, Zenon
  <2> QED
    BY <2>1, <2>3, Zenon DEF q
<1>5. /\ waiting'[e] \in Seq(UThread) /\ Distinct(waiting'[e])
      /\ \A x : On(x, waiting'[e]) <=> On(x, waiting[e]) \/ x = u
      /\ \A f \in Ev : f # e => waiting'[f] = waiting[f]
  <2>1. waiting'[e] = Append(waiting[e], u) /\ \A f \in Ev : f # e => waiting'[f] = waiting[f]
    BY <1>1, <1>2, Zenon DEF IInv, TypeOK
  <2> DEFINE q == waiting[e]
  <2>2. q \in Seq(UThread) /\ Distinct(q) /\ ~On(u, q)
    BY <1>2, <1>3, Zenon
  <2> HIDE DEF q
  <2>3. /\ Append(q, u) \in Seq(UThread) /\ Distinct(Append(q, u))
        /\ \A x : On(x, Append(q, u)) <=> On(x, q) \/ x = u
    BY <2>2, OnAppend, Zenon
  <2> QED
    BY <2>1, <2>3, Zenon DEF q
<1>6. pc'[u] = "parked" /\ \A v \in UThread : v # u => pc'[v] = pc[v]
  BY <1>1, Zenon DEF IInv, TypeOK
<1>u. UNCHANGED <<s, arg, local, calls, excused>>
  BY <1>1, Zenon
<1>7. TypeOK'
  <2>1. ready' \in [OSThread -> Seq(UThread)] /\ waiting' \in [Ev -> Seq(UThread)]
    BY <1>1, <1>2, <1>4, <1>5, Zenon DEF IInv, TypeOK
  <2> QED
    BY <1>1, <2>1, Zenon DEF IInv, TypeOK, PC
<1> HIDE DEF t, e
<1>8. ListInv'
  BY <1>2, <1>4, <1>5, <1>u, Zenon DEF IInv, ListInv
<1>r. \A v \in UThread : On(v, ready'[Owner[v]]) => On(v, ready[Owner[v]]) /\ v # u
  BY <1>2, <1>4, Zenon DEF t
<1>9. QueueInv'
  <2> SUFFICES ASSUME NEW f \in Ev, NEW v \in UThread, On(v, waiting'[f])
               PROVE  /\ pc'[v] = "parked" /\ arg[v] = f /\ ~On(v, ready'[Owner[v]])
                      /\ \A w \in UThread : ~On(v, local[w])
    BY <1>u, Zenon DEF QueueInv
  <2>1. CASE v = u
    <3>1. f = e
      BY <1>3, <1>5, <2>1, Zenon
    <3> QED
      BY <1>3, <1>6, <1>r, <2>1, <3>1, Zenon DEF e
  <2>2. CASE v # u
    <3>1. On(v, waiting[f])
      BY <1>5, <2>2, Zenon
    <3> QED
      BY <1>6, <1>r, <2>2, <3>1, Zenon DEF IInv, QueueInv
  <2> QED
    BY <2>1, <2>2, Zenon
<1>10. LocalInv'
  BY <1>3, <1>1, <1>6, <1>r, <1>u DEF IInv, LocalInv
<1>11. PlaceInv'
  BY <1>2, <1>4, <1>5, <1>u, Zenon DEF IInv, PlaceInv, t
<1>12. CallInv'
  <2>1. ASSUME NEW v \in UThread, pc'[v] \in {"enqueue", "grab", "wake"}
        PROVE  Runs(v)'
    <3>1. v # u /\ Runs(v)
      BY <1>6, <2>1, Zenon DEF IInv, CallInv
    <3>2. Owner[v] # t
      BY <1>1, <3>1, RunningOn, Zenon DEF t
    <3> QED
      BY <1>4, <3>1, <3>2, Zenon DEF Runs
  <2> QED
    BY <1>1, <1>6, <1>u, <2>1, Zenon DEF IInv, CallInv
<1>13. ExcuseInv'
  <2>2. \A v, w \in UThread :
            pc'[v] \in {"enqueue", "parked"} /\ pc'[w] = "grab" /\ arg[w] = arg[v] => excused[v]
    BY <1>1, <1>6 DEF IInv, ExcuseInv
  <2> QED
    BY <1>6, <1>r, <1>u, <2>2, Zenon DEF IInv, ExcuseInv
<1>14. AloneInv'
  <2>1. ASSUME NEW f \in Ev, Alone(f), NEW v \in UThread, pc'[v] = "enqueue", arg'[v] = f
        PROVE  s'[f] = 0
    BY <1>6, <1>u, <2>1, Zenon DEF IInv, AloneInv
  <2>2. ASSUME NEW f \in Ev, Alone(f), s'[f] = 1, waiting'[f] # <<>>
        PROVE  InSet(f)'
    <3>1. f # e
      BY <1>1, <1>2, <1>u, <2>2 DEF IInv, AloneInv, e
    <3>2. InSet(f)
      BY <1>5, <1>u, <2>2, <3>1, Zenon DEF IInv, AloneInv
    <3> QED
      BY <1>1, <1>6, <1>u, <3>2, Zenon DEF InSet
  <2> QED
    BY <2>1, <2>2, Zenon DEF AloneInv, Alone
<1> QED
  BY <1>7, <1>8, <1>9, <1>10, <1>11, <1>12, <1>13, <1>14, Zenon DEF IInv

\* set() takes over the queue.
LEMMA GrabStep ==
    ASSUME IInv, NEW u \in UThread, Grab(u)
    PROVE  IInv'
<1> DEFINE e == arg[u]
<1>1. /\ pc[u] = "grab" /\ Runs(u)
      /\ local' = [local EXCEPT ![u] = waiting[e]]
      /\ waiting' = [waiting EXCEPT ![e] = <<>>]
      /\ pc' = [pc EXCEPT ![u] = "wake"]
      /\ UNCHANGED <<ready, s, arg, calls, excused>>
  BY Zenon DEF Grab, At
<1>2. e \in Ev /\ u \in Users[e]
  BY <1>1, Zenon DEF IInv, CallInv
<1>3. /\ On(u, ready[Owner[u]])
      /\ \A v \in UThread : ~On(v, local[u])
  BY <1>1, RunningOn, Zenon DEF IInv, LocalInv
<1>4. /\ local'[u] = waiting[e] /\ \A v \in UThread : v # u => local'[v] = local[v]
      /\ waiting'[e] = <<>> /\ \A f \in Ev : f # e => waiting'[f] = waiting[f]
      /\ pc'[u] = "wake" /\ \A v \in UThread : v # u => pc'[v] = pc[v]
  BY <1>1, <1>2, Zenon DEF IInv, TypeOK
<1>5. (\A x : ~On(x, waiting'[e])) /\ Distinct(waiting'[e])
  BY <1>4, OnEmpty, Zenon
<1>u. UNCHANGED <<ready, s, arg, calls, excused>>
  BY <1>1, Zenon
<1>6. TypeOK'
  <2>1. local' \in [UThread -> Seq(UThread)]
    BY <1>1, <1>2, Zenon DEF IInv, TypeOK
  <2>2. <<>> \in Seq(UThread)
    OBVIOUS
  <2>3. waiting' \in [Ev -> Seq(UThread)]
    BY <1>1, <1>2, <2>2, Zenon DEF IInv, TypeOK
  <2> QED
    BY <1>1, <2>1, <2>3, Zenon DEF IInv, TypeOK, PC
<1> HIDE DEF e
<1>7. ListInv'
  BY <1>2, <1>4, <1>5, <1>u, Zenon DEF IInv, ListInv
<1>8. QueueInv'
  <2> SUFFICES ASSUME NEW f \in Ev, NEW v \in UThread, On(v, waiting'[f])
               PROVE  /\ pc'[v] = "parked" /\ arg[v] = f /\ ~On(v, ready[Owner[v]])
                      /\ \A w \in UThread : ~On(v, local'[w])
    BY <1>u, Zenon DEF QueueInv
  <2>1. f # e /\ On(v, waiting[f])
    BY <1>4, <1>5, Zenon
  <2>2. /\ pc[v] = "parked" /\ arg[v] = f /\ ~On(v, ready[Owner[v]])
        /\ \A w \in UThread : ~On(v, local[w])
    BY <2>1, Zenon DEF IInv, QueueInv
  <2>3. v # u /\ ~On(v, waiting[e])
    BY <1>1, <1>2, <2>1, <2>2, Zenon DEF IInv, QueueInv
  <2> QED
    BY <1>4, <2>2, <2>3, Zenon
<1>9. LocalInv'
  <2> SUFFICES ASSUME NEW v \in UThread, NEW w \in UThread, On(v, local'[w])
               PROVE  /\ pc'[v] = "parked" /\ pc'[w] = "wake" /\ excused[v]
                      /\ ~On(v, ready[Owner[v]])
                      /\ \A x \in UThread : On(v, local'[x]) => x = w
    BY <1>u, Zenon DEF LocalInv
  <2>1. CASE w = u
    <3>1. On(v, waiting[e])
      BY <1>4, <2>1, Zenon
    <3>2. /\ pc[v] = "parked" /\ arg[v] = e /\ ~On(v, ready[Owner[v]])
          /\ \A x \in UThread : ~On(v, local[x])
      BY <1>2, <3>1, Zenon DEF IInv, QueueInv
    <3>3. excused[v]
      BY <1>1, <3>2, Zenon DEF IInv, ExcuseInv, e
    <3> QED
      BY <1>1, <1>4, <2>1, <3>2, <3>3, Zenon
  <2>2. CASE w # u
    <3>1. On(v, local[w])
      BY <1>4, <2>2, Zenon
    <3>2. /\ pc[v] = "parked" /\ pc[w] = "wake" /\ excused[v]
          /\ ~On(v, ready[Owner[v]])
          /\ \A x \in UThread : On(v, local[x]) => x = w
      BY <3>1, Zenon DEF IInv, LocalInv
    <3>3. v # u /\ ~On(v, waiting[e])
      BY <1>1, <1>2, <3>1, <3>2, Zenon DEF IInv, QueueInv
    <3> QED
      BY <1>4, <2>2, <3>2, <3>3, Zenon
  <2> QED
    BY <2>1, <2>2, Zenon
<1>10. PlaceInv'
  <2> SUFFICES ASSUME NEW v \in UThread, ~On(v, ready[Owner[v]])
               PROVE  \/ \E f \in Ev : On(v, waiting'[f])
                      \/ \E w \in UThread : On(v, local'[w])
    BY <1>u, Zenon DEF PlaceInv
  <2>1. CASE \E f \in Ev : On(v, waiting[f])
    BY <1>2, <1>4, <2>1, Zenon
  <2>2. CASE \E w \in UThread : On(v, local[w])
    BY <1>3, <1>4, <2>2, Zenon
  <2> QED
    BY <2>1, <2>2, Zenon DEF IInv, PlaceInv
<1>11. CallInv'
  BY <1>1, <1>4, <1>u DEF IInv, CallInv, Runs
<1>12. ExcuseInv'
  BY <1>1, <1>4, <1>u DEF IInv, ExcuseInv
<1>13. AloneInv'
  <2>1. ASSUME NEW f \in Ev, Alone(f), NEW v \in UThread, pc'[v] = "enqueue", arg'[v] = f
        PROVE  s'[f] = 0
    BY <1>4, <1>u, <2>1 DEF IInv, AloneInv
  <2>2. ASSUME NEW f \in Ev, Alone(f), s'[f] = 1, waiting'[f] # <<>>
        PROVE  InSet(f)'
    <3>1. f # e /\ waiting[f] # <<>>
      BY <1>4, <2>2, Zenon
    <3>2. InSet(f)
      BY <1>u, <2>2, <3>1, Zenon DEF IInv, AloneInv
    <3>3. PICK w \in UThread : pc[w] = "grab" /\ arg[w] = f
      BY <3>2, Zenon DEF InSet
    <3>4. w # u
      BY <3>1, <3>3, Zenon DEF e
    <3> QED
      BY <1>4, <1>u, <3>3, <3>4, Zenon DEF InSet
  <2> QED
    BY <2>1, <2>2, Zenon DEF AloneInv, Alone
<1> QED
  BY <1>6, <1>7, <1>8, <1>9, <1>10, <1>11, <1>12, <1>13, Zenon DEF IInv

\* set() wakes the next UThread of its list, which goes to its ready list.
LEMMA WakeNextStep ==
    ASSUME IInv, NEW u \in UThread, WakeNext(u)
    PROVE  IInv'
<1> DEFINE h == Head(local[u])
<1> DEFINE t == Owner[h]
<1>1. /\ pc[u] = "wake" /\ Runs(u) /\ local[u] # <<>>
      /\ ready' = [ready EXCEPT ![t] = Append(ready[t], h)]
      /\ local' = [local EXCEPT ![u] = Tail(local[u])]
      /\ UNCHANGED <<s, waiting, pc, arg, calls, excused>>
  BY Zenon DEF WakeNext, At, WakeUp
<1>2. local[u] \in Seq(UThread) /\ Distinct(local[u])
  BY Zenon DEF IInv, TypeOK, ListInv
<1>3. /\ h \in UThread /\ Tail(local[u]) \in Seq(UThread) /\ Distinct(Tail(local[u]))
      /\ On(h, local[u]) /\ ~On(h, Tail(local[u]))
      /\ \A x : On(x, local[u]) <=> On(x, Tail(local[u])) \/ x = h
  <2> DEFINE q == local[u]
  <2>1. q \in Seq(UThread) /\ q # <<>> /\ Distinct(q)
    BY <1>1, <1>2, Zenon
  <2> HIDE DEF q
  <2>2. /\ Head(q) \in UThread /\ Tail(q) \in Seq(UThread) /\ Distinct(Tail(q))
        /\ ~On(Head(q), Tail(q))
        /\ \A x : On(x, q) <=> On(x, Tail(q)) \/ x = Head(q)
    BY <2>1, OnTail, Zenon
  <2> QED
    BY <2>2, Zenon DEF q
<1> HIDE DEF h
<1>4. /\ pc[h] = "parked" /\ excused[h] /\ ~On(h, ready[t])
      /\ \A v \in UThread : On(h, local[v]) => v = u
      /\ \A f \in Ev : ~On(h, waiting[f])
      /\ h # u /\ t \in OSThread
  BY <1>1, <1>3, Zenon DEF IInv, LocalInv, QueueInv
<1>5. /\ ready'[t] \in Seq(UThread) /\ Distinct(ready'[t])
      /\ \A x : On(x, ready'[t]) <=> On(x, ready[t]) \/ x = h
      /\ ready'[t] # <<>>
      /\ ready[t] # <<>> => Head(ready'[t]) = Head(ready[t])
      /\ \A r \in OSThread : r # t => ready'[r] = ready[r]
  <2>1. ready'[t] = Append(ready[t], h) /\ \A r \in OSThread : r # t => ready'[r] = ready[r]
    BY <1>1, <1>4, Zenon DEF IInv, TypeOK
  <2> DEFINE q == ready[t]
  <2>2. q \in Seq(UThread) /\ Distinct(q) /\ ~On(h, q)
    BY <1>4, Zenon DEF IInv, TypeOK, ListInv
  <2> HIDE DEF q
  <2>3. /\ Append(q, h) \in Seq(UThread) /\ Distinct(Append(q, h))
        /\ \A x : On(x, Append(q, h)) <=> On(x, q) \/ x = h
        /\ Append(q, h) # <<>>
        /\ q # <<>> => Head(Append(q, h)) = Head(q)
    BY <1>3, <2>2, OnAppend, Zenon
  <2> QED
    BY <2>1, <2>3, Zenon DEF q
<1>6. /\ local'[u] = Tail(local[u])
      /\ \A v \in UThread : v # u => local'[v] = local[v]
  BY <1>1, Zenon DEF IInv, TypeOK
<1>u. UNCHANGED <<s, waiting, pc, arg, calls, excused>>
  BY <1>1, Zenon
<1>7. TypeOK'
  <2>1. ready' \in [OSThread -> Seq(UThread)] /\ local' \in [UThread -> Seq(UThread)]
    BY <1>1, <1>3, <1>4, <1>5, Zenon DEF IInv, TypeOK
  <2> QED
    BY <1>u, <2>1, Zenon DEF IInv, TypeOK
<1>r. \A v \in UThread : On(v, ready'[Owner[v]]) <=> On(v, ready[Owner[v]]) \/ v = h
  BY <1>5, <1>3, Zenon
<1>l. \A v, w \in UThread : On(v, local'[w]) => On(v, local[w]) /\ v # h
  BY <1>3, <1>4, <1>6, Zenon
<1>8. ListInv'
  <2>1. \A r \in OSThread : \A v \in UThread : On(v, ready'[r]) => Owner[v] = r
    BY <1>3, <1>5, Zenon DEF IInv, ListInv
  <2> QED
    BY <1>3, <1>5, <1>6, <1>u, <2>1, Zenon DEF IInv, ListInv
<1>9. QueueInv'
  <2> SUFFICES ASSUME NEW f \in Ev, NEW v \in UThread, On(v, waiting[f])
               PROVE  /\ pc[v] = "parked" /\ arg[v] = f /\ ~On(v, ready'[Owner[v]])
                      /\ \A w \in UThread : ~On(v, local'[w])
    BY <1>u, Zenon DEF QueueInv
  <2>1. /\ pc[v] = "parked" /\ arg[v] = f /\ ~On(v, ready[Owner[v]]) /\ v # h
        /\ \A w \in UThread : ~On(v, local[w])
    BY <1>4 DEF IInv, QueueInv
  <2> QED
    BY <1>r, <1>l, <2>1, Zenon
<1>10. LocalInv'
  BY <1>r, <1>l, <1>u, Zenon DEF IInv, LocalInv
<1>11. PlaceInv'
  <2> SUFFICES ASSUME NEW v \in UThread, v # h, ~On(v, ready[Owner[v]])
               PROVE  \/ \E f \in Ev : On(v, waiting[f])
                      \/ \E w \in UThread : On(v, local'[w])
    BY <1>r, <1>u, Zenon DEF PlaceInv
  <2>1. \A w \in UThread : On(v, local[w]) => On(v, local'[w])
    BY <1>3, <1>6, Zenon
  <2> QED
    BY <2>1, Zenon DEF IInv, PlaceInv
<1>12. CallInv'
  <2>1. \A v \in UThread : Runs(v) => Runs(v)'
    BY <1>4, <1>5, Zenon DEF Runs
  <2> QED
    BY <1>u, <2>1, Zenon DEF IInv, CallInv
<1>13. ExcuseInv'
  BY <1>4, <1>r, <1>u, Zenon DEF IInv, ExcuseInv
<1>14. AloneInv'
  BY <1>u, Zenon DEF IInv, AloneInv, Alone, InSet
<1> QED
  BY <1>7, <1>8, <1>9, <1>10, <1>11, <1>12, <1>13, <1>14, Zenon DEF IInv

\* UThread::leave between two calls: the list turns.
LEMMA YieldStep ==
    ASSUME IInv, NEW u \in UThread, Yield(u)
    PROVE  IInv'
<1> DEFINE t == Owner[u]
<1>1. /\ pc[u] = "idle" /\ Runs(u)
      /\ ready' = [ready EXCEPT ![t] = Append(Tail(ready[t]), u)]
      /\ UNCHANGED <<s, waiting, pc, arg, local, calls, excused>>
  BY Zenon DEF Yield, At, Leave
<1>2. /\ t \in OSThread /\ ready[t] \in Seq(UThread) /\ Distinct(ready[t])
      /\ ready[t] # <<>> /\ Head(ready[t]) = u
  BY <1>1, Zenon DEF IInv, TypeOK, ListInv, Runs
<1>3. /\ ready'[t] \in Seq(UThread) /\ Distinct(ready'[t])
      /\ \A x : On(x, ready'[t]) <=> On(x, ready[t])
      /\ \A r \in OSThread : r # t => ready'[r] = ready[r]
  <2>1. /\ ready'[t] = Append(Tail(ready[t]), u)
        /\ \A r \in OSThread : r # t => ready'[r] = ready[r]
    BY <1>1, <1>2, Zenon DEF IInv, TypeOK
  <2> DEFINE q == ready[t]
  <2> DEFINE p == Tail(q)
  <2>2. q \in Seq(UThread) /\ q # <<>> /\ Distinct(q) /\ Head(q) = u
    BY <1>2, Zenon
  <2> HIDE DEF q
  <2>3. /\ p \in Seq(UThread) /\ Distinct(p) /\ ~On(u, p)
        /\ \A x : On(x, q) <=> On(x, p) \/ x = u
    BY <2>2, OnTail, Zenon
  <2> HIDE DEF p
  <2>4. /\ Append(p, u) \in Seq(UThread) /\ Distinct(Append(p, u))
        /\ \A x : On(x, Append(p, u)) <=> On(x, p) \/ x = u
    BY <2>3, OnAppend, Zenon
  <2> QED
    BY <2>1, <2>3, <2>4, Zenon DEF q, p
<1>u. UNCHANGED <<s, waiting, pc, arg, local, calls, excused>>
  BY <1>1, Zenon
<1>4. TypeOK'
  <2>1. ready' \in [OSThread -> Seq(UThread)]
    BY <1>1, <1>2, <1>3, Zenon DEF IInv, TypeOK
  <2> QED
    BY <1>u, <2>1, Zenon DEF IInv, TypeOK
<1>r. \A r \in OSThread : \A x : On(x, ready'[r]) <=> On(x, ready[r])
  BY <1>3, Zenon
<1>o. \A v \in UThread : Owner[v] \in OSThread
  BY Zenon
<1>5. ListInv'
  BY <1>3, <1>r, <1>u, Zenon DEF IInv, ListInv
<1>v. \A v \in UThread : On(v, ready'[Owner[v]]) <=> On(v, ready[Owner[v]])
  BY <1>r, <1>o, Zenon
<1>6. QueueInv'
  BY <1>v, <1>u, Zenon DEF IInv, QueueInv
<1>10. LocalInv'
  BY <1>v, <1>u, Zenon DEF IInv, LocalInv
<1>7. PlaceInv' /\ ExcuseInv'
  BY <1>r, <1>o, <1>u, Zenon DEF IInv, PlaceInv, ExcuseInv
<1>8. CallInv'
  <2>1. ASSUME NEW v \in UThread, pc[v] \in {"enqueue", "grab", "wake"}
        PROVE  Runs(v)'
    <3>1. Runs(v) /\ v # u
      BY <1>1, <2>1, Zenon DEF IInv, CallInv
    <3>2. Owner[v] # t
      BY <1>1, <3>1, RunningOn, Zenon
    <3> QED
      BY <1>3, <3>1, <3>2, Zenon DEF Runs
  <2> QED
    BY <1>u, <2>1, Zenon DEF IInv, CallInv
<1>9. AloneInv'
  BY <1>u, Zenon DEF IInv, AloneInv, Alone, InSet
<1> QED
  BY <1>4, <1>5, <1>6, <1>7, <1>8, <1>9, <1>10, Zenon DEF IInv

----------------------------------------------------------------------------
(***************************************************************************)
(* The theorems.                                                           *)
(***************************************************************************)

\* os::Event keeps its inductive invariant: lists are disjoint and complete, only
\* running UThreads are inside a call, and whoever a set() finds is excused.
THEOREM EventInvariance == Spec => []IInv
<1>1. ASSUME IInv, [Next]_vars PROVE IInv'
  <2>1. CASE UNCHANGED vars
    <3> USE <2>1 DEF vars
    <3>1. TypeOK' /\ ListInv' /\ QueueInv'
      BY <1>1, Zenon DEF IInv, TypeOK, ListInv, QueueInv
    <3>2. LocalInv' /\ PlaceInv' /\ CallInv'
      BY <1>1, Zenon DEF IInv, LocalInv, PlaceInv, CallInv, Runs
    <3>3. ExcuseInv' /\ AloneInv'
      BY <1>1, Zenon DEF IInv, ExcuseInv, AloneInv, Alone, InSet
    <3> QED
      BY <3>1, <3>2, <3>3, Zenon DEF IInv
  <2>2. ASSUME NEW u \in UThread, NEW e \in Ev,
               WaitReturns(u, e) \/ WaitBlocks(u, e) \/ Set(u, e) \/ Clear(u, e)
        PROVE  IInv'
    BY <1>1, <2>2, WaitReturnsStep, WaitBlocksStep, SetStep, ClearStep, Zenon
  <2>3. ASSUME NEW u \in UThread, Finish(u) \/ Yield(u)
        PROVE  IInv'
    BY <1>1, <2>3, EnqueueStep, ResumeStep, GrabStep, WakeNextStep, SetReturnsStep, YieldStep, Zenon
    DEF Finish
  <2> QED
    BY <1>1, <2>1, <2>2, <2>3, Zenon DEF Next
<1> QED
  BY <1>1, InitIInv, PTL DEF Spec

\* Flags stay flags and lists stay lists of UThreads.
THEOREM EventTypes == Spec => []TypeOK
<1>1. IInv => TypeOK
  BY Zenon DEF IInv
<1> QED
  BY <1>1, EventInvariance, PTL

\* A UThread is on exactly one of the lists that InlineList links it into: its
\* ready list, the queue of an event, or the local list of a set().
THEOREM EventOneList == Spec => []OnOneList
<1>1. IInv => OnOneList
  <2> SUFFICES ASSUME IInv, NEW u \in UThread PROVE Cardinality(Places(u)) = 1
    BY Zenon DEF OnOneList
  <2>t. /\ ready[Owner[u]] \in Seq(UThread)
        /\ \A e \in Ev : waiting[e] \in Seq(UThread)
        /\ \A w \in UThread : local[w] \in Seq(UThread)
    BY Zenon DEF IInv, TypeOK
  <2>d. /\ Distinct(ready[Owner[u]])
        /\ \A e \in Ev : Distinct(waiting[e])
        /\ \A w \in UThread : Distinct(local[w])
    BY Zenon DEF IInv, ListInv
  <2> DEFINE R == Where(u, ready[Owner[u]], "ready")
  <2> DEFINE W(e) == Where(u, waiting[e], e)
  <2> DEFINE L(w) == Where(u, local[w], w)
  <2>1. \A p : p \in Places(u) <=>
            p \in R \/ (\E e \in Ev : p \in W(e)) \/ (\E w \in UThread : p \in L(w))
    BY Zenon DEF Places
  <2>2. /\ ~On(u, ready[Owner[u]]) => R = {}
        /\ On(u, ready[Owner[u]]) => \E p : R = {p}
    BY <2>t, <2>d, OnPlaces, Zenon
  <2>4. /\ \A e \in Ev : ~On(u, waiting[e]) => W(e) = {}
        /\ \A e \in Ev : On(u, waiting[e]) => \E p : W(e) = {p}
    BY <2>t, <2>d, OnPlaces, Zenon
  <2>5. /\ \A w \in UThread : ~On(u, local[w]) => L(w) = {}
        /\ \A w \in UThread : On(u, local[w]) => \E p : L(w) = {p}
    BY <2>t, <2>d, OnPlaces, Zenon
  <2> HIDE DEF R, W, L
  <2>3. \E p : Places(u) = {p}
    <3>1. CASE On(u, ready[Owner[u]])
      <4>1. PICK p : R = {p}
        BY <2>2, <3>1, Zenon
      <4>2. (\A e \in Ev : W(e) = {}) /\ (\A w \in UThread : L(w) = {})
        BY <2>4, <2>5, <3>1, Zenon DEF IInv, QueueInv, LocalInv
      <4>3. Places(u) = {p}
        BY <2>1, <4>1, <4>2, Zenon
      <4> QED
        BY <4>3, Zenon
    <3>2. ASSUME NEW f \in Ev, On(u, waiting[f])
          PROVE  \E p : Places(u) = {p}
      <4>1. PICK p : W(f) = {p}
        BY <2>4, <3>2, Zenon
      <4>2. /\ ~On(u, ready[Owner[u]])
            /\ \A e \in Ev : e # f => ~On(u, waiting[e])
            /\ \A w \in UThread : ~On(u, local[w])
        <5>1. QueueInv
          BY Zenon DEF IInv
        <5>2. /\ arg[u] = f
              /\ ~On(u, ready[Owner[u]])
              /\ \A w \in UThread : ~On(u, local[w])
          BY <3>2, <5>1, Zenon DEF QueueInv
        <5>3. \A e \in Ev : On(u, waiting[e]) => arg[u] = e
          BY <5>1, Zenon DEF QueueInv
        <5> QED
          BY <5>2, <5>3, Zenon
      <4>3. /\ R = {} /\ (\A e \in Ev : e # f => W(e) = {})
            /\ \A w \in UThread : L(w) = {}
        BY <2>2, <2>4, <2>5, <4>2, Zenon
      <4>4. Places(u) = {p}
        BY <2>1, <4>1, <4>3, Zenon
      <4> QED
        BY <4>4, Zenon
    <3>3. ASSUME NEW v \in UThread, On(u, local[v])
          PROVE  \E p : Places(u) = {p}
      <4>1. PICK p : L(v) = {p}
        BY <2>5, <3>3, Zenon
      <4>2. /\ ~On(u, ready[Owner[u]])
            /\ \A e \in Ev : ~On(u, waiting[e])
            /\ \A w \in UThread : w # v => ~On(u, local[w])
        BY <3>3, Zenon DEF IInv, QueueInv, LocalInv
      <4>3. /\ R = {} /\ (\A e \in Ev : W(e) = {})
            /\ \A w \in UThread : w # v => L(w) = {}
        BY <2>2, <2>4, <2>5, <4>2, Zenon
      <4>4. Places(u) = {p}
        BY <2>1, <4>1, <4>3, Zenon
      <4> QED
        BY <4>4, Zenon
    <3> QED
      BY <3>1, <3>2, <3>3, Zenon DEF IInv, PlaceInv
  <2> QED
    BY <2>3, FS_Singleton, Zenon
<1> QED
  BY <1>1, EventInvariance, PTL

\* A UThread queued in wait() is made ready only by a set() that overlaps the call.
THEOREM EventWakes == Spec => []WokenBySet
<1>1. IInv => WokenBySet
  <2> SUFFICES ASSUME IInv, NEW u \in UThread, pc[u] = "parked",
                      NEW i \in DOMAIN ready[Owner[u]], ready[Owner[u]][i] = u
               PROVE  excused[u]
    BY Zenon DEF WokenBySet
  <2>1. ready[Owner[u]] \in Seq(UThread)
    BY Zenon DEF IInv, TypeOK
  <2>2. On(u, ready[Owner[u]])
    BY <2>1 DEF On
  <2> QED
    BY <2>2, Zenon DEF IInv, ExcuseInv
<1> QED
  BY <1>1, EventInvariance, PTL

\* On an event used within one OS thread, set() leaves nobody on the queue.
THEOREM EventLeavesNobody == Spec => []NobodyLeftBehindLocally
<1>1. IInv => NobodyLeftBehindLocally
  BY Zenon DEF IInv, AloneInv, Alone, NobodyLeftBehindLocally, LeftBehind
<1> QED
  BY <1>1, EventInvariance, PTL
============================================================================
