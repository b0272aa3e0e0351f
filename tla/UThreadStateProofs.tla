------------------------ MODULE UThreadStateProofs -------------------------
(***************************************************************************)
(* Proofs about the UThread scheduler, for any number of OS threads,       *)
(* UThreads and semaphores: every step keeps IInv, what IInv implies, and  *)
(* that os::Sema on top of the scheduler is a semaphore.                   *)
(***************************************************************************)
EXTENDS UThreadState, FiniteSetTheorems, TLAPS

----------------------------------------------------------------------------
(***************************************************************************)
(* Lists.  The invariants speak of lists only through In and NoDuplicates; *)
(* these lemmas say what push and pop of InlineList do to the two.         *)
(***************************************************************************)

\* Appending a new element adds that element and no other (InlineList::push).
LEMMA InAppend ==
    ASSUME NEW S, NEW q \in Seq(S), NEW y \in S
    PROVE  /\ Append(q, y) \in Seq(S)
           /\ \A x : In(x, Append(q, y)) <=> In(x, q) \/ x = y
           /\ NoDuplicates(q) /\ ~In(y, q) => NoDuplicates(Append(q, y))
  BY DEF In, NoDuplicates

\* Dropping the head of a list without duplicates removes that element and no
\* other (InlineList::pop).
LEMMA InTail ==
    ASSUME NEW S, NEW q \in Seq(S), q # <<>>, NoDuplicates(q)
    PROVE  /\ Tail(q) \in Seq(S)
           /\ Head(q) \in S
           /\ In(Head(q), q)
           /\ \A x : In(x, Tail(q)) <=> In(x, q) /\ x # Head(q)
           /\ NoDuplicates(Tail(q))
<1>1. /\ Tail(q) \in Seq(S)
      /\ Head(q) \in S
      /\ Head(q) = q[1]
      /\ Len(q) \in Nat \ {0}
      /\ Len(Tail(q)) = Len(q) - 1
      /\ \A i \in 1 .. Len(q) - 1 : Tail(q)[i] = q[i + 1]
  OBVIOUS
<1>2. In(Head(q), q)
  BY <1>1 DEF In
<1>3. ASSUME NEW x, In(x, Tail(q))
      PROVE  In(x, q) /\ x # Head(q)
  BY <1>1, <1>3 DEF In, NoDuplicates
<1>4. ASSUME NEW x, In(x, q), x # Head(q)
      PROVE  In(x, Tail(q))
  <2>1. PICK i \in 1 .. Len(q) : q[i] = x
    BY <1>4, Zenon DEF In
  <2>2. i # 1 /\ i - 1 \in 1 .. Len(q) - 1 /\ Tail(q)[i - 1] = q[i]
    BY <1>1, <1>4, <2>1
  <2> QED
    BY <1>1, <2>1, <2>2, Zenon DEF In
<1>5. NoDuplicates(Tail(q))
  BY <1>1 DEF NoDuplicates
<1> QED
  BY <1>1, <1>2, <1>3, <1>4, <1>5, Zenon

----------------------------------------------------------------------------
(***************************************************************************)
(* The inductive invariant.                                                *)
(***************************************************************************)
USE SchedAssumption, InitCountAssumption

\* The initial state, one UThread on every OS thread, satisfies the invariant.
LEMMA InitIInv == Init => IInv
<1> SUFFICES ASSUME Init PROVE IInv
  BY Zenon
<1> USE DEF Init, CondInit, SemaInit
<1>1. TypeOK
  BY DEF TypeOK, CondTypeOK, PC, Idle
<1>2. \A x, t, s : (t \in OSThread => ~In(x, ready[t])) /\ (s \in Sem => ~In(x, waiting[s]))
  BY DEF In
<1>3. /\ \A t \in OSThread : NoDuplicates(ready[t])
      /\ \A s \in Sem : NoDuplicates(waiting[s])
  BY DEF NoDuplicates
<1>4. WaitingInv /\ TransitInv /\ ReadyInv
  BY <1>2, <1>3, ZenonT(30) DEF WaitingInv, TransitInv, ReadyInv, InTransit
<1>5. ExecInv /\ NoneLost
  BY Zenon DEF ExecInv, NoneLost
<1>6. FlagInv /\ NoLostWakeup /\ NoOvertaking
  BY DEF FlagInv, NoLostWakeup, NoOvertaking
<1>7. AliveCountExact
  <2> SUFFICES ASSUME NEW t \in OSThread PROVE Cardinality(Alive(t)) = 1
    BY Zenon DEF AliveCountExact
  <2>1. Alive(t) = {First[t]}
    BY DEF Alive
  <2> QED
    BY <2>1, FS_Singleton, ZenonT(30)
<1> QED
  BY <1>1, <1>4, <1>5, <1>6, <1>7, Zenon DEF IInv

\* Steps that change neither the lists nor who is alive.
LEMMA AliveSame ==
    ASSUME AliveCountExact, UNCHANGED aliveCount,
           \A u \in UThread : pc[u] \in {"none", "done"} <=> pc'[u] \in {"none", "done"}
    PROVE  AliveCountExact'
<1>1. \A t \in OSThread : Alive(t)' = Alive(t)
  BY Zenon DEF Alive
<1> QED
  BY <1>1, Zenon DEF AliveCountExact

\* Alive(t) is a finite set, so that its members can be counted.
LEMMA AliveFinite == \A t \in OSThread : IsFiniteSet(Alive(t))
  BY FS_Subset, Zenon DEF Alive

\* What remains of a ready list after a context switch: the head is gone, and
\* u may have been pushed.
LEMMA RestOfList ==
    ASSUME NEW S, NEW ls \in Seq(S), ls # <<>>, NoDuplicates(ls), NEW u \in S, NEW rest,
           rest = Tail(ls) \/ (rest = Append(Tail(ls), u) /\ ~In(u, ls))
    PROVE  /\ rest \in Seq(S)
           /\ NoDuplicates(rest)
           /\ Head(ls) \in S
           /\ In(Head(ls), ls)
           /\ \A x : In(x, rest) => (In(x, ls) /\ x # Head(ls)) \/ (x = u /\ ~In(u, ls))
           /\ \A x : In(x, ls) /\ x # Head(ls) => In(x, rest)
           /\ rest = Append(Tail(ls), u) => In(u, rest)
           /\ rest = Tail(ls) => \A x : In(x, rest) => In(x, ls)
<1> DEFINE q == Tail(ls)
<1>1. /\ q \in Seq(S)
      /\ Head(ls) \in S
      /\ In(Head(ls), ls)
      /\ \A x : In(x, q) <=> In(x, ls) /\ x # Head(ls)
      /\ NoDuplicates(q)
  BY InTail, Zenon
<1> HIDE DEF q
<1>2. /\ Append(q, u) \in Seq(S)
      /\ \A x : In(x, Append(q, u)) <=> In(x, q) \/ x = u
      /\ ~In(u, q) => NoDuplicates(Append(q, u))
  BY <1>1, InAppend, Zenon
<1>3. CASE rest = q
  BY <1>1, <1>2, <1>3, Zenon DEF q
<1>4. CASE rest = Append(q, u) /\ ~In(u, ls)
  BY <1>1, <1>2, <1>4, Zenon DEF q
<1> QED
  BY <1>3, <1>4, ZenonT(30) DEF q

\* UThreadState::leave, wait and exit: a context switch from u to next preserves
\* the invariant, except for what exit does to aliveCount.
LEMMA SwitchIInv ==
    ASSUME IInv, NEW u \in UThread, NEW l, NEW rest, NEW t, NEW next,
           t = Owner[u], next = Head(ready[t]),
           \/ l = pc[u] /\ l \in {"user", "main"} /\ rest = Rotated(u)
           \/ l = pc[u] /\ l = "wait" /\ rest = Popped(u)
           \/ l = "done" /\ pc[u] = "exit" /\ rest = Popped(u),
           running[t] = u, idle[t] = "no",
           SwitchFrom(u, l, rest),
           UNCHANGED <<condVars, semaVars, target, idle>>
    PROVE  /\ ready' \in [OSThread -> Seq(UThread)]
           /\ running' \in [OSThread -> UThread]
           /\ pc' \in [UThread -> PC]
           /\ inDown' \in [UThread -> Sem \cup {NoSem}]
           /\ WaitingInv' /\ TransitInv' /\ ReadyInv' /\ NoneLost' /\ ExecInv'
           /\ FlagInv' /\ NoLostWakeup' /\ NoOvertaking'
           /\ \A v \in UThread : v # u => (pc'[v] \in {"none", "done"} <=> pc[v] \in {"none", "done"})
           /\ pc'[u] \in {"none", "done"} <=> l = "done"
<1>1. /\ t \in OSThread
      /\ ready[t] # <<>>
      /\ ready' = [ready EXCEPT ![t] = rest]
      /\ running' = [running EXCEPT ![t] = next]
      /\ pc' = [pc EXCEPT ![u] = l, ![next] = Resumed(next)]
      /\ inDown' = [inDown EXCEPT ![next] = NoSem]
      /\ UNCHANGED <<signaled, eventfd, count, waiting, target, idle>>
  BY Zenon DEF SwitchFrom, condVars, semaVars
<1>2. /\ \/ rest = Tail(ready[t])
         \/ rest = Append(Tail(ready[t]), u) /\ ~In(u, ready[t])
      /\ l \in {"user", "main"} => rest = Append(Tail(ready[t]), u)
      /\ l \in {"wait", "done"} => rest = Tail(ready[t])
  BY <1>1, ZenonT(30) DEF IInv, ReadyInv, Popped, Rotated
<1>3. /\ ready' \in [OSThread -> Seq(UThread)]
      /\ next \in UThread
      /\ In(next, ready[t])
      /\ \A r \in OSThread : NoDuplicates(ready'[r])
      /\ \A r \in OSThread : r # t => ready'[r] = ready[r]
      /\ \A x : In(x, ready'[t]) => (In(x, ready[t]) /\ x # next) \/ (x = u /\ ~In(u, ready[t]))
      /\ \A x : In(x, ready[t]) /\ x # next => In(x, ready'[t])
      /\ l \in {"user", "main"} => In(u, ready'[t])
      /\ l \in {"wait", "done"} /\ In(u, ready'[t]) => In(u, ready[t])
  <2> DEFINE ls == ready[t]
  <2>1. /\ ls \in Seq(UThread)
        /\ ls # <<>>
        /\ NoDuplicates(ls)
        /\ \A r \in OSThread : NoDuplicates(ready[r])
        /\ ready \in [OSThread -> Seq(UThread)]
    BY <1>1, ZenonT(30) DEF IInv, TypeOK, ReadyInv
  <2>2. /\ rest \in Seq(UThread)
        /\ NoDuplicates(rest)
        /\ Head(ls) \in UThread
        /\ In(Head(ls), ls)
        /\ \A x : In(x, rest) => (In(x, ls) /\ x # Head(ls)) \/ (x = u /\ ~In(u, ls))
        /\ \A x : In(x, ls) /\ x # Head(ls) => In(x, rest)
        /\ rest = Append(Tail(ls), u) => In(u, rest)
        /\ rest = Tail(ls) => \A x : In(x, rest) => In(x, ls)
    <3> HIDE DEF ls
    <3>1. rest = Tail(ls) \/ (rest = Append(Tail(ls), u) /\ ~In(u, ls))
      BY <1>2, Zenon DEF ls
    <3> QED
      BY <1>1, <2>1, <3>1, RestOfList, ZenonT(30)
  <2>3. ready'[t] = rest /\ \A r \in OSThread : r # t => ready'[r] = ready[r]
    BY <1>1, <2>1, Zenon
  <2> QED
    BY <1>1, <1>2, <2>1, <2>2, <2>3, ZenonT(30)
<1>4. Owner[next] = t /\ pc[next] \in {"user", "main", "wait"} /\ (next = u => l = "wait")
  BY <1>1, <1>3 DEF IInv, ReadyInv

<1>5. /\ pc' \in [UThread -> PC]
      /\ \A v \in UThread : v # u /\ v # next => pc'[v] = pc[v]
      /\ next # u => pc'[u] = l
      /\ pc'[next] \in {"user", "main"}
      /\ pc[u] \in {"user", "main", "wait", "exit"}
  BY <1>1, <1>3, <1>4, ZenonT(30) DEF IInv, TypeOK, Resumed, PC
<1>6. /\ inDown' \in [UThread -> Sem \cup {NoSem}]
      /\ \A v \in UThread : v # next => inDown'[v] = inDown[v]
      /\ inDown'[next] = NoSem
  BY <1>1, <1>3, ZenonT(30) DEF IInv, TypeOK
<1>7. /\ running' \in [OSThread -> UThread]
      /\ running'[t] = next
      /\ \A r \in OSThread : r # t => running'[r] = running[r]
  BY <1>1, <1>3, Zenon DEF IInv, TypeOK
<1>8. \A v, w \in UThread : InTransit(w, v)' <=> InTransit(w, v)
  BY <1>1, <1>3, <1>4, <1>5, Zenon DEF InTransit
<1>u. UNCHANGED <<eventfd, waiting, target, idle>> /\ t \in OSThread
  BY <1>1, Zenon
<1>9. WaitingInv'
  <2>1. \A s \in Sem : NoDuplicates(waiting[s])
    BY Zenon DEF IInv, WaitingInv
  <2>2. ASSUME NEW s \in Sem, NEW v \in UThread, In(v, waiting[s])
        PROVE  /\ pc'[v] = "wait" /\ inDown'[v] = s
               /\ ~In(v, ready'[Owner[v]])
               /\ \A w \in UThread : ~InTransit(w, v)'
    <3>1. /\ pc[v] = "wait" /\ inDown[v] = s
          /\ ~In(v, ready[Owner[v]])
          /\ \A w \in UThread : ~InTransit(w, v)
      BY <2>2, Zenon DEF IInv, WaitingInv
    <3>2. v # next /\ Owner[v] \in OSThread
      BY <1>3, <1>4, <3>1, Zenon
    <3>3. v = u => l = "wait"
      BY <3>1, Zenon
    <3>4. pc'[v] = "wait" /\ inDown'[v] = s
      BY <1>5, <1>6, <3>1, <3>2, <3>3, Zenon
    <3>5. ~In(v, ready'[Owner[v]])
      BY <1>3, <3>1, <3>2, <3>3, ZenonT(30)
    <3> QED
      BY <1>8, <3>1, <3>4, <3>5, Zenon
  <2> QED
    BY <1>u, <2>1, <2>2, Zenon DEF WaitingInv
<1>10. TransitInv'
  <2> SUFFICES ASSUME NEW w \in UThread, NEW v \in UThread, InTransit(w, v)
               PROVE  pc'[v] = "wait" /\ ~In(v, ready'[Owner[v]])
    BY <1>8, Zenon DEF IInv, TransitInv
  <2>1. pc[v] = "wait" /\ ~In(v, ready[Owner[v]])
    BY Zenon DEF IInv, TransitInv
  <2>2. v # next /\ Owner[v] \in OSThread
    BY <1>3, <1>4, <2>1, Zenon
  <2>3. v = u => l = "wait"
    BY <2>1, Zenon
  <2> QED
    BY <1>3, <1>5, <2>1, <2>2, <2>3, ZenonT(30)
<1>11. ReadyInv'
  <2> SUFFICES ASSUME NEW r \in OSThread, NEW v \in UThread, In(v, ready'[r])
               PROVE  /\ Owner[v] = r
                      /\ pc'[v] \in {"user", "main", "wait"}
                      /\ running'[r] = v => pc'[v] = "wait"
    BY <1>3, Zenon DEF ReadyInv
  <2>1. CASE r # t
    <3>1. /\ Owner[v] = r
          /\ pc[v] \in {"user", "main", "wait"}
          /\ running[r] = v => pc[v] = "wait"
      BY <1>3, <2>1, ZenonT(30) DEF IInv, ReadyInv
    <3>2. v # u /\ v # next
      BY <1>4, <2>1, <3>1, Zenon
    <3> QED
      BY <1>5, <1>7, <2>1, <3>1, <3>2, Zenon
  <2>2. CASE r = t /\ In(v, ready[t]) /\ v # next
    <3>1. /\ Owner[v] = t
          /\ pc[v] \in {"user", "main", "wait"}
          /\ running[t] = v => pc[v] = "wait"
      BY <1>u, <2>2, Zenon DEF IInv, ReadyInv
    <3> QED
      BY <1>5, <1>7, <2>2, <3>1, ZenonT(30)
  <2>3. CASE r = t /\ v = u /\ ~In(u, ready[t])
    <3>1. l # "done" /\ v # next
      BY <1>3, <2>3, Zenon
    <3> QED
      BY <1>5, <1>7, <2>3, <3>1, Zenon
  <2> QED
    BY <1>3, <2>1, <2>2, <2>3, Zenon
<1>k. \A v \in UThread : pc[v] \notin {"user", "main", "wait", "exit"} => v # u /\ v # next
  BY <1>4, <1>5, Zenon
<1>12. NoneLost'
  <2>1. NoneLost
    BY Zenon DEF IInv
  <2> SUFFICES ASSUME NEW v \in UThread
               PROVE  \/ pc'[v] \in {"none", "done"}
                      \/ running'[Owner[v]] = v /\ pc'[v] # "wait"
                      \/ In(v, ready'[Owner[v]])
                      \/ pc'[v] = "wait" /\ inDown'[v] # NoSem /\ In(v, waiting[inDown'[v]])
                      \/ \E w \in UThread : InTransit(w, v)
    BY <1>u, <1>8, Zenon DEF NoneLost
  <2>2. CASE v = next
    BY <1>4, <1>5, <1>7, <2>2, Zenon
  <2>3. CASE v # next /\ v = u /\ l # "wait"
    BY <1>3, <1>5, <2>3, Zenon
  <2>4. CASE v # next /\ (v = u => l = "wait")
    <3>1. pc'[v] = pc[v] /\ inDown'[v] = inDown[v] /\ Owner[v] \in OSThread
      BY <1>5, <1>6, <2>4, Zenon
    <3>2. In(v, ready[Owner[v]]) => In(v, ready'[Owner[v]])
      BY <1>3, <2>4, <3>1, Zenon
    <3>3. running[Owner[v]] = v /\ pc[v] # "wait" => running'[Owner[v]] = v
      BY <1>7, <2>4, <3>1, Zenon
    <3> QED
      BY <2>1, <3>1, <3>2, <3>3, Zenon DEF NoneLost
  <2> QED
    BY <2>2, <2>3, <2>4, Zenon
<1>13. ExecInv'
  <2>1. ExecInv
    BY Zenon DEF IInv
  <2>2. ASSUME NEW r \in OSThread
        PROVE  /\ Owner[running'[r]] = r
               /\ pc'[running'[r]] \notin {"none", "done"}
               /\ idle[r] # "no" => pc'[running'[r]] \in {"wait", "exit", "main"}
    <3>1. CASE r = t
      BY <1>4, <1>5, <1>7, <3>1, Zenon
    <3>2. CASE r # t
      <4>1. running'[r] = running[r] /\ running[r] \in UThread /\ Owner[running[r]] = r
        BY <1>7, <2>1, <3>2, Zenon DEF ExecInv
      <4>2. pc'[running[r]] = pc[running[r]]
        BY <1>4, <1>5, <3>2, <4>1, Zenon
      <4> QED
        BY <2>1, <4>1, <4>2 DEF ExecInv
    <3> QED
      BY <3>1, <3>2, Zenon
  <2>3. ASSUME NEW v \in UThread
        PROVE  /\ pc'[v] \in {"wake", "signal", "write", "exit"} => running'[Owner[v]] = v
               /\ inDown'[v] \in Sem <=> pc'[v] = "wait"
    <3>1. CASE v = next
      BY <1>4, <1>5, <1>6, <1>7, <3>1, Zenon
    <3>2. CASE v # next /\ v = u
      <4>1. /\ pc'[v] = l /\ l \in {"user", "main", "wait", "done"}
            /\ l = "wait" <=> pc[v] = "wait"
        BY <1>5, <3>2, Zenon
      <4>2. inDown'[v] = inDown[v] /\ (inDown[v] \in Sem <=> pc[v] = "wait")
        BY <1>6, <2>1, <3>2, Zenon DEF ExecInv
      <4> QED
        BY <4>1, <4>2, Zenon
    <3>3. CASE v # next /\ v # u
      <4>1. pc'[v] = pc[v] /\ inDown'[v] = inDown[v] /\ Owner[v] \in OSThread
        BY <1>5, <1>6, <3>3, Zenon
      <4>2. running[Owner[v]] = v => running'[Owner[v]] = v
        BY <1>7, <3>3, <4>1, Zenon
      <4> QED
        BY <2>1, <4>1, <4>2 DEF ExecInv
    <3> QED
      BY <3>1, <3>2, <3>3, Zenon
  <2> QED
    BY <1>u, <2>2, <2>3 DEF ExecInv
<1>14. FlagInv'
  <2>1. FlagInv
    BY Zenon DEF IInv
  <2>2. \A v \in UThread : pc[v] = "write" => pc'[v] = "write"
    BY <1>5, <1>k, Zenon
  <2>3. UNCHANGED <<signaled, eventfd, target, idle>>
    BY <1>1, Zenon
  <2> QED
    BY <2>1, <2>2, <2>3 DEF FlagInv
<1>15. NoLostWakeup'
  <2> SUFFICES ASSUME NEW r \in OSThread, idle[r] = "poll", ready'[r] # <<>>
               PROVE  WakeComing(r)'
    BY <1>u, Zenon DEF NoLostWakeup
  <2>1. r # t /\ ready'[r] = ready[r]
    BY <1>3, Zenon
  <2>2. WakeComing(r)
    BY <2>1, Zenon DEF IInv, NoLostWakeup
  <2>3. \A v \in UThread : pc[v] \in {"signal", "write"} => pc'[v] = pc[v]
    BY <1>3, <1>4, <1>5, ZenonT(30)
  <2> QED
    BY <1>u, <2>2, <2>3, Zenon DEF WakeComing
<1>16. NoOvertaking'
  BY <1>1, Zenon DEF IInv, NoOvertaking
<1>17. /\ \A v \in UThread : v # u => (pc'[v] \in {"none", "done"} <=> pc[v] \in {"none", "done"})
       /\ pc'[u] \in {"none", "done"} <=> l = "done"
  BY <1>3, <1>4, <1>5, ZenonT(30)
<1> QED
  BY <1>3, <1>5, <1>6, <1>7, <1>9, <1>10, <1>11, <1>12, <1>13, <1>14, <1>15, <1>16, <1>17, Zenon

\* The labels of a UThread that runs and is on no list.
Busy == {"user", "signal", "write", "main", "exit"}

\* Steps that move no UThread between lists: the running ones advance from one
\* busy label to another, the others stay where they are.
LEMMA QuietIInv ==
    ASSUME IInv, UNCHANGED <<waiting, running, ready, aliveCount, inDown>>,
           \A v \in UThread :
              \/ pc'[v] = pc[v] /\ target'[v] = target[v]
              \/ running[Owner[v]] = v /\ pc[v] \in Busy /\ pc'[v] \in Busy,
           \A t \in OSThread : idle'[t] # "no" => pc'[running[t]] \in {"wait", "exit", "main"}
    PROVE  /\ WaitingInv' /\ TransitInv' /\ ReadyInv' /\ NoneLost' /\ ExecInv'
           /\ AliveCountExact'
<1>1. \A w, v \in UThread : InTransit(w, v)' <=> InTransit(w, v)
  BY Zenon DEF InTransit, Busy
<1>2. \A v \in UThread : pc[v] = "wait" => pc'[v] = "wait"
  BY Zenon DEF Busy
<1>3. \A v \in UThread : pc'[v] \in {"none", "done"} <=> pc[v] \in {"none", "done"}
  BY Zenon DEF Busy
<1>4. WaitingInv'
  <2>1. ASSUME NEW s \in Sem, NEW v \in UThread, In(v, waiting[s])
        PROVE  /\ pc'[v] = "wait" /\ inDown[v] = s
               /\ ~In(v, ready[Owner[v]])
               /\ \A w \in UThread : ~InTransit(w, v)'
    <3>1. /\ pc[v] = "wait" /\ inDown[v] = s
          /\ ~In(v, ready[Owner[v]])
          /\ \A w \in UThread : ~InTransit(w, v)
      BY <2>1, Zenon DEF IInv, WaitingInv
    <3> QED
      BY <1>1, <1>2, <3>1, Zenon
  <2>2. \A s \in Sem : NoDuplicates(waiting[s])
    BY Zenon DEF IInv, WaitingInv
  <2> QED
    BY <2>1, <2>2, Zenon DEF WaitingInv
<1>5. TransitInv'
  <2> SUFFICES ASSUME NEW w \in UThread, NEW v \in UThread, InTransit(w, v)
               PROVE  /\ pc'[v] = "wait" /\ ~In(v, ready[Owner[v]])
                      /\ \A x \in UThread : InTransit(x, v) => x = w
    BY <1>1, Zenon DEF TransitInv
  <2>1. /\ pc[v] = "wait" /\ ~In(v, ready[Owner[v]])
        /\ \A x \in UThread : InTransit(x, v) => x = w
    BY Zenon DEF IInv, TransitInv
  <2> QED
    BY <1>2, <2>1, Zenon
<1>6. ReadyInv'
  <2>1. ASSUME NEW t \in OSThread, NEW v \in UThread, In(v, ready[t])
        PROVE  /\ Owner[v] = t
               /\ pc'[v] \in {"user", "main", "wait"}
               /\ running[t] = v => pc'[v] = "wait"
    <3>1. /\ Owner[v] = t
          /\ pc[v] \in {"user", "main", "wait"}
          /\ running[t] = v => pc[v] = "wait"
      BY <2>1, Zenon DEF IInv, ReadyInv
    <3>2. pc'[v] = pc[v]
      BY <1>2, <3>1, Zenon DEF Busy
    <3> QED
      BY <3>1, <3>2, Zenon
  <2>2. \A t \in OSThread : NoDuplicates(ready[t])
    BY Zenon DEF IInv, ReadyInv
  <2> QED
    BY <2>1, <2>2, Zenon DEF ReadyInv
<1>7. NoneLost'
  <2> SUFFICES ASSUME NEW v \in UThread
               PROVE  \/ pc'[v] \in {"none", "done"}
                      \/ running[Owner[v]] = v /\ pc'[v] # "wait"
                      \/ In(v, ready[Owner[v]])
                      \/ pc'[v] = "wait" /\ inDown[v] # NoSem /\ In(v, waiting[inDown[v]])
                      \/ \E w \in UThread : InTransit(w, v)'
    BY Zenon DEF NoneLost
  <2>1. \/ pc[v] \in {"none", "done"}
        \/ running[Owner[v]] = v /\ pc[v] # "wait"
        \/ In(v, ready[Owner[v]])
        \/ pc[v] = "wait" /\ inDown[v] # NoSem /\ In(v, waiting[inDown[v]])
        \/ \E w \in UThread : InTransit(w, v)
    BY Zenon DEF IInv, NoneLost
  <2> QED
    BY <1>1, <1>2, <1>3, <2>1, ZenonT(30) DEF Busy
<1>8. AliveCountExact'
  BY <1>3, AliveSame, Zenon DEF IInv
<1>9. ExecInv'
  <2>1. ASSUME NEW t \in OSThread
        PROVE  Owner[running[t]] = t /\ pc'[running[t]] \notin {"none", "done"}
    BY <1>3 DEF IInv, TypeOK, ExecInv
  <2>2. ASSUME NEW v \in UThread
        PROVE  /\ pc'[v] \in {"wake", "signal", "write", "exit"} => running[Owner[v]] = v
               /\ inDown[v] \in Sem => pc'[v] = "wait"
               /\ pc'[v] = "wait" => inDown[v] \in Sem
    <3>1. /\ pc[v] \in {"wake", "signal", "write", "exit"} => running[Owner[v]] = v
          /\ inDown[v] \in Sem => pc[v] = "wait"
          /\ pc[v] = "wait" => inDown[v] \in Sem
      BY Zenon DEF IInv, ExecInv
    <3> QED
      BY <3>1, Zenon DEF Busy
  <2> QED
    BY <2>1, <2>2, Zenon DEF ExecInv
<1> QED
  BY <1>4, <1>5, <1>6, <1>7, <1>8, <1>9, Zenon

\* A step of a UThread whose OS thread is awake leaves the sleeping ones alone.
LEMMA AwakeStep ==
    ASSUME IInv, NEW u \in UThread, idle[Owner[u]] = "no", UNCHANGED <<running, idle>>,
           \A v \in UThread : v # u => pc'[v] = pc[v]
    PROVE  \A t \in OSThread : idle'[t] # "no" => pc'[running[t]] \in {"wait", "exit", "main"}
<1> SUFFICES ASSUME NEW t \in OSThread, idle[t] # "no"
             PROVE  pc'[running[t]] \in {"wait", "exit", "main"}
  BY Zenon
<1>1. running[t] \in UThread
  BY Zenon DEF IInv, TypeOK
<1>2. Owner[running[t]] = t /\ pc[running[t]] \in {"wait", "exit", "main"}
  BY Zenon DEF IInv, ExecInv
<1> QED
  BY <1>1, <1>2, Zenon


----------------------------------------------------------------------------
(***************************************************************************)
(* The steps that switch no context.                                       *)
(***************************************************************************)

\* The return of a UThread's function preserves the invariant.
LEMMA ReturnIInv ==
    ASSUME IInv, NEW u \in UThread, Return(u)
    PROVE  IInv'
<1>1. /\ pc' \in [UThread -> PC]
      /\ \A v \in UThread : v # u => pc'[v] = pc[v]
      /\ pc[u] = "user" /\ pc'[u] \in {"main", "exit"}
      /\ running[Owner[u]] = u /\ idle[Owner[u]] = "no"
      /\ UNCHANGED <<signaled, eventfd, count, waiting, running, ready,
                     aliveCount, target, inDown, idle, ops>>
  BY Zenon DEF Return, At, IInv, TypeOK, PC, condVars, semaVars
<1>2. TypeOK'
  BY <1>1, Zenon DEF IInv, TypeOK, CondTypeOK
<1>3. \A r \in OSThread : idle'[r] # "no" => pc'[running[r]] \in {"wait", "exit", "main"}
  BY <1>1, AwakeStep, Zenon
<1>4. /\ WaitingInv' /\ TransitInv' /\ ReadyInv' /\ NoneLost' /\ ExecInv'
      /\ AliveCountExact'
  BY <1>1, <1>3, QuietIInv, Zenon DEF Busy
<1>5. FlagInv'
  BY <1>1 DEF IInv, FlagInv
<1>6. NoLostWakeup'
  BY <1>1, Zenon DEF IInv, NoLostWakeup, WakeComing
<1>7. NoOvertaking'
  BY <1>1, Zenon DEF IInv, NoOvertaking
<1> QED
  BY <1>2, <1>3, <1>4, <1>5, <1>6, <1>7, Zenon DEF IInv

\* The compare-and-swap of IOCondition::signal preserves the invariant.
LEMMA ReportWakeIInv ==
    ASSUME IInv, NEW u \in UThread, ReportWake(u)
    PROVE  IInv'
<1> DEFINE t == Owner[target[u]]
<1>1. /\ t \in OSThread
      /\ pc' \in [UThread -> PC] /\ target' \in [UThread -> UThread]
      /\ signaled' \in [OSThread -> {0, 1}]
      /\ \A v \in UThread : v # u => pc'[v] = pc[v] /\ target'[v] = target[v]
      /\ \A r \in OSThread : r # t => signaled'[r] = signaled[r]
      /\ pc[u] = "signal"
      /\ \/ signaled[t] = 0 /\ pc'[u] = "write" /\ target'[u] = target[u]
         \/ signaled[t] = 1 /\ signaled'[t] = 1 /\ pc'[u] = "user"
      /\ running[Owner[u]] = u /\ idle[Owner[u]] = "no"
      /\ UNCHANGED <<eventfd, count, waiting, running, ready, aliveCount,
                     inDown, idle, ops>>
  <2>1. /\ pc \in [UThread -> PC] /\ target \in [UThread -> UThread]
        /\ signaled \in [OSThread -> {0, 1}]
    BY ZenonT(30) DEF IInv, TypeOK, CondTypeOK
  <2>2. /\ t \in OSThread /\ pc[u] = "signal"
        /\ running[Owner[u]] = u /\ idle[Owner[u]] = "no"
        /\ UNCHANGED <<eventfd, count, waiting, running, ready, aliveCount,
                       inDown, idle, ops>>
    BY <2>1, Zenon DEF ReportWake, SignalWins, SignalLoses, At, condVars, semaVars
  <2>3. CASE SignalWins(t) /\ pc' = [pc EXCEPT ![u] = "write"] /\ UNCHANGED target
    BY <2>1, <2>2, <2>3, Zenon DEF SignalWins, PC
  <2>4. CASE SignalLoses(t) /\ Woken(u)
    BY <2>1, <2>2, <2>4, Zenon DEF SignalLoses, Woken, PC, condVars
  <2> QED
    BY <2>3, <2>4, ZenonT(30) DEF ReportWake
<1>2. TypeOK'
  BY <1>1, ZenonT(30) DEF IInv, TypeOK, CondTypeOK
<1>3. \A r \in OSThread : idle'[r] # "no" => pc'[running[r]] \in {"wait", "exit", "main"}
  BY <1>1, AwakeStep, ZenonT(30)
<1>4. /\ WaitingInv' /\ TransitInv' /\ ReadyInv' /\ NoneLost' /\ ExecInv'
      /\ AliveCountExact'
  BY <1>1, <1>3, QuietIInv, ZenonT(30) DEF Busy
<1>5. ASSUME NEW r \in OSThread
      PROVE  /\ signaled'[r] = 1 => \/ eventfd[r] > 0
                                    \/ \E v \in UThread : pc'[v] = "write" /\ Owner[target'[v]] = r
                                    \/ idle[r] = "clear"
             /\ idle[r] = "poll" /\ ready[r] # <<>> => WakeComing(r)'
  <2>1. /\ signaled[r] = 1 => \/ eventfd[r] > 0
                              \/ \E v \in UThread : pc[v] = "write" /\ Owner[target[v]] = r
                              \/ idle[r] = "clear"
        /\ idle[r] = "poll" /\ ready[r] # <<>> => WakeComing(r)
    BY ZenonT(30) DEF IInv, FlagInv, NoLostWakeup
  <2>2. CASE r # t
    BY <1>1, <2>1, <2>2, ZenonT(30) DEF WakeComing
  <2>3. CASE r = t /\ pc'[u] = "write"
    BY <1>1, <2>3, Zenon DEF WakeComing
  <2>4. CASE r = t /\ signaled[t] = 1
    BY <1>1, <2>1, <2>4, SMTT(60) DEF WakeComing
  <2> QED
    BY <1>1, <2>2, <2>3, <2>4, ZenonT(30)
<1>6. FlagInv' /\ NoLostWakeup'
  BY <1>1, <1>5, Zenon DEF FlagInv, NoLostWakeup
<1>7. NoOvertaking'
  BY <1>1, Zenon DEF IInv, NoOvertaking
<1> QED
  BY <1>2, <1>4, <1>6, <1>7, ZenonT(30) DEF IInv

\* The write of IOCondition::signal preserves the invariant.
LEMMA WriteEventfdIInv ==
    ASSUME IInv, NEW u \in UThread, WriteEventfd(u)
    PROVE  IInv'
<1> DEFINE t == Owner[target[u]]
<1>1. /\ t \in OSThread
      /\ pc' \in [UThread -> PC] /\ target' \in [UThread -> UThread]
      /\ \A v \in UThread : v # u => pc'[v] = pc[v] /\ target'[v] = target[v]
      /\ pc[u] = "write" /\ pc'[u] = "user"
      /\ running[Owner[u]] = u /\ idle[Owner[u]] = "no"
      /\ UNCHANGED <<signaled, count, waiting, running, ready, aliveCount,
                     inDown, idle, ops>>
  BY ZenonT(30) DEF WriteEventfd, SignalWrite, Woken, At, IInv, TypeOK, PC, semaVars
<1>a. /\ eventfd' \in [OSThread -> Nat]
      /\ eventfd'[t] > 0
      /\ \A r \in OSThread : r # t => eventfd'[r] = eventfd[r]
  <2>1. /\ eventfd \in [OSThread -> Nat]
        /\ eventfd' = [eventfd EXCEPT ![t] = @ + 1]
    BY Zenon DEF WriteEventfd, SignalWrite, IInv, TypeOK, CondTypeOK
  <2>2. eventfd[t] \in Nat
    BY <1>1, <2>1, Zenon
  <2> QED
    BY <1>1, <2>1, <2>2
<1>2. TypeOK'
  BY <1>1, <1>a, ZenonT(30) DEF IInv, TypeOK, CondTypeOK
<1>3. \A r \in OSThread : idle'[r] # "no" => pc'[running[r]] \in {"wait", "exit", "main"}
  BY <1>1, AwakeStep, ZenonT(30)
<1>4. /\ WaitingInv' /\ TransitInv' /\ ReadyInv' /\ NoneLost' /\ ExecInv'
      /\ AliveCountExact'
  BY <1>1, <1>3, QuietIInv, ZenonT(30) DEF Busy
<1>5. FlagInv'
  <2> SUFFICES ASSUME NEW r \in OSThread, signaled[r] = 1
               PROVE  \/ eventfd'[r] > 0
                      \/ \E v \in UThread : pc'[v] = "write" /\ Owner[target'[v]] = r
                      \/ idle[r] = "clear"
    BY <1>1, Zenon DEF FlagInv
  <2>1. \/ eventfd[r] > 0
        \/ \E v \in UThread : pc[v] = "write" /\ Owner[target[v]] = r
        \/ idle[r] = "clear"
    BY ZenonT(30) DEF IInv, FlagInv
  <2> QED
    BY <1>1, <1>a, <2>1, ZenonT(30)
<1>6. NoLostWakeup'
  <2> SUFFICES ASSUME NEW r \in OSThread, idle[r] = "poll", ready[r] # <<>>
               PROVE  WakeComing(r)'
    BY <1>1, Zenon DEF NoLostWakeup
  <2>1. WakeComing(r)
    BY Zenon DEF IInv, NoLostWakeup
  <2> QED
    BY <1>1, <1>a, <2>1, ZenonT(30) DEF WakeComing
<1>7. NoOvertaking'
  BY <1>1, Zenon DEF IInv, NoOvertaking
<1> QED
  BY <1>2, <1>3, <1>4, <1>5, <1>6, <1>7, Zenon DEF IInv

\* Falling asleep in waitForWork, from wait, exit or threadMain, preserves the
\* invariant.
LEMMA SleepIInv ==
    ASSUME IInv, NEW u \in UThread, running[Owner[u]] = u, idle[Owner[u]] = "no",
           pc[u] \in {"wait", "exit", "main"}, Sleep(u)
    PROVE  IInv'
<1>1. /\ idle' \in [OSThread -> Idle]
      /\ \A r \in OSThread : r # Owner[u] => idle'[r] = idle[r]
      /\ ready[Owner[u]] = <<>>
      /\ UNCHANGED <<signaled, eventfd, count, waiting, running, ready,
                     aliveCount, pc, target, inDown, ops>>
  BY Zenon DEF Sleep, IInv, TypeOK, Idle, condVars, semaVars
<1>2. TypeOK'
  BY <1>1, Zenon DEF IInv, TypeOK, CondTypeOK
<1>3. \A r \in OSThread : idle'[r] # "no" => pc'[running[r]] \in {"wait", "exit", "main"}
  BY <1>1, ZenonT(30) DEF IInv, TypeOK, ExecInv
<1>4. /\ WaitingInv' /\ TransitInv' /\ ReadyInv' /\ NoneLost' /\ ExecInv'
      /\ AliveCountExact'
  BY <1>1, <1>3, QuietIInv, ZenonT(30)
<1>5. FlagInv'
  BY <1>1, ZenonT(30) DEF IInv, FlagInv
<1>6. NoLostWakeup'
  BY <1>1 DEF IInv, NoLostWakeup, WakeComing
<1>7. NoOvertaking'
  BY <1>1, ZenonT(30) DEF IInv, NoOvertaking
<1> QED
  BY <1>2, <1>3, <1>4, <1>5, <1>6, <1>7, Zenon DEF IInv

\* The steps of IOCondition::doWait preserve the invariant.
LEMMA DoWaitIInv ==
    ASSUME IInv, NEW t \in OSThread, DoWait(t) \/ PollOther(t)
    PROVE  IInv'
<1>1. /\ idle' \in [OSThread -> Idle]
      /\ signaled' \in [OSThread -> {0, 1}]
      /\ eventfd' \in [OSThread -> Nat]
      /\ \A r \in OSThread : r # t => /\ idle'[r] = idle[r]
                                      /\ signaled'[r] = signaled[r]
                                      /\ eventfd'[r] = eventfd[r]
      /\ \/ idle'[t] = "read" /\ idle[t] = "poll" /\ eventfd'[t] = eventfd[t]
                              /\ signaled'[t] = signaled[t]
         \/ idle'[t] = "clear"
         \/ idle'[t] = "no" /\ signaled'[t] = 0
      /\ idle[t] # "no"
      /\ UNCHANGED <<count, waiting, running, ready, aliveCount, pc, target,
                     inDown, ops>>
  <2>1. /\ idle \in [OSThread -> Idle]
        /\ signaled \in [OSThread -> {0, 1}]
        /\ eventfd \in [OSThread -> Nat]
    BY ZenonT(30) DEF IInv, TypeOK, CondTypeOK
  <2>2. CASE PollEvent(t)
    BY <2>1, <2>2, Zenon DEF PollEvent, IdleStep, PollSeesEvent, Idle, condVars, semaVars
  <2>3. CASE PollOther(t)
    BY <2>1, <2>3, Zenon DEF PollOther, IdleStep, PollSeesOther, Idle, condVars, semaVars
  <2>4. CASE Drain(t)
    BY <2>1, <2>4, Zenon DEF Drain, IdleStep, ReadEventfd, Idle, semaVars
  <2>5. CASE Rearm(t)
    BY <2>1, <2>5, Zenon DEF Rearm, IdleStep, ClearSignaled, Idle, semaVars
  <2> QED
    BY <2>2, <2>3, <2>4, <2>5, ZenonT(30) DEF DoWait
<1>2. TypeOK'
  BY <1>1, ZenonT(30) DEF IInv, TypeOK, CondTypeOK
<1>3. \A r \in OSThread : idle'[r] # "no" => pc'[running[r]] \in {"wait", "exit", "main"}
  BY <1>1, ZenonT(30) DEF IInv, TypeOK, ExecInv
<1>4. /\ WaitingInv' /\ TransitInv' /\ ReadyInv' /\ NoneLost' /\ ExecInv'
      /\ AliveCountExact'
  BY <1>1, <1>3, QuietIInv, ZenonT(30)
<1>5. FlagInv'
  BY <1>1, SMTT(60) DEF IInv, FlagInv
<1>6. NoLostWakeup'
  <2> SUFFICES ASSUME NEW r \in OSThread, idle'[r] = "poll", ready[r] # <<>>
               PROVE  WakeComing(r)'
    BY <1>1, Zenon DEF NoLostWakeup
  <2>1. r # t /\ WakeComing(r)
    BY <1>1, ZenonT(30) DEF IInv, NoLostWakeup
  <2> QED
    BY <1>1, <2>1, Zenon DEF WakeComing
<1>7. NoOvertaking'
  BY <1>1, ZenonT(30) DEF IInv, NoOvertaking
<1> QED
  BY <1>2, <1>3, <1>4, <1>5, <1>6, <1>7, ZenonT(30) DEF IInv

\* A UThread that calls the library runs in its own code.
LEMMA CallsFacts ==
    ASSUME IInv, NEW u \in UThread, Calls(u)
    PROVE  /\ pc[u] = "user" /\ running[Owner[u]] = u /\ idle[Owner[u]] = "no"
           /\ ops' \in [UThread -> 0 .. MaxOps]
<1>1. ops \in [UThread -> 0 .. MaxOps] /\ ops[u] > 0 /\ ops' = [ops EXCEPT ![u] = @ - 1]
  BY Zenon DEF Calls, IInv, TypeOK
<1>2. ops[u] \in 0 .. MaxOps
  BY <1>1, Zenon
<1>3. ops[u] - 1 \in 0 .. MaxOps
  BY <1>1, <1>2
<1> QED
  BY <1>1, <1>3, Zenon DEF Calls, At

\* Sema::down preserves the invariant.
LEMMA DownIInv ==
    ASSUME IInv, NEW u \in UThread, NEW s \in Sem, Down(u, s)
    PROVE  IInv'
<1>1. /\ pc[u] = "user" /\ running[Owner[u]] = u /\ idle[Owner[u]] = "no"
      /\ ops' \in [UThread -> 0 .. MaxOps]
      /\ UNCHANGED <<signaled, eventfd, running, ready, aliveCount, target, idle>>
  BY CallsFacts, Zenon DEF Down, condVars
<1>2. CASE DownTakes(s) /\ UNCHANGED <<pc, inDown>>
  <2>1. /\ count' \in [Sem -> Nat] /\ UNCHANGED waiting
        /\ \A q \in Sem : count'[q] > 0 => count[q] > 0
    <3>1. count \in [Sem -> Nat] /\ count[s] > 0 /\ count' = [count EXCEPT ![s] = @ - 1]
      BY <1>2, Zenon DEF DownTakes, IInv, TypeOK
    <3>2. count[s] - 1 \in Nat
      BY <3>1
    <3> QED
      BY <1>2, <3>1, <3>2, Zenon DEF DownTakes
  <2>2. TypeOK'
    BY <1>1, <1>2, <2>1, ZenonT(30) DEF IInv, TypeOK, CondTypeOK
  <2>3. /\ WaitingInv' /\ TransitInv' /\ ReadyInv' /\ NoneLost' /\ ExecInv'
        /\ AliveCountExact'
    BY <1>1, <1>2, <2>1, AwakeStep, QuietIInv, ZenonT(30)
  <2>4. FlagInv'
    BY <1>1, <1>2, ZenonT(30) DEF IInv, FlagInv
  <2>5. NoLostWakeup'
    BY <1>1, <1>2, Zenon DEF IInv, NoLostWakeup, WakeComing
  <2>6. NoOvertaking'
    BY <2>1, Zenon DEF IInv, NoOvertaking
  <2> QED
    BY <2>2, <2>3, <2>4, <2>5, <2>6, Zenon DEF IInv
<1>3. CASE /\ DownQueues(s, u)
           /\ pc' = [pc EXCEPT ![u] = "wait"]
           /\ inDown' = [inDown EXCEPT ![u] = s]
  <2>1. /\ pc' \in [UThread -> PC] /\ inDown' \in [UThread -> Sem \cup {NoSem}]
        /\ pc'[u] = "wait" /\ inDown'[u] = s
        /\ \A v \in UThread : v # u => pc'[v] = pc[v] /\ inDown'[v] = inDown[v]
        /\ count[s] = 0 /\ UNCHANGED count
    BY <1>3, ZenonT(30) DEF DownQueues, IInv, TypeOK, PC
  <2>2. /\ \A q \in Sem : ~In(u, waiting[q])
        /\ ~In(u, ready[Owner[u]])
        /\ \A w \in UThread : ~InTransit(w, u)
    BY <1>1, ZenonT(30) DEF IInv, WaitingInv, TransitInv, ReadyInv
  <2>3. /\ waiting' \in [Sem -> Seq(UThread)]
        /\ \A q \in Sem : q # s => waiting'[q] = waiting[q]
        /\ \A x : In(x, waiting'[s]) <=> In(x, waiting[s]) \/ x = u
        /\ NoDuplicates(waiting'[s])
    <3>1. /\ waiting \in [Sem -> Seq(UThread)]
          /\ waiting' = [waiting EXCEPT ![s] = Append(waiting[s], u)]
          /\ NoDuplicates(waiting[s])
      BY <1>3, Zenon DEF DownQueues, IInv, TypeOK, WaitingInv
    <3>2. /\ waiting[s] \in Seq(UThread)
          /\ waiting'[s] = Append(waiting[s], u)
          /\ \A q \in Sem : q # s => waiting'[q] = waiting[q]
      BY <3>1, Zenon
    <3>3. /\ Append(waiting[s], u) \in Seq(UThread)
          /\ \A x : In(x, Append(waiting[s], u)) <=> In(x, waiting[s]) \/ x = u
          /\ NoDuplicates(Append(waiting[s], u))
      BY <2>2, <3>1, <3>2, InAppend, ZenonT(30)
    <3> QED
      BY <3>1, <3>2, <3>3, Zenon
  <2>4. \A w, v \in UThread : InTransit(w, v)' <=> InTransit(w, v)
    BY <1>1, <2>1, Zenon DEF InTransit
  <2>5. TypeOK'
    BY <1>1, <2>1, <2>3, ZenonT(30) DEF IInv, TypeOK, CondTypeOK
  <2>6. WaitingInv'
    <3>1. ASSUME NEW q \in Sem, NEW v \in UThread, In(v, waiting'[q])
          PROVE  /\ pc'[v] = "wait" /\ inDown'[v] = q
                 /\ ~In(v, ready[Owner[v]])
                 /\ \A w \in UThread : ~InTransit(w, v)'
      <4>1. CASE v = u
        BY <2>1, <2>2, <2>3, <2>4, <3>1, <4>1, ZenonT(30)
      <4>2. CASE v # u
        <5>1. In(v, waiting[q])
          BY <2>3, <3>1, <4>2, ZenonT(30)
        <5>2. /\ pc[v] = "wait" /\ inDown[v] = q
              /\ ~In(v, ready[Owner[v]])
              /\ \A w \in UThread : ~InTransit(w, v)
          BY <5>1, ZenonT(30) DEF IInv, WaitingInv
        <5> QED
          BY <2>1, <2>4, <4>2, <5>2, Zenon
      <4> QED
        BY <4>1, <4>2, ZenonT(30)
    <3>2. \A q \in Sem : NoDuplicates(waiting'[q])
      BY <2>3, ZenonT(30) DEF IInv, WaitingInv
    <3> QED
      BY <1>1, <3>1, <3>2, ZenonT(30) DEF WaitingInv
  <2>7. TransitInv'
    <3> SUFFICES ASSUME NEW w \in UThread, NEW v \in UThread, InTransit(w, v)
                 PROVE  /\ pc'[v] = "wait" /\ ~In(v, ready[Owner[v]])
                        /\ \A x \in UThread : InTransit(x, v) => x = w
      BY <1>1, <2>4, ZenonT(30) DEF TransitInv
    <3> QED
      BY <2>1, ZenonT(30) DEF IInv, TransitInv
  <2>8. ReadyInv'
    BY <1>1, <2>1, <2>2, SMTT(60) DEF IInv, ReadyInv
  <2>9. NoneLost'
    <3> SUFFICES ASSUME NEW v \in UThread
                 PROVE  \/ pc'[v] \in {"none", "done"}
                        \/ running[Owner[v]] = v /\ pc'[v] # "wait"
                        \/ In(v, ready[Owner[v]])
                        \/ pc'[v] = "wait" /\ inDown'[v] # NoSem /\ In(v, waiting'[inDown'[v]])
                        \/ \E w \in UThread : InTransit(w, v)'
      BY <1>1, ZenonT(30) DEF NoneLost
    <3>1. CASE v = u
      BY <2>1, <2>3, <3>1, ZenonT(30)
    <3>2. CASE v # u
      <4>1. \/ pc[v] \in {"none", "done"}
            \/ running[Owner[v]] = v /\ pc[v] # "wait"
            \/ In(v, ready[Owner[v]])
            \/ pc[v] = "wait" /\ inDown[v] # NoSem /\ In(v, waiting[inDown[v]])
            \/ \E w \in UThread : InTransit(w, v)
        BY ZenonT(30) DEF IInv, NoneLost
      <4>2. inDown[v] \in Sem \cup {NoSem}
        BY Zenon DEF IInv, TypeOK
      <4>3. inDown[v] # NoSem /\ In(v, waiting[inDown[v]]) => In(v, waiting'[inDown[v]])
        BY <2>3, <4>2, ZenonT(30)
      <4> QED
        BY <2>1, <2>4, <3>2, <4>1, <4>3, ZenonT(30)
    <3> QED
      BY <3>1, <3>2, ZenonT(30)
  <2>10. ExecInv'
    <3>1. \A t \in OSThread : idle'[t] # "no" => pc'[running[t]] \in {"wait", "exit", "main"}
      BY <1>1, <2>1, AwakeStep, Zenon
    <3>2. \A t \in OSThread : Owner[running[t]] = t /\ pc'[running[t]] \notin {"none", "done"}
      BY <2>1, SMTT(60) DEF IInv, TypeOK, ExecInv
    <3>3. ASSUME NEW v \in UThread
          PROVE  /\ pc'[v] \in {"wake", "signal", "write", "exit"} => running[Owner[v]] = v
                 /\ inDown'[v] \in Sem => pc'[v] = "wait"
                 /\ pc'[v] = "wait" => inDown'[v] \in Sem
      BY <2>1, ZenonT(30) DEF IInv, ExecInv
    <3> QED
      BY <1>1, <3>1, <3>2, <3>3, ZenonT(30) DEF ExecInv
  <2>11. FlagInv'
    BY <1>1, <2>1, SMTT(60) DEF IInv, FlagInv
  <2>12. NoLostWakeup'
    BY <1>1, <2>1, ZenonT(30) DEF IInv, NoLostWakeup, WakeComing
  <2>13. NoOvertaking'
    <3> SUFFICES ASSUME NEW q \in Sem, count'[q] > 0
                 PROVE  waiting'[q] = <<>>
      BY ZenonT(30) DEF NoOvertaking
    <3>1. count[q] > 0 /\ q # s
      BY <2>1, SMT
    <3>2. waiting[q] = <<>>
      BY <3>1, ZenonT(30) DEF IInv, NoOvertaking
    <3> QED
      BY <2>3, <3>1, <3>2, ZenonT(30)
  <2>14. AliveCountExact'
    BY <1>1, <2>1, AliveSame, Zenon DEF IInv
  <2> QED
    BY <2>5, <2>6, <2>7, <2>8, <2>9, <2>10, <2>11, <2>12, <2>13, <2>14, ZenonT(30) DEF IInv
<1> QED
  BY <1>2, <1>3, Zenon DEF Down

\* Sema::up, up to the call of UThreadState::wake, preserves the invariant.
LEMMA UpIInv ==
    ASSUME IInv, NEW u \in UThread, NEW s \in Sem, Up(u, s)
    PROVE  IInv'
<1>1. /\ pc[u] = "user" /\ running[Owner[u]] = u /\ idle[Owner[u]] = "no"
      /\ ops' \in [UThread -> 0 .. MaxOps]
      /\ UNCHANGED <<signaled, eventfd, running, ready, aliveCount, inDown, idle>>
  BY CallsFacts, ZenonT(30) DEF Up, condVars
<1>2. CASE UpCounts(s) /\ UNCHANGED <<pc, target>>
  <2>1. /\ count' \in [Sem -> Nat] /\ UNCHANGED waiting
        /\ \A q \in Sem : q # s => count'[q] = count[q]
        /\ waiting[s] = <<>>
    <3>1. count \in [Sem -> Nat] /\ count' = [count EXCEPT ![s] = @ + 1]
      BY <1>2, Zenon DEF UpCounts, IInv, TypeOK
    <3>2. count[s] + 1 \in Nat
      BY <3>1
    <3> QED
      BY <1>2, <3>1, <3>2, Zenon DEF UpCounts
  <2>2. TypeOK'
    BY <1>1, <1>2, <2>1, ZenonT(30) DEF IInv, TypeOK, CondTypeOK
  <2>3. /\ WaitingInv' /\ TransitInv' /\ ReadyInv' /\ NoneLost' /\ ExecInv'
        /\ AliveCountExact'
    BY <1>1, <1>2, <2>1, AwakeStep, QuietIInv, ZenonT(30)
  <2>4. FlagInv'
    BY <1>1, <1>2, ZenonT(30) DEF IInv, FlagInv
  <2>5. NoLostWakeup'
    BY <1>1, <1>2, Zenon DEF IInv, NoLostWakeup, WakeComing
  <2>6. NoOvertaking'
    BY <2>1, ZenonT(30) DEF IInv, NoOvertaking
  <2> QED
    BY <2>2, <2>3, <2>4, <2>5, <2>6, Zenon DEF IInv
<1>3. CASE /\ UpHandsOver(s)
           /\ pc' = [pc EXCEPT ![u] = "wake"]
           /\ target' = [target EXCEPT ![u] = Head(waiting[s])]
  <2> DEFINE h == Head(waiting[s])
  <2>1. /\ h \in UThread /\ In(h, waiting[s])
        /\ waiting' \in [Sem -> Seq(UThread)]
        /\ \A q \in Sem : q # s => waiting'[q] = waiting[q]
        /\ \A x : In(x, waiting'[s]) <=> In(x, waiting[s]) /\ x # h
        /\ NoDuplicates(waiting'[s])
        /\ UNCHANGED count
    <3>1. /\ waiting \in [Sem -> Seq(UThread)] /\ waiting[s] # <<>>
          /\ waiting' = [waiting EXCEPT ![s] = Tail(waiting[s])]
          /\ NoDuplicates(waiting[s])
          /\ UNCHANGED count
      BY <1>3, Zenon DEF UpHandsOver, IInv, TypeOK, WaitingInv
    <3>2. /\ waiting[s] \in Seq(UThread)
          /\ waiting'[s] = Tail(waiting[s])
          /\ \A q \in Sem : q # s => waiting'[q] = waiting[q]
      BY <3>1, Zenon
    <3>3. /\ h \in UThread /\ In(h, waiting[s])
          /\ Tail(waiting[s]) \in Seq(UThread)
          /\ \A x : In(x, Tail(waiting[s])) <=> In(x, waiting[s]) /\ x # h
          /\ NoDuplicates(Tail(waiting[s]))
      BY <3>1, <3>2, InTail, Zenon
    <3> QED
      BY <3>1, <3>2, <3>3, Zenon
  <2> HIDE DEF h
  <2>2. /\ pc' \in [UThread -> PC] /\ target' \in [UThread -> UThread]
        /\ pc'[u] = "wake" /\ target'[u] = h
        /\ \A v \in UThread : v # u => pc'[v] = pc[v] /\ target'[v] = target[v]
    BY <1>3, <2>1, ZenonT(30) DEF IInv, TypeOK, PC, h
  <2>3. /\ pc[h] = "wait" /\ inDown[h] = s
        /\ ~In(h, ready[Owner[h]])
        /\ \A w \in UThread : ~InTransit(w, h)
    BY <2>1, Zenon DEF IInv, WaitingInv
  <2>4. \A w, v \in UThread : InTransit(w, v)' <=> InTransit(w, v) \/ (w = u /\ v = h)
    BY <1>1, <2>2, ZenonT(30) DEF InTransit
  <2>5. TypeOK'
    BY <1>1, <2>1, <2>2, ZenonT(30) DEF IInv, TypeOK, CondTypeOK
  <2>6. WaitingInv'
    <3>1. ASSUME NEW q \in Sem, NEW v \in UThread, In(v, waiting'[q])
          PROVE  /\ pc'[v] = "wait" /\ inDown[v] = q
                 /\ ~In(v, ready[Owner[v]])
                 /\ \A w \in UThread : ~InTransit(w, v)'
      <4>1. In(v, waiting[q]) /\ (q = s => v # h)
        BY <2>1, <3>1, ZenonT(30)
      <4>2. /\ pc[v] = "wait" /\ inDown[v] = q
            /\ ~In(v, ready[Owner[v]])
            /\ \A w \in UThread : ~InTransit(w, v)
        BY <4>1, ZenonT(30) DEF IInv, WaitingInv
      <4> QED
        BY <1>1, <2>2, <2>3, <2>4, <4>1, <4>2, ZenonT(30)
    <3>2. \A q \in Sem : NoDuplicates(waiting'[q])
      BY <2>1, Zenon DEF IInv, WaitingInv
    <3> QED
      BY <1>1, <3>1, <3>2, ZenonT(30) DEF WaitingInv
  <2>7. TransitInv'
    <3> SUFFICES ASSUME NEW w \in UThread, NEW v \in UThread, InTransit(w, v)'
                 PROVE  /\ pc'[v] = "wait" /\ ~In(v, ready[Owner[v]])
                        /\ \A x \in UThread : InTransit(x, v)' => x = w
      BY <1>1, ZenonT(30) DEF TransitInv
    <3>1. CASE v = h
      BY <1>1, <2>1, <2>2, <2>3, <2>4, <3>1, ZenonT(30)
    <3>2. CASE v # h
      <4>1. /\ pc[v] = "wait" /\ ~In(v, ready[Owner[v]])
            /\ \A x \in UThread : InTransit(x, v) => x = w
        BY <2>4, <3>2, ZenonT(30) DEF IInv, TransitInv
      <4> QED
        BY <1>1, <2>2, <2>4, <3>2, <4>1, ZenonT(30)
    <3> QED
      BY <3>1, <3>2, ZenonT(30)
  <2>8. ReadyInv'
    <3>1. ASSUME NEW t \in OSThread, NEW v \in UThread, In(v, ready[t])
          PROVE  /\ Owner[v] = t /\ pc'[v] \in {"user", "main", "wait"}
                 /\ running[t] = v => pc'[v] = "wait"
      BY <1>1, <2>2, <3>1, SMTT(60) DEF IInv, ReadyInv
    <3> QED
      BY <1>1, <3>1, ZenonT(30) DEF IInv, ReadyInv
  <2>9. NoneLost'
    <3> SUFFICES ASSUME NEW v \in UThread
                 PROVE  \/ pc'[v] \in {"none", "done"}
                        \/ running[Owner[v]] = v /\ pc'[v] # "wait"
                        \/ In(v, ready[Owner[v]])
                        \/ pc'[v] = "wait" /\ inDown[v] # NoSem /\ In(v, waiting'[inDown[v]])
                        \/ \E w \in UThread : InTransit(w, v)'
      BY <1>1, ZenonT(30) DEF NoneLost
    <3>1. CASE v = u
      BY <1>1, <2>2, <3>1, ZenonT(30)
    <3>2. CASE v = h
      BY <2>4, <3>2, ZenonT(30)
    <3>3. CASE v # u /\ v # h
      <4>1. \/ pc[v] \in {"none", "done"}
            \/ running[Owner[v]] = v /\ pc[v] # "wait"
            \/ In(v, ready[Owner[v]])
            \/ pc[v] = "wait" /\ inDown[v] # NoSem /\ In(v, waiting[inDown[v]])
            \/ \E w \in UThread : InTransit(w, v)
        BY ZenonT(30) DEF IInv, NoneLost
      <4>2. inDown[v] \in Sem \cup {NoSem}
        BY Zenon DEF IInv, TypeOK
      <4>3. inDown[v] # NoSem /\ In(v, waiting[inDown[v]]) => In(v, waiting'[inDown[v]])
        BY <2>1, <3>3, <4>2, ZenonT(30)
      <4> QED
        BY <2>2, <2>4, <3>3, <4>1, <4>3, ZenonT(30)
    <3> QED
      BY <3>1, <3>2, <3>3, ZenonT(30)
  <2>10. ExecInv'
    <3>1. \A t \in OSThread : idle'[t] # "no" => pc'[running[t]] \in {"wait", "exit", "main"}
      BY <1>1, <2>2, AwakeStep, Zenon
    <3>2. \A t \in OSThread : Owner[running[t]] = t /\ pc'[running[t]] \notin {"none", "done"}
      BY <2>2, SMTT(60) DEF IInv, TypeOK, ExecInv
    <3>3. ASSUME NEW v \in UThread
          PROVE  /\ pc'[v] \in {"wake", "signal", "write", "exit"} => running[Owner[v]] = v
                 /\ inDown[v] \in Sem => pc'[v] = "wait"
                 /\ pc'[v] = "wait" => inDown[v] \in Sem
      BY <1>1, <2>2, SMTT(60) DEF IInv, ExecInv
    <3> QED
      BY <1>1, <3>1, <3>2, <3>3, ZenonT(30) DEF ExecInv
  <2>11. FlagInv'
    BY <1>1, <2>2 DEF IInv, FlagInv
  <2>12. NoLostWakeup'
    <3> SUFFICES ASSUME NEW t \in OSThread, idle[t] = "poll", ready[t] # <<>>
                 PROVE  WakeComing(t)'
      BY <1>1, ZenonT(30) DEF NoLostWakeup
    <3>1. WakeComing(t)
      BY ZenonT(30) DEF IInv, NoLostWakeup
    <3> QED
      BY <1>1, <2>2, <3>1, ZenonT(30) DEF WakeComing
  <2>13. NoOvertaking'
    <3>1. waiting[s] # <<>>
      BY <1>3, ZenonT(30) DEF UpHandsOver
    <3> QED
      BY <2>1, <3>1, ZenonT(30) DEF IInv, NoOvertaking
  <2>14. AliveCountExact'
    BY <1>1, <2>2, AliveSame, ZenonT(30) DEF IInv
  <2> QED
    BY <2>5, <2>6, <2>7, <2>8, <2>9, <2>10, <2>11, <2>12, <2>13, <2>14, Zenon DEF IInv
<1> QED
  BY <1>2, <1>3, Zenon DEF Up

\* Pushing v onto the ready list of its OS thread, as wake and insert do, keeps
\* the lists disjoint and brings a signal on its way.
LEMMA PushIInv ==
    ASSUME IInv, NEW u \in UThread, NEW v \in UThread,
           running[Owner[u]] = u, idle[Owner[u]] = "no",
           \/ pc[u] = "wake" /\ target[u] = v /\ pc[v] = "wait" /\ pc'[v] = "wait"
           \/ pc[u] = "user" /\ pc[v] = "none" /\ pc'[v] = "user",
           pc'[u] = "signal", target'[u] = v,
           \A w \in UThread : w # u /\ w # v => pc'[w] = pc[w],
           \A w \in UThread : w # u => target'[w] = target[w],
           ready' = [ready EXCEPT ![Owner[v]] = Append(@, v)],
           UNCHANGED <<signaled, eventfd, count, waiting, running, inDown, idle>>
    PROVE  /\ ready' \in [OSThread -> Seq(UThread)]
           /\ WaitingInv' /\ TransitInv' /\ ReadyInv' /\ NoneLost' /\ ExecInv'
           /\ FlagInv' /\ NoLostWakeup' /\ NoOvertaking'
<1> DEFINE t == Owner[v]
<1>1. /\ ~In(v, ready[t])
      /\ running[t] = v => pc'[v] = "wait"
      /\ \A s \in Sem : ~In(v, waiting[s])
      /\ t \in OSThread
  <2>1. CASE pc[u] = "wake" /\ target[u] = v /\ pc'[v] = "wait"
    <3>1. InTransit(u, v)
      BY <2>1, ZenonT(30) DEF InTransit
    <3> QED
      BY <2>1, <3>1, ZenonT(30) DEF IInv, TransitInv, WaitingInv
  <2>2. CASE pc[v] = "none"
    BY <2>2, SMTT(60) DEF IInv, ReadyInv, WaitingInv, ExecInv
  <2> QED
    BY <2>1, <2>2, ZenonT(30)
<1>2. /\ ready' \in [OSThread -> Seq(UThread)]
      /\ \A r \in OSThread : r # t => ready'[r] = ready[r]
      /\ \A x : In(x, ready'[t]) <=> In(x, ready[t]) \/ x = v
      /\ \A r \in OSThread : NoDuplicates(ready'[r])
  <2>1. /\ ready \in [OSThread -> Seq(UThread)]
        /\ \A r \in OSThread : NoDuplicates(ready[r])
    BY ZenonT(30) DEF IInv, TypeOK, ReadyInv
  <2>2. /\ ready[t] \in Seq(UThread)
        /\ ready'[t] = Append(ready[t], v)
        /\ \A r \in OSThread : r # t => ready'[r] = ready[r]
    BY <1>1, <2>1, ZenonT(30)
  <2>3. /\ Append(ready[t], v) \in Seq(UThread)
        /\ \A x : In(x, Append(ready[t], v)) <=> In(x, ready[t]) \/ x = v
        /\ NoDuplicates(Append(ready[t], v))
    BY <1>1, <2>1, <2>2, InAppend, SMTT(60)
  <2> QED
    BY <1>1, <2>1, <2>2, <2>3, ZenonT(30)
<1> HIDE DEF t
<1>3. /\ \A w, x \in UThread : InTransit(w, x)' => InTransit(w, x) /\ x # v
      /\ \A w, x \in UThread : InTransit(w, x) /\ x # v => InTransit(w, x)'
  <2>1. ASSUME NEW w \in UThread, NEW x \in UThread, InTransit(w, x)'
        PROVE  InTransit(w, x) /\ x # v
    <3>1. w # u /\ w # v /\ InTransit(w, x)
      BY <2>1, ZenonT(30) DEF InTransit
    <3>2. CASE pc[u] = "wake" /\ target[u] = v
      <4>1. InTransit(u, v)
        BY <3>2, ZenonT(30) DEF InTransit
      <4> QED
        BY <3>1, <4>1 DEF IInv, TransitInv
    <3>3. CASE pc[v] = "none"
      BY <3>1, <3>3, ZenonT(30) DEF IInv, TransitInv
    <3> QED
      BY <3>2, <3>3, ZenonT(30)
  <2>2. ASSUME NEW w \in UThread, NEW x \in UThread, InTransit(w, x), x # v
        PROVE  InTransit(w, x)'
    BY <2>2, ZenonT(30) DEF InTransit
  <2> QED
    BY <2>1, <2>2, ZenonT(30)
<1>4. \A w \in UThread : pc[w] = "wait" => pc'[w] = "wait"
  BY ZenonT(30)
<1>5. WaitingInv'
  <2>1. ASSUME NEW s \in Sem, NEW x \in UThread, In(x, waiting[s])
        PROVE  /\ pc'[x] = "wait" /\ inDown[x] = s
               /\ ~In(x, ready'[Owner[x]])
               /\ \A w \in UThread : ~InTransit(w, x)'
    <3>1. /\ pc[x] = "wait" /\ inDown[x] = s
          /\ ~In(x, ready[Owner[x]])
          /\ \A w \in UThread : ~InTransit(w, x)
      BY <2>1, ZenonT(30) DEF IInv, WaitingInv
    <3>2. x # v /\ Owner[x] \in OSThread
      BY <1>1, <2>1, ZenonT(30)
    <3> QED
      BY <1>2, <1>3, <1>4, <3>1, <3>2, ZenonT(30)
  <2> QED
    BY <2>1, SMTT(60) DEF IInv, WaitingInv
<1>6. TransitInv'
  <2> SUFFICES ASSUME NEW w \in UThread, NEW x \in UThread, InTransit(w, x)'
               PROVE  /\ pc'[x] = "wait" /\ ~In(x, ready'[Owner[x]])
                      /\ \A y \in UThread : InTransit(y, x)' => y = w
    BY ZenonT(30) DEF TransitInv
  <2>1. InTransit(w, x) /\ x # v /\ Owner[x] \in OSThread
    BY <1>3, ZenonT(30)
  <2>2. /\ pc[x] = "wait" /\ ~In(x, ready[Owner[x]])
        /\ \A y \in UThread : InTransit(y, x) => y = w
    BY <2>1, ZenonT(30) DEF IInv, TransitInv
  <2> QED
    BY <1>2, <1>3, <1>4, <2>1, <2>2, ZenonT(30)
<1>7. ReadyInv'
  <2>1. ASSUME NEW r \in OSThread, NEW x \in UThread, In(x, ready'[r])
        PROVE  /\ Owner[x] = r
               /\ pc'[x] \in {"user", "main", "wait"}
               /\ running[r] = x => pc'[x] = "wait"
    <3>1. CASE r = t /\ x = v
      BY <1>1, <3>1, Zenon DEF t
    <3>2. CASE In(x, ready[r]) /\ x # v
      <4>1. /\ Owner[x] = r
            /\ pc[x] \in {"user", "main", "wait"}
            /\ running[r] = x => pc[x] = "wait"
        BY <3>2, ZenonT(30) DEF IInv, ReadyInv
      <4> QED
        BY <3>2, <4>1, ZenonT(30)
    <3>3. CASE In(x, ready[r]) /\ x = v /\ r # t
      BY <3>3, ZenonT(30) DEF IInv, ReadyInv, t
    <3> QED
      BY <1>2, <2>1, <3>1, <3>2, <3>3, ZenonT(30)
  <2> QED
    BY <1>2, <2>1, SMTT(60) DEF ReadyInv
<1>8. NoneLost'
  <2> SUFFICES ASSUME NEW x \in UThread
               PROVE  \/ pc'[x] \in {"none", "done"}
                      \/ running[Owner[x]] = x /\ pc'[x] # "wait"
                      \/ In(x, ready'[Owner[x]])
                      \/ pc'[x] = "wait" /\ inDown[x] # NoSem /\ In(x, waiting[inDown[x]])
                      \/ \E w \in UThread : InTransit(w, x)'
    BY ZenonT(30) DEF NoneLost
  <2>1. CASE x = u
    BY <2>1, ZenonT(30)
  <2>2. CASE x = v
    BY <1>2, <2>2, ZenonT(30) DEF t
  <2>3. CASE x # u /\ x # v
    <3>1. \/ pc[x] \in {"none", "done"}
          \/ running[Owner[x]] = x /\ pc[x] # "wait"
          \/ In(x, ready[Owner[x]])
          \/ pc[x] = "wait" /\ inDown[x] # NoSem /\ In(x, waiting[inDown[x]])
          \/ \E w \in UThread : InTransit(w, x)
      BY ZenonT(30) DEF IInv, NoneLost
    <3>2. In(x, ready[Owner[x]]) => In(x, ready'[Owner[x]])
      BY <1>2, ZenonT(30)
    <3> QED
      BY <1>3, <2>3, <3>1, <3>2, ZenonT(30)
  <2> QED
    BY <2>1, <2>2, <2>3, ZenonT(30)
<1>9. ExecInv'
  <2>1. ASSUME NEW r \in OSThread
        PROVE  /\ Owner[running[r]] = r
               /\ pc'[running[r]] \notin {"none", "done"}
               /\ idle[r] # "no" => pc'[running[r]] \in {"wait", "exit", "main"}
    <3>1. /\ running[r] \in UThread
          /\ Owner[running[r]] = r
          /\ pc[running[r]] \notin {"none", "done"}
          /\ idle[r] # "no" => pc[running[r]] \in {"wait", "exit", "main"}
      BY ZenonT(30) DEF IInv, TypeOK, ExecInv
    <3> QED
      BY <3>1, ZenonT(30)
  <2>2. ASSUME NEW x \in UThread
        PROVE  /\ pc'[x] \in {"wake", "signal", "write", "exit"} => running[Owner[x]] = x
               /\ inDown[x] \in Sem => pc'[x] = "wait"
               /\ pc'[x] = "wait" => inDown[x] \in Sem
    BY SMTT(60) DEF IInv, ExecInv
  <2> QED
    BY <2>1, <2>2, ZenonT(30) DEF ExecInv
<1>10. FlagInv'
  BY SMTT(60) DEF IInv, FlagInv
<1>11. NoLostWakeup'
  <2> SUFFICES ASSUME NEW r \in OSThread, idle[r] = "poll", ready'[r] # <<>>
               PROVE  WakeComing(r)'
    BY Zenon DEF NoLostWakeup
  <2>1. CASE r = t
    BY <2>1, ZenonT(30) DEF WakeComing, t
  <2>2. CASE r # t
    <3>1. WakeComing(r)
      BY <1>2, <2>2, Zenon DEF IInv, NoLostWakeup
    <3> QED
      BY <3>1, ZenonT(30) DEF WakeComing
  <2> QED
    BY <2>1, <2>2, ZenonT(30)
<1>12. NoOvertaking'
  BY ZenonT(30) DEF IInv, NoOvertaking
<1> QED
  BY <1>2, <1>5, <1>6, <1>7, <1>8, <1>9, <1>10, <1>11, <1>12, ZenonT(30)

\* The push of UThreadState::wake preserves the invariant.
LEMMA WakeIInv ==
    ASSUME IInv, NEW u \in UThread, Wake(u)
    PROVE  IInv'
<1> DEFINE v == target[u]
<1>1. /\ v \in UThread /\ pc[u] = "wake"
      /\ running[Owner[u]] = u /\ idle[Owner[u]] = "no"
      /\ ready' = [ready EXCEPT ![Owner[v]] = Append(@, v)]
      /\ pc' \in [UThread -> PC] /\ pc'[u] = "signal"
      /\ \A w \in UThread : w # u => pc'[w] = pc[w]
      /\ UNCHANGED <<signaled, eventfd, count, waiting, running, aliveCount, target,
                     inDown, idle, ops>>
  BY ZenonT(30) DEF Wake, At, IInv, TypeOK, PC, condVars, semaVars
<1>2. pc[v] = "wait" /\ pc'[v] = "wait"
  <2>1. InTransit(u, v)
    BY <1>1, ZenonT(30) DEF InTransit
  <2> QED
    BY <1>1, <2>1, ZenonT(30) DEF IInv, TransitInv
<1>3. /\ ready' \in [OSThread -> Seq(UThread)]
      /\ WaitingInv' /\ TransitInv' /\ ReadyInv' /\ NoneLost' /\ ExecInv'
      /\ FlagInv' /\ NoLostWakeup' /\ NoOvertaking'
  BY <1>1, <1>2, PushIInv, ZenonT(30)
<1>4. AliveCountExact'
  BY <1>1, AliveSame, ZenonT(30) DEF IInv
<1>5. TypeOK'
  BY <1>1, <1>3, ZenonT(30) DEF IInv, TypeOK, CondTypeOK
<1> QED
  BY <1>3, <1>4, <1>5, Zenon DEF IInv

\* UThread::spawn preserves the invariant; in particular aliveCount is raised
\* with the UThread that becomes alive.
LEMMA InsertIInv ==
    ASSUME IInv, NEW u \in UThread, NEW v \in UThread, Insert(u, v)
    PROVE  IInv'
<1>1. /\ pc[u] = "user" /\ running[Owner[u]] = u /\ idle[Owner[u]] = "no"
      /\ ops' \in [UThread -> 0 .. MaxOps]
      /\ pc[v] = "none"
      /\ ready' = [ready EXCEPT ![Owner[v]] = Append(@, v)]
      /\ aliveCount' = [aliveCount EXCEPT ![Owner[v]] = @ + 1]
      /\ pc' = [pc EXCEPT ![u] = "signal", ![v] = "user"]
      /\ target' = [target EXCEPT ![u] = v]
      /\ UNCHANGED <<signaled, eventfd, count, waiting, running, inDown, idle>>
  BY CallsFacts, Zenon DEF Insert, condVars, semaVars
<1>2. /\ pc' \in [UThread -> PC] /\ target' \in [UThread -> UThread]
      /\ pc'[u] = "signal" /\ pc'[v] = "user" /\ target'[u] = v
      /\ \A w \in UThread : w # u /\ w # v => pc'[w] = pc[w]
      /\ \A w \in UThread : w # u => target'[w] = target[w]
  BY <1>1, ZenonT(30) DEF IInv, TypeOK, PC
<1>3. /\ ready' \in [OSThread -> Seq(UThread)]
      /\ WaitingInv' /\ TransitInv' /\ ReadyInv' /\ NoneLost' /\ ExecInv'
      /\ FlagInv' /\ NoLostWakeup' /\ NoOvertaking'
  <2>1. /\ pc[u] = "user" /\ running[Owner[u]] = u /\ idle[Owner[u]] = "no"
        /\ pc[v] = "none"
        /\ ready' = [ready EXCEPT ![Owner[v]] = Append(@, v)]
        /\ UNCHANGED <<signaled, eventfd, count, waiting, running, inDown, idle>>
    BY <1>1, ZenonT(30)
  <2> QED
    BY <1>2, <2>1, PushIInv, ZenonT(30)
<1>4. /\ aliveCount' \in [OSThread -> Nat]
      /\ \A t \in OSThread : aliveCount'[t] = IF t = Owner[v] THEN aliveCount[t] + 1
                                                              ELSE aliveCount[t]
  <2>1. aliveCount \in [OSThread -> Nat] /\ Owner[v] \in OSThread
    BY Zenon DEF IInv, TypeOK
  <2>2. aliveCount[Owner[v]] + 1 \in Nat
    BY <2>1
  <2> QED
    BY <1>1, <2>1, <2>2, Zenon
<1>5. AliveCountExact'
  <2> SUFFICES ASSUME NEW t \in OSThread
               PROVE  aliveCount'[t] = Cardinality(Alive(t)')
    BY Zenon DEF AliveCountExact
  <2>1. aliveCount[t] = Cardinality(Alive(t))
    BY Zenon DEF IInv, AliveCountExact
  <2>2. CASE t = Owner[v]
    <3>1. Alive(t)' = Alive(t) \cup {v} /\ v \notin Alive(t)
      BY <1>1, <1>2, <2>2, SMTT(60) DEF Alive
    <3>2. IsFiniteSet(Alive(t))
      BY AliveFinite, Zenon
    <3>3. Cardinality(Alive(t) \cup {v}) = Cardinality(Alive(t)) + 1
      BY <3>1, <3>2, FS_AddElement, ZenonT(30)
    <3>4. aliveCount'[t] = aliveCount[t] + 1
      BY <1>4, <2>2, Zenon
    <3> QED
      BY <2>1, <3>1, <3>3, <3>4, ZenonT(30)
  <2>3. CASE t # Owner[v]
    <3>1. Alive(t)' = Alive(t)
      BY <1>1, <1>2, <2>3, SMTT(60) DEF Alive
    <3> QED
      BY <1>4, <2>1, <2>3, <3>1, ZenonT(30)
  <2> QED
    BY <2>2, <2>3, Zenon
<1>6. TypeOK'
  BY <1>1, <1>2, <1>3, <1>4, ZenonT(30) DEF IInv, TypeOK, CondTypeOK
<1> QED
  BY <1>3, <1>5, <1>6, ZenonT(30) DEF IInv

\* The context switches that end no UThread preserve the invariant.
LEMMA YieldIInv ==
    ASSUME IInv, NEW u \in UThread, NEW l, NEW rest,
           \/ l = pc[u] /\ l \in {"user", "main"} /\ rest = Rotated(u)
           \/ l = pc[u] /\ l = "wait" /\ rest = Popped(u),
           running[Owner[u]] = u, idle[Owner[u]] = "no", SwitchFrom(u, l, rest),
           UNCHANGED <<condVars, semaVars, aliveCount, target, idle>>,
           ops' \in [UThread -> 0 .. MaxOps]
    PROVE  IInv'
<1>1. /\ ready' \in [OSThread -> Seq(UThread)]
      /\ running' \in [OSThread -> UThread]
      /\ pc' \in [UThread -> PC]
      /\ inDown' \in [UThread -> Sem \cup {NoSem}]
      /\ WaitingInv' /\ TransitInv' /\ ReadyInv' /\ NoneLost' /\ ExecInv'
      /\ FlagInv' /\ NoLostWakeup' /\ NoOvertaking'
      /\ \A v \in UThread : v # u => (pc'[v] \in {"none", "done"} <=> pc[v] \in {"none", "done"})
      /\ pc'[u] \in {"none", "done"} <=> l = "done"
  <2>1. CASE l = pc[u] /\ l \in {"user", "main"} /\ rest = Rotated(u)
    BY <2>1, SwitchIInv, ZenonT(30)
  <2>2. CASE l = pc[u] /\ l = "wait" /\ rest = Popped(u)
    <3>1. SwitchFrom(u, "wait", Popped(u)) /\ pc[u] = "wait" /\ l # "done"
      BY <2>2, ZenonT(30)
    <3>2. /\ ready' \in [OSThread -> Seq(UThread)]
          /\ running' \in [OSThread -> UThread]
          /\ pc' \in [UThread -> PC]
          /\ inDown' \in [UThread -> Sem \cup {NoSem}]
          /\ WaitingInv' /\ TransitInv' /\ ReadyInv' /\ NoneLost' /\ ExecInv'
          /\ FlagInv' /\ NoLostWakeup' /\ NoOvertaking'
          /\ \A v \in UThread : v # u => (pc'[v] \in {"none", "done"} <=> pc[v] \in {"none", "done"})
          /\ pc'[u] \in {"none", "done"} <=> "wait" = "done"
      BY <3>1, SwitchIInv, ZenonT(30)
    <3> QED
      BY <3>1, <3>2, ZenonT(30)
  <2> QED
    BY <2>1, <2>2, ZenonT(30)
<1>2. AliveCountExact'
  BY <1>1, AliveSame, ZenonT(30) DEF IInv
<1>3. TypeOK'
  BY <1>1, ZenonT(30) DEF IInv, TypeOK, CondTypeOK, condVars, semaVars
<1> QED
  BY <1>1, <1>2, <1>3, ZenonT(30) DEF IInv

\* UThreadState::leave preserves the invariant.
LEMMA LeaveIInv ==
    ASSUME IInv, NEW u \in UThread, Leave(u)
    PROVE  IInv'
  BY CallsFacts, YieldIInv, ZenonT(30) DEF Leave

\* UThreadState::wait preserves the invariant.
LEMMA WaitIInv ==
    ASSUME IInv, NEW u \in UThread, Wait(u)
    PROVE  IInv'
<1>1. ops \in [UThread -> 0 .. MaxOps]
  BY ZenonT(30) DEF IInv, TypeOK
<1> QED
  BY <1>1, SleepIInv, YieldIInv, Zenon DEF Wait, At

\* The last loop of ThreadData::threadMain preserves the invariant.
LEMMA MainLoopIInv ==
    ASSUME IInv, NEW u \in UThread, MainLoop(u)
    PROVE  IInv'
<1>1. ops \in [UThread -> 0 .. MaxOps]
  BY Zenon DEF IInv, TypeOK
<1> QED
  BY <1>1, SleepIInv, YieldIInv, Zenon DEF MainLoop, At

\* UThreadState::exit preserves the invariant: aliveCount is lowered with the
\* UThread that is switched away from for good.
LEMMA ExitIInv ==
    ASSUME IInv, NEW u \in UThread, Exit(u)
    PROVE  IInv'
<1>1. running[Owner[u]] = u /\ idle[Owner[u]] = "no" /\ pc[u] = "exit"
  BY ZenonT(30) DEF Exit, At
<1>2. CASE Sleep(u)
  BY <1>1, <1>2, SleepIInv, Zenon
<1>3. CASE /\ SwitchFrom(u, "done", Popped(u))
           /\ aliveCount' = [aliveCount EXCEPT ![Owner[u]] = @ - 1]
           /\ UNCHANGED <<condVars, semaVars, target, idle, ops>>
  <2>1. /\ ready' \in [OSThread -> Seq(UThread)]
        /\ running' \in [OSThread -> UThread]
        /\ pc' \in [UThread -> PC]
        /\ inDown' \in [UThread -> Sem \cup {NoSem}]
        /\ WaitingInv' /\ TransitInv' /\ ReadyInv' /\ NoneLost' /\ ExecInv'
        /\ FlagInv' /\ NoLostWakeup' /\ NoOvertaking'
        /\ \A v \in UThread : v # u => (pc'[v] \in {"none", "done"} <=> pc[v] \in {"none", "done"})
        /\ pc'[u] \in {"none", "done"}
    BY <1>1, <1>3, SwitchIInv, ZenonT(30)
  <2>2. /\ aliveCount \in [OSThread -> Nat]
        /\ \A t \in OSThread : aliveCount[t] = Cardinality(Alive(t))
    BY Zenon DEF IInv, TypeOK, AliveCountExact
  <2>3. ASSUME NEW t \in OSThread
        PROVE  aliveCount'[t] = Cardinality(Alive(t)') /\ aliveCount'[t] \in Nat
    <3>1. CASE t = Owner[u]
      <4>1. Alive(t)' = Alive(t) \ {u} /\ u \in Alive(t)
        BY <1>1, <2>1, <3>1, ZenonT(30) DEF Alive
      <4>2. Cardinality(Alive(t)') = Cardinality(Alive(t)) - 1
        BY <4>1, AliveFinite, FS_RemoveElement, ZenonT(30)
      <4>3. IsFiniteSet(Alive(t)')
        BY <4>1, AliveFinite, FS_RemoveElement, Zenon
      <4>4. Cardinality(Alive(t)') \in Nat
        BY <4>3, FS_CardinalityType, Zenon
      <4>5. aliveCount'[t] = aliveCount[t] - 1
        BY <1>3, <2>2, <3>1, Zenon
      <4> QED
        BY <2>2, <4>2, <4>4, <4>5, ZenonT(30)
    <3>2. CASE t # Owner[u]
      <4>1. Alive(t)' = Alive(t)
        BY <2>1, <3>2, Zenon DEF Alive
      <4> QED
        BY <1>3, <2>2, <3>2, <4>1, Zenon
    <3> QED
      BY <3>1, <3>2, Zenon
  <2>4. AliveCountExact'
    BY <2>3, Zenon DEF AliveCountExact
  <2>5. aliveCount' \in [OSThread -> Nat]
    BY <1>3, <2>2, <2>3, ZenonT(30)
  <2>6. TypeOK'
    BY <1>3, <2>1, <2>5, ZenonT(30) DEF IInv, TypeOK, CondTypeOK, condVars, semaVars
  <2> QED
    BY <2>1, <2>4, <2>6, ZenonT(30) DEF IInv
<1> QED
  BY <1>2, <1>3, ZenonT(30) DEF Exit

\* Every step of the scheduler preserves the invariant.
LEMMA NextIInv == IInv /\ [Next]_vars => IInv'
<1> SUFFICES ASSUME IInv, [Next]_vars
             PROVE  IInv'
  BY Zenon
<1>1. ASSUME NEW u \in UThread, UThreadStep(u)
      PROVE  IInv'
  BY <1>1, DownIInv, UpIInv, InsertIInv, LeaveIInv, ReturnIInv, WakeIInv,
     ReportWakeIInv, WriteEventfdIInv, WaitIInv, ExitIInv, MainLoopIInv, Zenon DEF UThreadStep
<1>2. ASSUME NEW t \in OSThread, DoWait(t) \/ PollOther(t)
      PROVE  IInv'
  BY <1>2, DoWaitIInv, ZenonT(30)
<1>3. CASE UNCHANGED vars
  BY <1>3, SMTT(60) DEF vars, condVars, semaVars, schedVars, IInv, TypeOK, CondTypeOK,
     WaitingInv, TransitInv, InTransit, ReadyInv, NoneLost, ExecInv, FlagInv,
     NoLostWakeup, WakeComing, NoOvertaking, AliveCountExact, Alive
<1> QED
  BY <1>1, <1>2, <1>3, Zenon DEF Next

\* The scheduler, the semaphores and the conditions keep IInv for any number of
\* OS threads, UThreads and semaphores.
THEOREM Invariance == Spec => []IInv
  BY InitIInv, NextIInv, PTL DEF Spec

\* Every variable keeps its type.
THEOREM TypeCorrect == Spec => []TypeOK
<1>1. IInv => TypeOK
  BY Zenon DEF IInv
<1> QED
  BY <1>1, Invariance, PTL

\* The intrusive lists of OS/UThread.cpp and OS/Sync.cpp never share an element.
THEOREM ListsDisjoint == Spec => []OneList
<1>1. IInv => OneList
  BY Zenon DEF IInv, OneList
<1> QED
  BY <1>1, Invariance, PTL

\* No UThread drops out of the scheduler: Sema::up, UThreadState::wake and the
\* context switches always leave it where somebody will find it.
THEOREM NobodyLost == Spec => []NoneLost
<1>1. IInv => NoneLost
  BY Zenon DEF IInv
<1> QED
  BY <1>1, Invariance, PTL

\* An OS thread does not block in poll with work on its ready list unless a
\* signal is on its way.
THEOREM WakeupsArrive == Spec => []NoLostWakeup
<1>1. IInv => NoLostWakeup
  BY Zenon DEF IInv
<1> QED
  BY <1>1, Invariance, PTL

\* A semaphore never has tokens and waiters at the same time.
THEOREM NobodyOvertakes == Spec => []NoOvertaking
<1>1. IInv => NoOvertaking
  BY Zenon DEF IInv
<1> QED
  BY <1>1, Invariance, PTL

\* aliveCount is exact whenever no critical section is half done.
THEOREM AliveCounted == Spec => []AliveCountExact
<1>1. IInv => AliveCountExact
  BY Zenon DEF IInv
<1> QED
  BY <1>1, Invariance, PTL


----------------------------------------------------------------------------
(***************************************************************************)
(* os::Sema, running on the scheduler of UThreadState, is a counting       *)
(* semaphore: every step of the detailed specification is a step of        *)
(* AbstractSema or leaves its state alone.  The mapping counts a token     *)
(* that up() has handed to a waiter until that waiter runs again.          *)
(***************************************************************************)

Value == [s \in Sem |-> count[s] + Cardinality(Granted(s))]

\* The waiters that hold a token can be counted.
LEMMA GrantedFinite == \A s \in Sem : IsFiniteSet(Granted(s))
  BY FS_Subset, Zenon DEF Granted

\* The number of tokens is a natural number, and changes exactly when the count
\* or the set of granted UThreads does.
LEMMA ValueNat ==
    ASSUME TypeOK, NEW s \in Sem
    PROVE  /\ Cardinality(Granted(s)) \in Nat
           /\ Value[s] = count[s] + Cardinality(Granted(s))
           /\ count[s] \in Nat
  BY GrantedFinite, FS_CardinalityType, Zenon DEF Value, TypeOK

\* Steps that touch neither the counts nor the queues nor inDown are invisible.
LEMMA Invisible ==
    ASSUME UNCHANGED <<count, waiting, inDown>>
    PROVE  UNCHANGED <<Value, inDown>>
  BY Zenon DEF Value, Granted

\* In the initial state nobody is blocked and all tokens are free.
LEMMA InitRefines == Init => Abstract!Init
<1> SUFFICES ASSUME Init
             PROVE  Value = InitCount /\ inDown = [p \in UThread |-> NoSem]
  BY Zenon DEF Abstract!Init, Value
<1>1. inDown = [p \in UThread |-> NoSem]
  BY Zenon DEF Init
<1>2. \A s \in Sem : Granted(s) = {}
  BY <1>1, Zenon DEF Granted
<1>3. \A s \in Sem : count[s] + Cardinality(Granted(s)) = InitCount[s]
  <2>1. count = InitCount
    BY Zenon DEF Init, SemaInit
  <2>2. Cardinality({}) = 0
    BY FS_EmptySet, Zenon
  <2> QED
    BY <1>2, <2>1, <2>2
<1> QED
  BY <1>1, <1>3, Zenon DEF Value

\* A context switch to next is the moment next's down() completes, if it was in
\* one.
LEMMA SwitchRefines ==
    ASSUME IInv, NEW u \in UThread, NEW l, NEW rest, SwitchFrom(u, l, rest),
           UNCHANGED semaVars
    PROVE  [Abstract!Next]_(Abstract!vars)
<1> DEFINE next == Head(ready[Owner[u]])
<1>1. next \in UThread /\ In(next, ready[Owner[u]])
  <2>1. ready[Owner[u]] \in Seq(UThread) /\ ready[Owner[u]] # <<>>
    BY Zenon DEF SwitchFrom, IInv, TypeOK
  <2>2. NoDuplicates(ready[Owner[u]])
    BY Zenon DEF IInv, ReadyInv
  <2> QED
    BY <2>1, <2>2, InTail, Zenon
<1>2. /\ inDown' = [inDown EXCEPT ![next] = NoSem]
      /\ UNCHANGED <<count, waiting>>
      /\ inDown \in [UThread -> Sem \cup {NoSem}]
  BY ZenonT(30) DEF SwitchFrom, semaVars, IInv, TypeOK
<1> HIDE DEF next
<1>3. \A s \in Sem : ~In(next, waiting[s])
  BY <1>1 DEF IInv, WaitingInv, ReadyInv
<1>4. CASE inDown[next] = NoSem
  <2>1. inDown' = inDown
    BY <1>1, <1>2, <1>4, Zenon
  <2> QED
    BY <1>2, <2>1, Invisible, Zenon DEF Abstract!vars, Value
<1>5. CASE inDown[next] \in Sem
  <2> PICK q \in Sem : q = inDown[next]
    BY <1>5, Zenon
  <2>1. /\ Granted(q)' = Granted(q) \ {next}
        /\ next \in Granted(q)
        /\ \A s \in Sem : s # q => Granted(s)' = Granted(s)
    <3>1. /\ inDown'[next] = NoSem /\ NoSem \notin Sem
          /\ \A v \in UThread : v # next => inDown'[v] = inDown[v]
          /\ waiting' = waiting
      BY <1>1, <1>2, Zenon
    <3>2. \A s \in Sem : Granted(s)' = Granted(s) \ {next}
      BY <3>1 DEF Granted
    <3>3. \A s \in Sem : next \in Granted(s) <=> s = q
      BY <1>1, <1>3, <1>5, Zenon DEF Granted
    <3>4. ASSUME NEW s \in Sem, s # q
          PROVE  Granted(s) \ {next} = Granted(s)
      BY <3>3, <3>4, Zenon
    <3> QED
      BY <3>2, <3>3, <3>4, ZenonT(30)
  <2>2. /\ Cardinality(Granted(q)') = Cardinality(Granted(q)) - 1
        /\ IsFiniteSet(Granted(q)')
    BY <2>1, GrantedFinite, FS_RemoveElement
  <2>3. Cardinality(Granted(q)') \in Nat
    BY <2>2, FS_CardinalityType, Zenon
  <2>4. /\ Cardinality(Granted(q)) \in Nat
        /\ Value[q] = count[q] + Cardinality(Granted(q))
        /\ count[q] \in Nat
    BY ValueNat, Zenon DEF IInv
  <2>5. Value[q] > 0
    BY <2>2, <2>3, <2>4
  <2>6. ASSUME NEW s \in Sem
        PROVE  count[s] + Cardinality(Granted(s)') = IF s = q THEN Value[q] - 1 ELSE Value[s]
    <3>1. CASE s = q
      BY <2>2, <2>4, <3>1
    <3>2. CASE s # q
      <4>1. Granted(s)' = Granted(s) /\ Value[s] = count[s] + Cardinality(Granted(s))
        BY <2>1, <3>2, Zenon DEF Value
      <4> QED
        BY <3>2, <4>1, Zenon
    <3> QED
      BY <3>1, <3>2, Zenon
  <2>7. Value' = [Value EXCEPT ![q] = @ - 1]
    BY <1>2, <2>6, Zenon DEF Value
  <2>8. Abstract!Unblock(next, q)
    BY <1>2, <2>5, <2>7, Zenon DEF Abstract!Unblock, Value
  <2> QED
    BY <1>1, <2>8, Zenon DEF Abstract!Next
<1> QED
  BY <1>1, <1>2, <1>4, <1>5, Zenon

\* Sema::down acquires a token at once or blocks.
LEMMA DownRefines ==
    ASSUME IInv, NEW u \in UThread, NEW s \in Sem, Down(u, s)
    PROVE  [Abstract!Next]_(Abstract!vars)
<1>1. inDown[u] = NoSem /\ inDown \in [UThread -> Sem \cup {NoSem}] /\ count \in [Sem -> Nat]
  BY CallsFacts, SMTT(30) DEF Down, IInv, TypeOK, ExecInv
<1>2. CASE DownTakes(s) /\ UNCHANGED <<pc, inDown>>
  <2>1. /\ \A q \in Sem : Granted(q)' = Granted(q)
        /\ count' = [count EXCEPT ![s] = @ - 1] /\ count[s] > 0
    BY <1>2, Zenon DEF DownTakes, Granted
  <2>2. ASSUME NEW q \in Sem
        PROVE  count'[q] + Cardinality(Granted(q)') = IF q = s THEN Value[s] - 1 ELSE Value[q]
    BY <1>1, <2>1, ValueNat DEF IInv
  <2>3. Value' = [Value EXCEPT ![s] = @ - 1]
    BY <2>2, ZenonT(30) DEF Value
  <2>4. Value[s] > 0
    BY <2>1, ValueNat DEF IInv
  <2>5. Abstract!Acquire(u, s)
    BY <1>1, <1>2, <2>3, <2>4, Zenon DEF Abstract!Acquire, Value
  <2> QED
    BY <2>5, Zenon DEF Abstract!Next
<1>3. CASE DownQueues(s, u) /\ inDown' = [inDown EXCEPT ![u] = s]
  <2>1. \A q \in Sem : \A x : In(x, waiting'[q]) <=> In(x, waiting[q]) \/ (q = s /\ x = u)
    <3>1. /\ waiting \in [Sem -> Seq(UThread)]
          /\ waiting' = [waiting EXCEPT ![s] = Append(waiting[s], u)]
      BY <1>3, Zenon DEF DownQueues, IInv, TypeOK
    <3>2. /\ waiting[s] \in Seq(UThread)
          /\ waiting'[s] = Append(waiting[s], u)
          /\ \A q \in Sem : q # s => waiting'[q] = waiting[q]
      BY <3>1, Zenon
    <3>3. \A x : In(x, Append(waiting[s], u)) <=> In(x, waiting[s]) \/ x = u
      BY <3>2, InAppend, Zenon
    <3>4. ASSUME NEW q \in Sem, NEW x
          PROVE  In(x, waiting'[q]) <=> In(x, waiting[q]) \/ (q = s /\ x = u)
      <4>1. CASE q = s
        BY <3>2, <3>3, <4>1, ZenonT(30)
      <4>2. CASE q # s
        BY <3>2, <4>2, ZenonT(30)
      <4> QED
        BY <4>1, <4>2, ZenonT(30)
    <3> QED
      BY <3>4, ZenonT(30)
  <2>2. \A q \in Sem : Granted(q)' = Granted(q)
    BY <1>1, <1>3, <2>1, Zenon DEF Granted
  <2>3. UNCHANGED count
    BY <1>3, Zenon DEF DownQueues
  <2>4. Value' = Value
    BY <2>2, <2>3, Zenon DEF Value
  <2>5. Abstract!Block(u, s)
    BY <1>1, <1>3, <2>4, Zenon DEF Abstract!Block, Value
  <2> QED
    BY <2>5, Zenon DEF Abstract!Next
<1> QED
  BY <1>2, <1>3, Zenon DEF Down

\* Sema::up releases one token, whether it counts it or hands it over.
LEMMA UpRefines ==
    ASSUME IInv, NEW u \in UThread, NEW s \in Sem, Up(u, s)
    PROVE  [Abstract!Next]_(Abstract!vars)
<1>1. UNCHANGED inDown /\ count \in [Sem -> Nat]
  BY Zenon DEF Up, IInv, TypeOK
<1>2. CASE UpCounts(s)
  <2>1. /\ \A q \in Sem : Granted(q)' = Granted(q)
        /\ count' = [count EXCEPT ![s] = @ + 1]
    BY <1>1, <1>2, Zenon DEF UpCounts, Granted
  <2>2. ASSUME NEW q \in Sem
        PROVE  count'[q] + Cardinality(Granted(q)') = IF q = s THEN Value[s] + 1 ELSE Value[q]
    BY <1>1, <2>1, ValueNat DEF IInv
  <2>3. Value' = [Value EXCEPT ![s] = @ + 1]
    BY <2>2, ZenonT(30) DEF Value
  <2>4. Abstract!Release(s)
    BY <1>1, <2>3, Zenon DEF Abstract!Release, Value
  <2> QED
    BY <2>4, Zenon DEF Abstract!Next
<1>3. CASE UpHandsOver(s)
  <2> DEFINE h == Head(waiting[s])
  <2>1. /\ h \in UThread /\ In(h, waiting[s])
        /\ \A q \in Sem : q # s => waiting'[q] = waiting[q]
        /\ \A x : In(x, waiting'[s]) <=> In(x, waiting[s]) /\ x # h
        /\ UNCHANGED count
    <3>1. /\ waiting \in [Sem -> Seq(UThread)] /\ waiting[s] # <<>>
          /\ waiting' = [waiting EXCEPT ![s] = Tail(waiting[s])]
          /\ NoDuplicates(waiting[s])
          /\ UNCHANGED count
      BY <1>3, Zenon DEF UpHandsOver, IInv, TypeOK, WaitingInv
    <3>2. /\ waiting[s] \in Seq(UThread)
          /\ waiting'[s] = Tail(waiting[s])
          /\ \A q \in Sem : q # s => waiting'[q] = waiting[q]
      BY <3>1, Zenon
    <3> QED
      BY <3>1, <3>2, InTail, Zenon
  <2> HIDE DEF h
  <2>2. inDown[h] = s
    BY <2>1, Zenon DEF IInv, WaitingInv
  <2>3. /\ Granted(s)' = Granted(s) \cup {h} /\ h \notin Granted(s)
        /\ \A q \in Sem : q # s => Granted(q)' = Granted(q)
    BY <1>1, <2>1, <2>2, Zenon DEF Granted
  <2>4. Cardinality(Granted(s)') = Cardinality(Granted(s)) + 1
    BY <2>3, GrantedFinite, FS_AddElement, ZenonT(30)
  <2>5. ASSUME NEW q \in Sem
        PROVE  count'[q] + Cardinality(Granted(q)') = IF q = s THEN Value[s] + 1 ELSE Value[q]
    <3>1. /\ Cardinality(Granted(q)) \in Nat
          /\ Value[q] = count[q] + Cardinality(Granted(q))
          /\ count[q] \in Nat
      BY ValueNat, Zenon DEF IInv
    <3>2. CASE q = s
      BY <2>1, <2>4, <3>1, <3>2
    <3>3. CASE q # s
      <4>1. Granted(q)' = Granted(q) /\ count' = count
        BY <2>1, <2>3, <3>3, Zenon
      <4> QED
        BY <3>1, <3>3, <4>1, Zenon
    <3> QED
      BY <3>2, <3>3, Zenon
  <2>6. Value' = [Value EXCEPT ![s] = @ + 1]
    BY <2>5, ZenonT(30) DEF Value
  <2>7. Abstract!Release(s)
    BY <1>1, <2>6, Zenon DEF Abstract!Release, Value
  <2> QED
    BY <2>7, Zenon DEF Abstract!Next
<1> QED
  BY <1>2, <1>3, Zenon DEF Up

\* Every step of the scheduler is a step of the abstract semaphores or a stutter.
LEMMA NextRefines ==
    ASSUME IInv, [Next]_vars
    PROVE  [Abstract!Next]_(Abstract!vars)
<1>1. ASSUME UNCHANGED <<count, waiting, inDown>>
      PROVE  [Abstract!Next]_(Abstract!vars)
  BY <1>1, Invisible, Zenon DEF Abstract!vars, Value
<1>2. ASSUME NEW u \in UThread, UThreadStep(u)
      PROVE  [Abstract!Next]_(Abstract!vars)
  <2>1. CASE \E s \in Sem : Down(u, s) \/ Up(u, s)
    BY <2>1, DownRefines, UpRefines, Zenon
  <2>2. CASE Leave(u)
    BY <2>2, SwitchRefines, Zenon DEF Leave
  <2>3. CASE Wait(u)
    BY <1>1, <2>3, SwitchRefines, Zenon DEF Wait, Sleep, semaVars
  <2>4. CASE Exit(u)
    BY <1>1, <2>4, SwitchRefines, Zenon DEF Exit, Sleep, semaVars
  <2>5. CASE MainLoop(u)
    BY <1>1, <2>5, SwitchRefines, Zenon DEF MainLoop, Sleep, semaVars
  <2>6. CASE \/ \E v \in UThread : Insert(u, v)
             \/ Return(u) \/ Wake(u) \/ ReportWake(u) \/ WriteEventfd(u)
    BY <1>1, <2>6, Zenon DEF Insert, Return, Wake, ReportWake, WriteEventfd, semaVars
  <2> QED
    BY <1>2, <2>1, <2>2, <2>3, <2>4, <2>5, <2>6, Zenon DEF UThreadStep
<1>3. ASSUME NEW t \in OSThread, DoWait(t) \/ PollOther(t)
      PROVE  [Abstract!Next]_(Abstract!vars)
  BY <1>1, <1>3, Zenon DEF DoWait, PollEvent, PollOther, Drain, Rearm, IdleStep, semaVars
<1>4. CASE UNCHANGED vars
  BY <1>1, <1>4, Zenon DEF vars, semaVars, schedVars
<1> QED
  BY <1>2, <1>3, <1>4, Zenon DEF Next

\* os::Sema on the UThread scheduler is a counting semaphore: up() adds one
\* token, a down() that returns takes one, and none is taken that is not there.
THEOREM SemaRefinement == Spec => Abstract!Safety
<1>1. Init => Abstract!Init
  BY InitRefines, Zenon
<1>2. IInv /\ [Next]_vars => [Abstract!Next]_(Abstract!vars)
  BY NextRefines, Zenon
<1> QED
  BY <1>1, <1>2, Invariance, PTL DEF Spec, Abstract!Safety
============================================================================
