---------------------------- MODULE ThreadProofs ----------------------------
(***************************************************************************)
(* Proofs about module Thread, for any number of workers and clients: the  *)
(* references of a thread are counted exactly, a thread does not end while *)
(* it can be reached, the end of a thread is signalled, and join returns   *)
(* only when all threads have reported their end.                          *)
(***************************************************************************)
EXTENDS Thread, FiniteSetTheorems, TLAPS

----------------------------------------------------------------------------
(* The inductive invariant. *)

Held(w) == {c \in Client : <<c, w>> \in objects}

Spawning(c, w) == at[c] = "spawning" /\ arg[c] = w

\* The references of w: of Thread objects, of the main job, of its spawner.
HeldRefs(w) == Cardinality(Held(w))

MainRef(w) == IF pc[w] \in {"setup", "main", "loop", "waiting"} THEN 1 ELSE 0

SpawnRefs(w) ==
    IF pc[w] # "created" /\ \E c \in Client : Spawning(c, w) THEN 2 ELSE 0

RefsExact == \A w \in Worker : references[w] = HeldRefs(w) + MainRef(w) + SpawnRefs(w)

\* No more UThreads are ready than are alive.
ReadyAlive == \A w \in Worker : ready[w] <= alive[w]

\* A call that concerns a worker has one.
Args ==
    \A c \in Client : at[c] \in {"spawning", "zero", "pushed", "signal", "use"} => arg[c] \in Worker

\* A worker has one spawner, from its start until spawn returns, and does not end before.
OneSpawner ==
    \A b, c \in Client : at[b] = "spawning" /\ at[c] = "spawning" /\ arg[b] = arg[c] => b = c

SpawnerWaits ==
    \A c \in Client : at[c] = "spawning" =>
        pc[arg[c]] \notin {"none", "stopping", "ending", "dead"} /\ <<c, arg[c]>> \notin objects

CreatedSpawned == \A w \in Worker : pc[w] = "created" => \E c \in Client : Spawning(c, w)

\* Whoever can be reached, through the group or a Thread object, is there.
Reachable ==
    \A w \in Worker : w \in running \/ (\E c \in Client : <<c, w>> \in objects)
        => pc[w] \notin {"none", "created", "stopping", "ending", "dead"}

\* One client joins, and nobody spawns meanwhile.
OneJoiner ==
    \A b, c \in Client : at[b] \in {"join", "down"} /\ at[c] \in {"join", "down"} => b = c

JoinAlone ==
    \A b, c \in Client : at[b] \in {"join", "down"} => at[c] # "spawning"

\* The threads that threadStarted has counted and threadTerminated has not reported.
Live == {w \in Worker : pc[w] \notin {"none", "created", "ending", "dead"}}

Waited == IF \E c \in Client : at[c] = "down" THEN 1 ELSE 0

JoinCount == attached + Waited = Cardinality(Live) + sema

IInv ==
    /\ TypeOK /\ RefsExact /\ ReadyAlive /\ Args
    /\ OneSpawner /\ SpawnerWaits /\ CreatedSpawned /\ Reachable
    /\ OneJoiner /\ JoinAlone /\ JoinCount /\ EndIsSignalled

----------------------------------------------------------------------------
(* Counting. *)

\* Only so many clients hold Thread objects of a worker.
LEMMA HeldFinite ==
    ASSUME NEW w \in Worker
    PROVE  /\ IsFiniteSet(Held(w)) /\ HeldRefs(w) \in Nat
           /\ HeldRefs(w) = 0 <=> Held(w) = {}
<1>1. Held(w) \subseteq Client /\ IsFiniteSet(Client)
  BY ThreadAssumption, Zenon DEF Held
<1>2. IsFiniteSet(Held(w))
  BY <1>1, FS_Subset, Zenon
<1>3. QED
  BY <1>2, FS_CardinalityType, FS_EmptySet, Zenon DEF HeldRefs

\* A Thread object more, or one less.
LEMMA HeldMore ==
    ASSUME NEW c \in Client, NEW w \in Worker, c \notin Held(w), Held(w)' = Held(w) \cup {c}
    PROVE  HeldRefs(w)' = HeldRefs(w) + 1
  BY HeldFinite, FS_AddElement, Zenon DEF HeldRefs

\* One Thread object less.
LEMMA HeldLess ==
    ASSUME NEW c \in Client, NEW w \in Worker, c \in Held(w), Held(w)' = Held(w) \ {c}
    PROVE  HeldRefs(w)' = HeldRefs(w) - 1
  BY HeldFinite, FS_RemoveElement, Zenon DEF HeldRefs

\* What the count of the references says of whoever has one.
LEMMA RefsFacts ==
    ASSUME IInv, NEW w \in Worker
    PROVE  /\ MainRef(w) = 1 => references[w] > 0
           /\ \A c \in Client : <<c, w>> \in objects => references[w] > 0
           /\ \A c \in Client : Spawning(c, w) /\ pc[w] # "created" => references[w] > 1
<1>1. references[w] = HeldRefs(w) + MainRef(w) + SpawnRefs(w)
  BY Zenon DEF IInv, RefsExact
<1>2. HeldRefs(w) \in Nat /\ (HeldRefs(w) = 0 <=> Held(w) = {})
  BY HeldFinite, Zenon
<1>3. MainRef(w) \in {0, 1} /\ SpawnRefs(w) \in {0, 2}
  BY Zenon DEF MainRef, SpawnRefs
<1>4. \A c \in Client : <<c, w>> \in objects => HeldRefs(w) # 0
  BY <1>2, Zenon DEF Held
<1>5. \A c \in Client : Spawning(c, w) /\ pc[w] # "created" => SpawnRefs(w) = 2
  BY Zenon DEF SpawnRefs
<1>6. QED
  BY <1>1, <1>2, <1>3, <1>4, <1>5

\* The threads that join counts are finitely many.
LEMMA LiveFinite == IsFiniteSet(Live) /\ Cardinality(Live) \in Nat
<1>1. Live \subseteq Worker /\ IsFiniteSet(Worker)
  BY ThreadAssumption, Zenon DEF Live
<1>2. QED
  BY <1>1, FS_Subset, FS_CardinalityType, Zenon

\* What the steps need of the constants.
LEMMA Kinds ==
    /\ HasWait \subseteq Worker
    /\ NoWorker \notin Worker
    /\ MaxWork \in [Worker -> Nat]
  BY ThreadAssumption, Zenon

----------------------------------------------------------------------------
(* One lemma for each part of the invariant. *)

\* Counts are not decremented below zero: whoever releases a reference has one.
LEMMA TypeStep ==
    ASSUME IInv, [Next]_vars
    PROVE  TypeOK' /\ ReadyAlive' /\ Args'
<1> USE Kinds DEF PC, At
<1>1. ASSUME NEW w \in Worker, Create(w)
      PROVE  TypeOK' /\ ReadyAlive' /\ Args'
  BY <1>1 DEF IInv, TypeOK, ReadyAlive, Args, Create, Goto, uthreads, client
<1>2. ASSUME NEW w \in Worker, Report(w) \/ Run(w) \/ Block(w) \/ WaitReturns(w)
      PROVE  TypeOK' /\ ReadyAlive' /\ Args'
  <2>1. CASE Report(w)
    BY <2>1, Zenon DEF IInv, TypeOK, ReadyAlive, Args, Report, Goto, uthreads, client,
       group
  <2>2. CASE Run(w)
    BY <2>2 DEF IInv, TypeOK, ReadyAlive, Args, Run, thread, client, group
  <2>3. CASE Block(w)
    BY <2>3, Zenon DEF IInv, TypeOK, ReadyAlive, Args, Block, Goto, uthreads, client,
       group
  <2>4. CASE WaitReturns(w)
    BY <2>4, Zenon DEF IInv, TypeOK, ReadyAlive, Args, WaitReturns, Goto, uthreads,
       client, group
  <2>5. QED
    BY <1>2, <2>1, <2>2, <2>3, <2>4, Zenon
<1>3. ASSUME NEW w \in Worker, Main(w)
      PROVE  TypeOK' /\ ReadyAlive' /\ Args'
  <2>1. references[w] > 0
    BY <1>3, RefsFacts, Zenon DEF Main, MainRef
  <2>2. CASE wait[w]
    BY <1>3, <2>2, Zenon DEF IInv, TypeOK, ReadyAlive, Args, Main, Goto, uthreads, client, group
  <2>3. CASE ~wait[w]
    <3>1. references' \in [Worker -> Nat] /\ pc' \in [Worker -> PC]
      BY <1>3, <2>1, <2>3 DEF IInv, TypeOK, Main, Released, Goto
    <3>2. wakeCond' \in [Worker -> BOOLEAN]
      BY <1>3, <2>3, Zenon DEF IInv, TypeOK, Main, Released
    <3>3. QED
      BY <1>3, <3>1, <3>2, Zenon DEF IInv, TypeOK, ReadyAlive, Args, Main, uthreads, client, group
  <2>4. QED
    BY <2>2, <2>3, Zenon
<1>4. ASSUME NEW w \in Worker, WaitEnds(w)
      PROVE  TypeOK' /\ ReadyAlive' /\ Args'
  <2>1. references[w] > 0
    BY <1>4, RefsFacts, Zenon DEF WaitEnds, MainRef
  <2>2. QED
    BY <1>4, <2>1 DEF IInv, TypeOK, ReadyAlive, Args, WaitEnds, Released, Goto, uthreads,
       client, group
<1>5. ASSUME NEW w \in Worker, Test(w) \/ TestAny(w) \/ Unreachable(w) \/ Awake(w) \/
             Stop(w) \/ End(w)
      PROVE  TypeOK' /\ ReadyAlive' /\ Args'
  <2>1. CASE Test(w)
    BY <2>1, Zenon DEF IInv, TypeOK, ReadyAlive, Args, Test, Goto, uthreads, client, group
  <2>2. CASE TestAny(w)
    BY <2>2, Zenon DEF IInv, TypeOK, ReadyAlive, Args, TestAny, Goto, uthreads, client,
       group
  <2>3. CASE Unreachable(w)
    BY <2>3, Zenon DEF IInv, TypeOK, ReadyAlive, Args, Unreachable, Goto, uthreads, client
  <2>4. CASE Awake(w)
    BY <2>4, Zenon DEF IInv, TypeOK, ReadyAlive, Args, Awake, Goto, uthreads, client,
       group
  <2>5. CASE Stop(w)
    BY <2>5 DEF IInv, TypeOK, ReadyAlive, Args, Stop, Goto, uthreads, client
  <2>6. CASE End(w)
    BY <2>6, Zenon DEF IInv, TypeOK, ReadyAlive, Args, End, Goto, uthreads, client, group
  <2>7. QED
    BY <1>5, <2>1, <2>2, <2>3, <2>4, <2>5, <2>6, Zenon
<1>6. ASSUME NEW c \in Client, NEW w \in Worker, Spawn(c, w)
      PROVE  TypeOK' /\ ReadyAlive' /\ Args'
  BY <1>6, Zenon DEF IInv, TypeOK, ReadyAlive, Args, Spawn, Calls, Joining, Goto, uthreads,
     group
<1>7. ASSUME NEW c \in Client, NEW w \in Worker, Drop(c, w)
      PROVE  TypeOK' /\ ReadyAlive' /\ Args'
  <2>1. references[w] > 0
    BY <1>7, RefsFacts, Zenon DEF Drop
  <2>2. QED
    BY <1>7, <2>1 DEF IInv, TypeOK, ReadyAlive, Args, Drop, Calls, uthreads, group
<1>8. ASSUME NEW c \in Client, NEW w \in Worker, Insert(c, w) \/ Wake(c, w)
      PROVE  TypeOK' /\ ReadyAlive' /\ Args'
  BY <1>8 DEF IInv, TypeOK, ReadyAlive, Args, Insert, Calls, thread, group, Wake
<1>9. ASSUME NEW c \in Client, NEW b \in Client, NEW w \in Worker, Copy(c, b, w)
      PROVE  TypeOK' /\ ReadyAlive' /\ Args'
  BY <1>9 DEF IInv, TypeOK, ReadyAlive, Args, Copy, In, uthreads, group
<1>10. ASSUME NEW c \in Client, Spawned(c)
       PROVE  TypeOK' /\ ReadyAlive' /\ Args'
  <2>1. arg[c] \in Worker /\ pc[arg[c]] # "created" /\ Spawning(c, arg[c])
    BY <1>10, Zenon DEF IInv, Args, Spawned, In, Spawning
  <2>2. references[arg[c]] > 1
    BY <2>1, RefsFacts, Zenon
  <2>3. QED
    BY <1>10, <2>1, <2>2 DEF IInv, TypeOK, ReadyAlive, Args, Spawned, In, Goes, uthreads, group
<1>11. ASSUME NEW c \in Client, ReportZero(c) \/ Signal(c) \/ TestWait(c) \/
              UseWait(c)
       PROVE  TypeOK' /\ ReadyAlive' /\ Args'
  <2>1. CASE ReportZero(c)
    BY <2>1, Zenon DEF IInv, TypeOK, ReadyAlive, Args, ReportZero, In, Goes, uthreads,
       group
  <2>2. CASE Signal(c)
    BY <2>2, Zenon DEF IInv, TypeOK, ReadyAlive, Args, Signal, In, Goes, uthreads, group
  <2>3. CASE TestWait(c)
    BY <2>3, Zenon DEF IInv, TypeOK, ReadyAlive, Args, TestWait, In, Goes, thread,
       uthreads, group
  <2>4. CASE UseWait(c)
    BY <2>4, Zenon DEF IInv, TypeOK, ReadyAlive, Args, UseWait, In, Goes, uthreads, group
  <2>5. QED
    BY <1>11, <2>1, <2>2, <2>3, <2>4, Zenon
<1>12. ASSUME NEW c \in Client, JoinNext(c) \/ JoinDown(c) \/ JoinReturns(c)
       PROVE  TypeOK' /\ ReadyAlive' /\ Args'
  BY <1>12 DEF IInv, TypeOK, ReadyAlive, Args, JoinNext, In, Goes, thread, uthreads,
     JoinDown, JoinReturns, group
<1>13. ASSUME NEW c \in Client, Threads(c)
       PROVE  TypeOK' /\ ReadyAlive' /\ Args'
  BY <1>13 DEF IInv, TypeOK, ReadyAlive, Args, Threads, In, uthreads, group
<1>14. ASSUME NEW c \in Client, Join(c)
       PROVE  TypeOK' /\ ReadyAlive' /\ Args'
  BY <1>14, Zenon DEF IInv, TypeOK, ReadyAlive, Args, Join, Calls, Joining, thread,
     uthreads, group
<1>15. CASE UNCHANGED vars
  BY <1>15, Zenon DEF IInv, TypeOK, ReadyAlive, Args, vars, thread, uthreads, client, group
<1>16. QED
  BY <1>1, <1>2, <1>3, <1>4, <1>5, <1>6, <1>7, <1>8, <1>9, <1>10, <1>11, <1>12,
     <1>13, <1>14, <1>15, Zenon DEF Next, Works, Finishes

\* The spawner of a thread keeps it from ending.
LEMMA SpawnStep ==
    ASSUME IInv, [Next]_vars
    PROVE  OneSpawner' /\ SpawnerWaits' /\ CreatedSpawned'
<1> USE Kinds DEF PC, At
<1>1. ASSUME NEW w \in Worker, Create(w)
      PROVE  OneSpawner' /\ SpawnerWaits' /\ CreatedSpawned'
  BY <1>1 DEF IInv, TypeOK, Args, OneSpawner, SpawnerWaits, CreatedSpawned, Spawning,
     Create, Goto, uthreads, client
<1>2. ASSUME NEW w \in Worker, Report(w) \/ Main(w) \/ Run(w) \/ Block(w) \/
             WaitReturns(w) \/ WaitEnds(w)
      PROVE  OneSpawner' /\ SpawnerWaits' /\ CreatedSpawned'
  BY <1>2 DEF IInv, TypeOK, Args, OneSpawner, SpawnerWaits, CreatedSpawned, Spawning,
     Report, Goto, uthreads, client, group, Main, Released, Run, thread, Block,
     WaitReturns, WaitEnds
<1>3. ASSUME NEW w \in Worker, Test(w) \/ TestAny(w) \/ Awake(w)
      PROVE  OneSpawner' /\ SpawnerWaits' /\ CreatedSpawned'
  BY <1>3 DEF IInv, TypeOK, Args, OneSpawner, SpawnerWaits, CreatedSpawned, Spawning,
     Test, Goto, uthreads, client, group, TestAny, Awake
<1>4. ASSUME NEW w \in Worker, Unreachable(w)
      PROVE  OneSpawner' /\ SpawnerWaits' /\ CreatedSpawned'
  <2>1. \A c \in Client : Spawning(c, w) => references[w] > 0
    BY <1>4, RefsFacts DEF Unreachable, IInv, TypeOK
  <2>2. QED
    BY <1>4, <2>1 DEF IInv, TypeOK, Args, OneSpawner, SpawnerWaits, CreatedSpawned, Spawning,
       Unreachable, Goto, uthreads, client
<1>5. ASSUME NEW w \in Worker, Stop(w) \/ End(w)
      PROVE  OneSpawner' /\ SpawnerWaits' /\ CreatedSpawned'
  BY <1>5 DEF IInv, TypeOK, Args, OneSpawner, SpawnerWaits, CreatedSpawned, Spawning,
     Stop, End, Goto, uthreads, client
<1>6. ASSUME NEW c \in Client, NEW w \in Worker, Spawn(c, w)
      PROVE  OneSpawner' /\ SpawnerWaits' /\ CreatedSpawned'
  <2>1. <<c, w>> \notin objects
    BY <1>6, Zenon DEF IInv, Reachable, Spawn
  <2>2. \A b \in Client : at[b] = "spawning" => arg[b] # w
    BY <1>6, Zenon DEF IInv, SpawnerWaits, Spawn
  <2>3. OneSpawner'
    BY <1>6, <2>2 DEF IInv, TypeOK, OneSpawner, Spawn, Calls
  <2>4. SpawnerWaits'
    BY <1>6, <2>1, <2>2 DEF IInv, TypeOK, Args, SpawnerWaits, Spawn, Calls, Goto
  <2>5. CreatedSpawned'
    BY <1>6 DEF IInv, TypeOK, CreatedSpawned, Spawning, Spawn, Calls, Goto
  <2>6. QED
    BY <2>3, <2>4, <2>5, Zenon
<1>7. ASSUME NEW c \in Client, NEW w \in Worker, Drop(c, w) \/ Insert(c, w) \/ Wake(c,
             w)
      PROVE  OneSpawner' /\ SpawnerWaits' /\ CreatedSpawned'
  <2>1. CASE Drop(c, w)
    BY <2>1 DEF IInv, TypeOK, Args, OneSpawner, SpawnerWaits, CreatedSpawned,
       Spawning, Drop, Calls, uthreads, group
  <2>2. CASE Insert(c, w)
    BY <2>2 DEF IInv, TypeOK, Args, OneSpawner, SpawnerWaits, CreatedSpawned,
       Spawning, Insert, Calls, thread, group
  <2>3. CASE Wake(c, w)
    BY <2>3 DEF IInv, TypeOK, Args, OneSpawner, SpawnerWaits, CreatedSpawned,
       Spawning, Wake, Calls, thread, group
  <2>4. QED
    BY <1>7, <2>1, <2>2, <2>3, Zenon
<1>8. ASSUME NEW c \in Client, NEW b \in Client, NEW w \in Worker, Copy(c, b, w)
      PROVE  OneSpawner' /\ SpawnerWaits' /\ CreatedSpawned'
  BY <1>8 DEF IInv, TypeOK, Args, OneSpawner, SpawnerWaits, CreatedSpawned, Spawning,
     Copy, In, uthreads, group
<1>9. ASSUME NEW c \in Client, Spawned(c)
      PROVE  OneSpawner' /\ SpawnerWaits' /\ CreatedSpawned'
  BY <1>9 DEF IInv, TypeOK, Args, OneSpawner, SpawnerWaits, CreatedSpawned, Spawning,
     Spawned, In, Goes, uthreads, group
<1>10. ASSUME NEW c \in Client, ReportZero(c) \/ Signal(c) \/ TestWait(c) \/
              UseWait(c)
       PROVE  OneSpawner' /\ SpawnerWaits' /\ CreatedSpawned'
  BY <1>10 DEF IInv, TypeOK, Args, OneSpawner, SpawnerWaits, CreatedSpawned,
     Spawning, ReportZero, In, Goes, uthreads, group, Signal, TestWait, thread, UseWait
<1>11. ASSUME NEW c \in Client, JoinNext(c) \/ JoinDown(c) \/ JoinReturns(c)
       PROVE  OneSpawner' /\ SpawnerWaits' /\ CreatedSpawned'
  BY <1>11 DEF IInv, TypeOK, Args, OneSpawner, SpawnerWaits, CreatedSpawned,
     Spawning, JoinNext, In, Goes, thread, uthreads, JoinDown, JoinReturns, group
<1>12. ASSUME NEW c \in Client, Threads(c)
       PROVE  OneSpawner' /\ SpawnerWaits' /\ CreatedSpawned'
  BY <1>12 DEF IInv, TypeOK, Args, OneSpawner, SpawnerWaits, CreatedSpawned,
     Spawning, Threads, In, uthreads, group
<1>13. ASSUME NEW c \in Client, Join(c)
       PROVE  OneSpawner' /\ SpawnerWaits' /\ CreatedSpawned'
  BY <1>13 DEF IInv, TypeOK, Args, OneSpawner, SpawnerWaits, CreatedSpawned,
     Spawning, Join, Calls, Joining, thread, uthreads, group
<1>14. CASE UNCHANGED vars
  BY <1>14 DEF IInv, TypeOK, Args, OneSpawner, SpawnerWaits, CreatedSpawned,
     Spawning, vars, thread, uthreads, client, group
<1>15. QED
  BY <1>1, <1>2, <1>3, <1>4, <1>5, <1>6, <1>7, <1>8, <1>9, <1>10, <1>11, <1>12,
     <1>13, <1>14, Zenon DEF Next, Works, Finishes

\* Nobody can reach a thread that has left: threadUnreachable looks at the
\* references in the lock in which threads() hands them out.
LEMMA ReachStep ==
    ASSUME IInv, [Next]_vars
    PROVE  OneJoiner' /\ JoinAlone' /\ Reachable'
<1> USE Kinds DEF PC, At
<1>1. ASSUME NEW w \in Worker, Create(w)
      PROVE  OneJoiner' /\ JoinAlone' /\ Reachable'
  BY <1>1, Zenon DEF IInv, TypeOK, Args, OneJoiner, JoinAlone, Reachable, Create, Goto,
     uthreads, client
<1>2. ASSUME NEW w \in Worker, Report(w) \/ Main(w) \/ Run(w) \/ Block(w) \/
             WaitReturns(w) \/ WaitEnds(w)
      PROVE  OneJoiner' /\ JoinAlone' /\ Reachable'
  <2>1. CASE Report(w)
    BY <2>1, Zenon DEF IInv, TypeOK, Args, OneJoiner, JoinAlone, Reachable, Goto,
       uthreads, client, group, Released, thread, Report
  <2>2. CASE Main(w)
    <3>1. /\ UNCHANGED <<at, arg, objects, running>>
          /\ pc'[w] \in {"loop", "final"}
          /\ \A v \in Worker : v # w => pc'[v] = pc[v]
      BY <2>2 DEF IInv, TypeOK, Main, Released, Goto, client, group
    <3> QED
      BY <3>1, Zenon DEF IInv, OneJoiner, JoinAlone, Reachable
  <2>3. CASE Run(w)
    BY <2>3, Zenon DEF IInv, TypeOK, Args, OneJoiner, JoinAlone, Reachable, Goto,
       uthreads, client, group, Released, thread, Run
  <2>4. CASE Block(w)
    BY <2>4, Zenon DEF IInv, TypeOK, Args, OneJoiner, JoinAlone, Reachable, Goto,
       uthreads, client, group, Released, thread, Block
  <2>5. CASE WaitReturns(w)
    BY <2>5, ZenonT(40) DEF IInv, TypeOK, Args, OneJoiner, JoinAlone, Reachable, Goto,
       uthreads, client, group, Released, thread, WaitReturns
  <2>6. CASE WaitEnds(w)
    BY <2>6, Zenon DEF IInv, TypeOK, Args, OneJoiner, JoinAlone, Reachable, Goto,
       uthreads, client, group, Released, thread, WaitEnds
  <2> QED
    BY <1>2, <2>1, <2>2, <2>3, <2>4, <2>5, <2>6, Zenon
<1>3. ASSUME NEW w \in Worker, Test(w) \/ TestAny(w) \/ Awake(w)
      PROVE  OneJoiner' /\ JoinAlone' /\ Reachable'
  <2>1. CASE Test(w)
    BY <2>1, Zenon DEF IInv, TypeOK, Args, OneJoiner, JoinAlone, Reachable, Goto,
       uthreads, client, group, Test
  <2>2. CASE TestAny(w)
    BY <2>2, Zenon DEF IInv, TypeOK, Args, OneJoiner, JoinAlone, Reachable, Goto,
       uthreads, client, group, TestAny
  <2>3. CASE Awake(w)
    BY <2>3 DEF IInv, TypeOK, Args, OneJoiner, JoinAlone, Reachable, Goto,
       uthreads, client, group, Awake
  <2> QED
    BY <1>3, <2>1, <2>2, <2>3, Zenon
<1>4. ASSUME NEW w \in Worker, Unreachable(w)
      PROVE  OneJoiner' /\ JoinAlone' /\ Reachable'
  <2>1. \A c \in Client : <<c, w>> \in objects => references[w] > 0
    BY <1>4, RefsFacts, Zenon
  <2>2. OneJoiner' /\ JoinAlone'
    BY <1>4, Zenon DEF IInv, OneJoiner, JoinAlone, Unreachable, client
  <2>3. CASE references[w] > 0
    BY <1>4, <2>2, <2>3, ZenonT(40) DEF IInv, TypeOK, Reachable, Unreachable, Goto, client
  <2>4. CASE ~(references[w] > 0)
    BY <1>4, <2>1, <2>2, <2>4, ZenonT(40) DEF IInv, TypeOK, Reachable, Unreachable, Goto, client
  <2>5. QED
    BY <2>3, <2>4, Zenon
<1>5. ASSUME NEW w \in Worker, Stop(w) \/ End(w)
      PROVE  OneJoiner' /\ JoinAlone' /\ Reachable'
  BY <1>5, ZenonT(40) DEF IInv, TypeOK, Args, OneJoiner, JoinAlone, Reachable, Stop, End, Goto,
     uthreads, client, group
<1>6. ASSUME NEW c \in Client, NEW w \in Worker, Spawn(c, w)
      PROVE  OneJoiner' /\ JoinAlone' /\ Reachable'
  BY <1>6 DEF IInv, TypeOK, Args, OneJoiner, JoinAlone, Reachable, Spawn, Calls,
     Joining, Goto, uthreads, group
<1>7. ASSUME NEW c \in Client, NEW w \in Worker, Drop(c, w) \/ Insert(c, w) \/ Wake(c,
             w)
      PROVE  OneJoiner' /\ JoinAlone' /\ Reachable'
  <2>1. CASE Drop(c, w)
    BY <2>1, ZenonT(40) DEF IInv, TypeOK, Args, OneJoiner, JoinAlone, Reachable, Drop, Calls,
       uthreads, group
  <2>2. CASE Insert(c, w)
    BY <2>2 DEF IInv, TypeOK, Args, OneJoiner, JoinAlone, Reachable, Insert, Calls,
       thread, group
  <2>3. CASE Wake(c, w)
    BY <2>3, ZenonT(40) DEF IInv, TypeOK, Args, OneJoiner, JoinAlone, Reachable, Wake, Calls,
       thread, group
  <2>4. QED
    BY <1>7, <2>1, <2>2, <2>3, Zenon
<1>8. ASSUME NEW c \in Client, NEW b \in Client, NEW w \in Worker, Copy(c, b, w)
      PROVE  OneJoiner' /\ JoinAlone' /\ Reachable'
  BY <1>8, Zenon DEF IInv, TypeOK, Args, OneJoiner, JoinAlone, Reachable, Copy, In,
     uthreads, group
<1>9. ASSUME NEW c \in Client, Spawned(c)
      PROVE  OneJoiner' /\ JoinAlone' /\ Reachable'
  <2>1. arg[c] \in Worker /\ pc[arg[c]] \notin {"none", "created", "stopping", "ending", "dead"}
    BY <1>9, Zenon DEF IInv, Args, SpawnerWaits, Spawned, In
  <2>2. QED
    BY <1>9, <2>1, ZenonT(40) DEF IInv, TypeOK, OneJoiner, JoinAlone, Reachable, Spawned, In, Goes,
       uthreads, group
<1>10. ASSUME NEW c \in Client, ReportZero(c) \/ Signal(c) \/ TestWait(c) \/
              UseWait(c)
       PROVE  OneJoiner' /\ JoinAlone' /\ Reachable'
  <2>1. CASE ReportZero(c)
    BY <2>1 DEF IInv, TypeOK, Args, OneJoiner, JoinAlone, Reachable, ReportZero,
       In, Goes, uthreads, group
  <2>2. CASE Signal(c)
    BY <2>2 DEF IInv, TypeOK, Args, OneJoiner, JoinAlone, Reachable, Signal, In,
       Goes, uthreads, group
  <2>3. CASE TestWait(c)
    BY <2>3, ZenonT(40) DEF IInv, TypeOK, Args, OneJoiner, JoinAlone, Reachable, TestWait, In,
       Goes, thread, uthreads, group
  <2>4. CASE UseWait(c)
    BY <2>4 DEF IInv, TypeOK, Args, OneJoiner, JoinAlone, Reachable, UseWait, In,
       Goes, uthreads, group
  <2>5. QED
    BY <1>10, <2>1, <2>2, <2>3, <2>4, Zenon
<1>11. ASSUME NEW c \in Client, JoinNext(c) \/ JoinDown(c) \/ JoinReturns(c)
       PROVE  OneJoiner' /\ JoinAlone' /\ Reachable'
  <2>1. CASE JoinNext(c)
    BY <2>1, ZenonT(40) DEF IInv, TypeOK, Args, OneJoiner, JoinAlone, Reachable, JoinNext, In,
       Goes, thread, uthreads
  <2>2. CASE JoinDown(c)
    BY <2>2, ZenonT(40) DEF IInv, TypeOK, Args, OneJoiner, JoinAlone, Reachable, JoinDown, In,
       Goes, thread, uthreads
  <2>3. CASE JoinReturns(c)
    BY <2>3, ZenonT(40) DEF IInv, TypeOK, Args, OneJoiner, JoinAlone, Reachable, JoinReturns,
       In, Goes, thread, uthreads, group
  <2>4. QED
    BY <1>11, <2>1, <2>2, <2>3, Zenon
<1>12. ASSUME NEW c \in Client, Threads(c)
       PROVE  OneJoiner' /\ JoinAlone' /\ Reachable'
  BY <1>12, ZenonT(40) DEF IInv, TypeOK, Args, OneJoiner, JoinAlone, Reachable, Threads, In,
     uthreads, group
<1>13. ASSUME NEW c \in Client, Join(c)
       PROVE  OneJoiner' /\ JoinAlone' /\ Reachable'
  BY <1>13, ZenonT(40) DEF IInv, TypeOK, Args, OneJoiner, JoinAlone, Reachable,
     Join, Calls, Joining, thread, uthreads, group
<1>14. CASE UNCHANGED vars
  BY <1>14, Zenon DEF IInv, TypeOK, Args, OneJoiner, JoinAlone, Reachable, vars, thread,
     uthreads, client, group
<1>15. QED
  BY <1>1, <1>2, <1>3, <1>4, <1>5, <1>6, <1>7, <1>8, <1>9, <1>10, <1>11, <1>12,
     <1>13, <1>14, Zenon DEF Next, Works, Finishes

\* Whoever makes the references zero is about to signal.
LEMMA EndStep ==
    ASSUME IInv, [Next]_vars
    PROVE  EndIsSignalled'
<1> USE Kinds DEF PC, At
<1>1. ASSUME NEW w \in Worker, Create(w)
      PROVE  EndIsSignalled'
  BY <1>1 DEF IInv, TypeOK, Args, EndIsSignalled, Create, Goto, uthreads, client
<1>2. ASSUME NEW w \in Worker, Report(w) \/ Run(w) \/ Block(w) \/ WaitReturns(w)
      PROVE  EndIsSignalled'
  BY <1>2 DEF IInv, TypeOK, Args, EndIsSignalled, Report, Goto, uthreads, client,
     group, Run, thread, Block, WaitReturns
<1>3. ASSUME NEW w \in Worker, Main(w)
      PROVE  EndIsSignalled'
  BY <1>3 DEF IInv, TypeOK, Args, EndIsSignalled, Main, Released, Goto, uthreads,
     client, group
<1>4. ASSUME NEW w \in Worker, WaitEnds(w)
      PROVE  EndIsSignalled'
  BY <1>4 DEF IInv, TypeOK, Args, EndIsSignalled, WaitEnds, Released, Goto, uthreads,
     client, group
<1>5. ASSUME NEW w \in Worker, Test(w) \/ TestAny(w) \/ Unreachable(w) \/ Awake(w) \/
             Stop(w) \/ End(w)
      PROVE  EndIsSignalled'
  <2>1. CASE Test(w)
    BY <2>1 DEF IInv, TypeOK, Args, EndIsSignalled, Goto, uthreads, client,
       group, Test
  <2>2. CASE TestAny(w)
    BY <2>2 DEF IInv, TypeOK, Args, EndIsSignalled, Goto, uthreads, client,
       group, TestAny
  <2>3. CASE Unreachable(w)
    BY <2>3 DEF IInv, TypeOK, Args, EndIsSignalled, Goto, uthreads, client,
       group, Unreachable
  <2>4. CASE Awake(w)
    BY <2>4 DEF IInv, TypeOK, Args, EndIsSignalled, Goto, uthreads, client,
       group, Awake
  <2>5. CASE Stop(w)
    BY <2>5 DEF IInv, TypeOK, Args, EndIsSignalled, Goto, uthreads, client,
       group, Stop
  <2>6. CASE End(w)
    BY <2>6 DEF IInv, TypeOK, Args, EndIsSignalled, Goto, uthreads, client,
       group, End
  <2> QED
    BY <1>5, <2>1, <2>2, <2>3, <2>4, <2>5, <2>6, Zenon
<1>6. ASSUME NEW c \in Client, NEW w \in Worker, Spawn(c, w)
      PROVE  EndIsSignalled'
  BY <1>6 DEF IInv, TypeOK, Args, EndIsSignalled, Spawn, Calls, Joining, Goto,
     uthreads, group
<1>7. ASSUME NEW c \in Client, NEW w \in Worker, Drop(c, w)
      PROVE  EndIsSignalled'
  BY <1>7 DEF IInv, TypeOK, Args, EndIsSignalled, Drop, Calls, uthreads, group
<1>8. ASSUME NEW c \in Client, NEW w \in Worker, Insert(c, w) \/ Wake(c, w)
      PROVE  EndIsSignalled'
  BY <1>8 DEF IInv, TypeOK, Args, EndIsSignalled, Insert, Calls, thread, group, Wake
<1>9. ASSUME NEW c \in Client, NEW b \in Client, NEW w \in Worker, Copy(c, b, w)
      PROVE  EndIsSignalled'
  BY <1>9 DEF IInv, TypeOK, Args, EndIsSignalled, Copy, In, uthreads, group
<1>10. ASSUME NEW c \in Client, Spawned(c)
       PROVE  EndIsSignalled'
  <2>1. arg[c] \in Worker /\ pc[arg[c]] # "created" /\ Spawning(c, arg[c])
    BY <1>10, Zenon DEF IInv, Args, Spawned, In, Spawning
  <2>2. references[arg[c]] > 1
    BY <2>1, RefsFacts, Zenon
  <2>3. references'[arg[c]] > 0
    BY <1>10, <2>1, <2>2 DEF IInv, TypeOK, Spawned
  <2>4. QED
    BY <1>10, <2>1, <2>3 DEF IInv, TypeOK, EndIsSignalled, Spawned, In, Goes, uthreads, group
<1>11. ASSUME NEW c \in Client, ReportZero(c) \/ Signal(c) \/ TestWait(c) \/
              UseWait(c)
       PROVE  EndIsSignalled'
  <2>1. CASE ReportZero(c)
    BY <2>1 DEF IInv, TypeOK, Args, EndIsSignalled, In, Goes, uthreads, group,
       thread, ReportZero
  <2>2. CASE Signal(c)
    BY <2>2, Zenon DEF IInv, TypeOK, Args, EndIsSignalled, In, Goes, uthreads, group,
       thread, Signal
  <2>3. CASE TestWait(c)
    BY <2>3, Zenon DEF IInv, TypeOK, Args, EndIsSignalled, In, Goes, uthreads, group,
       thread, TestWait
  <2>4. CASE UseWait(c)
    BY <2>4, Zenon DEF IInv, TypeOK, Args, EndIsSignalled, In, Goes, uthreads, group,
       thread, UseWait
  <2> QED
    BY <1>11, <2>1, <2>2, <2>3, <2>4, Zenon
<1>12. ASSUME NEW c \in Client, JoinNext(c) \/ JoinDown(c) \/ JoinReturns(c)
       PROVE  EndIsSignalled'
  BY <1>12 DEF IInv, TypeOK, Args, EndIsSignalled, JoinNext, In, Goes, thread,
     uthreads, JoinDown, JoinReturns, group
<1>13. ASSUME NEW c \in Client, Threads(c)
       PROVE  EndIsSignalled'
  BY <1>13 DEF IInv, TypeOK, Args, EndIsSignalled, Threads, In, uthreads, group
<1>14. ASSUME NEW c \in Client, Join(c)
       PROVE  EndIsSignalled'
  BY <1>14, Zenon DEF IInv, TypeOK, Args, EndIsSignalled, Join, Calls, Joining, thread,
     uthreads, group
<1>15. CASE UNCHANGED vars
  BY <1>15, Zenon DEF IInv, TypeOK, Args, EndIsSignalled, vars, thread, uthreads, client,
     group
<1>16. QED
  BY <1>1, <1>2, <1>3, <1>4, <1>5, <1>6, <1>7, <1>8, <1>9, <1>10, <1>11, <1>12,
     <1>13, <1>14, <1>15, Zenon DEF Next, Works, Finishes

\* The references are what they were when nothing that counts has changed.
LEMMA RefsFrame ==
    ASSUME IInv, references' = references, objects' = objects,
           \A w \in Worker : MainRef(w)' = MainRef(w) /\ SpawnRefs(w)' = SpawnRefs(w)
    PROVE  RefsExact'
<1>1. \A w \in Worker : HeldRefs(w)' = HeldRefs(w)
  BY Zenon DEF HeldRefs, Held
<1>2. QED
  BY <1>1, Zenon DEF RefsExact, IInv

\* When one worker changes, it is enough to look at this one.
LEMMA RefsOne ==
    ASSUME IInv, NEW w \in Worker,
           references'[w] = HeldRefs(w)' + MainRef(w)' + SpawnRefs(w)',
           \A v \in Worker \ {w} :
              /\ references'[v] = references[v] /\ Held(v)' = Held(v)
              /\ MainRef(v)' = MainRef(v) /\ SpawnRefs(v)' = SpawnRefs(v)
    PROVE  RefsExact'
<1>1. \A v \in Worker \ {w} : HeldRefs(v)' = HeldRefs(v)
  BY Zenon DEF HeldRefs
<1>2. QED
  BY <1>1 DEF RefsExact, IInv

\* Every reference that is taken is given back once.
LEMMA RefsStep ==
    ASSUME IInv, [Next]_vars
    PROVE  RefsExact'
<1> USE Kinds DEF PC, At
<1>1. ASSUME NEW w \in Worker, Create(w)
      PROVE  RefsExact'
  <2>1. \A v \in Worker \ {w} :
           /\ references'[v] = references[v] /\ Held(v)' = Held(v)
           /\ MainRef(v)' = MainRef(v) /\ SpawnRefs(v)' = SpawnRefs(v)
    BY <1>1, Zenon DEF IInv, TypeOK, Held, MainRef, SpawnRefs, Spawning, Create, Goto, client
  <2>2. Held(w)' = {}
    BY <1>1, Zenon DEF IInv, Reachable, Held, Create, client
  <2>3. HeldRefs(w)' = 0
    BY <2>2, FS_EmptySet, Zenon DEF HeldRefs
  <2>4. MainRef(w)' = 1 /\ SpawnRefs(w)' = 2 /\ references'[w] = 3
    BY <1>1 DEF IInv, TypeOK, CreatedSpawned, MainRef, SpawnRefs, Spawning, Create, Goto, client
  <2>5. QED
    BY <2>1, <2>3, <2>4, RefsOne
<1>2. ASSUME NEW w \in Worker, Report(w) \/ Run(w) \/ Block(w) \/ WaitReturns(w) \/
             Test(w) \/ TestAny(w) \/ Unreachable(w) \/ Awake(w) \/ Stop(w) \/
             End(w)
      PROVE  RefsExact'
  <2>1. CASE Report(w)
    BY <2>1, RefsFrame, Zenon DEF IInv, TypeOK, Args, MainRef, SpawnRefs, Spawning,
       Goto, uthreads, client, group, thread, Report
  <2>2. CASE Run(w)
    BY <2>2, RefsFrame, Zenon DEF IInv, TypeOK, Args, MainRef, SpawnRefs, Spawning,
       Goto, uthreads, client, group, thread, Run
  <2>3. CASE Block(w)
    BY <2>3, RefsFrame, Zenon DEF IInv, TypeOK, Args, MainRef, SpawnRefs, Spawning,
       Goto, uthreads, client, group, thread, Block
  <2>4. CASE WaitReturns(w)
    BY <2>4, RefsFrame, Zenon DEF IInv, TypeOK, Args, MainRef, SpawnRefs, Spawning,
       Goto, uthreads, client, group, thread, WaitReturns
  <2>5. CASE Test(w)
    BY <2>5, RefsFrame, Zenon DEF IInv, TypeOK, Args, MainRef, SpawnRefs, Spawning,
       Goto, uthreads, client, group, thread, Test
  <2>6. CASE TestAny(w)
    BY <2>6, RefsFrame, Zenon DEF IInv, TypeOK, Args, MainRef, SpawnRefs, Spawning,
       Goto, uthreads, client, group, thread, TestAny
  <2>7. CASE Unreachable(w)
    BY <2>7, RefsFrame DEF IInv, TypeOK, Args, MainRef, SpawnRefs, Spawning,
       Goto, uthreads, client, group, thread, Unreachable
  <2>8. CASE Awake(w)
    BY <2>8, RefsFrame, Zenon DEF IInv, TypeOK, Args, MainRef, SpawnRefs, Spawning,
       Goto, uthreads, client, group, thread, Awake
  <2>9. CASE Stop(w)
    BY <2>9, RefsFrame, Zenon DEF IInv, TypeOK, Args, MainRef, SpawnRefs, Spawning,
       Goto, uthreads, client, group, thread, Stop
  <2>10. CASE End(w)
    BY <2>10, RefsFrame, Zenon DEF IInv, TypeOK, Args, MainRef, SpawnRefs, Spawning,
       Goto, uthreads, client, group, thread, End
  <2> QED
    BY <1>2, <2>1, <2>2, <2>3, <2>4, <2>5, <2>6, <2>7, <2>8, <2>9, <2>10, Zenon
<1>3. ASSUME NEW w \in Worker, Main(w)
      PROVE  RefsExact'
  <2>1. CASE wait[w]
    BY <1>3, <2>1, RefsFrame DEF IInv, TypeOK, MainRef, SpawnRefs, Spawning, Main, Goto,
       uthreads, client, group
  <2>2. CASE ~wait[w]
    <3>1. \A v \in Worker \ {w} :
             /\ references'[v] = references[v] /\ Held(v)' = Held(v)
             /\ MainRef(v)' = MainRef(v) /\ SpawnRefs(v)' = SpawnRefs(v)
      BY <1>3, <2>2 DEF IInv, TypeOK, Held, MainRef, SpawnRefs, Spawning, Main, Released, Goto, client
    <3>2. HeldRefs(w)' = HeldRefs(w)
      BY <1>3, <2>2, Zenon DEF HeldRefs, Held, Main, client
    <3>3. SpawnRefs(w)' = SpawnRefs(w)
      BY <1>3, <2>2, Zenon DEF IInv, TypeOK, SpawnRefs, Spawning, Main, Released, Goto, client
    <3>4. MainRef(w) = 1 /\ MainRef(w)' = 0 /\ references'[w] = references[w] - 1
      BY <1>3, <2>2 DEF IInv, TypeOK, MainRef, Main, Released, Goto
    <3>5. HeldRefs(w) \in Nat /\ SpawnRefs(w) \in Nat /\ references[w] \in Nat
      BY HeldFinite, Zenon DEF SpawnRefs, IInv, TypeOK
    <3>6. references[w] = HeldRefs(w) + MainRef(w) + SpawnRefs(w)
      BY Zenon DEF IInv, RefsExact
    <3>7. QED
      BY <3>1, <3>2, <3>3, <3>4, <3>5, <3>6, RefsOne
  <2>3. QED
    BY <2>1, <2>2, Zenon
<1>4. ASSUME NEW w \in Worker, WaitEnds(w)
      PROVE  RefsExact'
  <2>1. \A v \in Worker \ {w} :
           /\ references'[v] = references[v] /\ Held(v)' = Held(v)
           /\ MainRef(v)' = MainRef(v) /\ SpawnRefs(v)' = SpawnRefs(v)
    BY <1>4, Zenon DEF IInv, TypeOK, Held, MainRef, SpawnRefs, Spawning, WaitEnds, Released, Goto, client
  <2>2. HeldRefs(w)' = HeldRefs(w)
    BY <1>4, Zenon DEF HeldRefs, Held, WaitEnds, client
  <2>3. SpawnRefs(w)' = SpawnRefs(w)
    BY <1>4, Zenon DEF IInv, TypeOK, SpawnRefs, Spawning, WaitEnds, Released, Goto, client
  <2>4. MainRef(w) = 1 /\ MainRef(w)' = 0 /\ references'[w] = references[w] - 1
    BY <1>4, Zenon DEF IInv, TypeOK, MainRef, WaitEnds, Released, Goto
  <2>5. HeldRefs(w) \in Nat /\ SpawnRefs(w) \in Nat /\ references[w] \in Nat
    BY HeldFinite, Zenon DEF SpawnRefs, IInv, TypeOK
  <2>6. references[w] = HeldRefs(w) + MainRef(w) + SpawnRefs(w)
    BY Zenon DEF IInv, RefsExact
  <2>7. QED
    BY <2>1, <2>2, <2>3, <2>4, <2>5, <2>6, RefsOne
<1>5. ASSUME NEW c \in Client, NEW w \in Worker, Spawn(c, w)
      PROVE  RefsExact'
  <2>1. \A v \in Worker : MainRef(v)' = MainRef(v)
    BY <1>5, Zenon DEF IInv, TypeOK, MainRef, Spawn, Goto
  <2>2. SpawnRefs(w)' = 0 /\ SpawnRefs(w) = 0
    BY <1>5, Zenon DEF IInv, TypeOK, SpawnerWaits, SpawnRefs, Spawning, Spawn, Goto
  <2>3. \A v \in Worker \ {w} : SpawnRefs(v)' = SpawnRefs(v)
    BY <1>5, Zenon DEF IInv, TypeOK, SpawnRefs, Spawning, Spawn, Calls, Goto
  <2>4. QED
    BY <1>5, <2>1, <2>2, <2>3, RefsFrame, Zenon DEF Spawn
<1>6. ASSUME NEW c \in Client, NEW w \in Worker, Drop(c, w)
      PROVE  RefsExact'
  <2>1. \A v \in Worker \ {w} :
           /\ references'[v] = references[v] /\ Held(v)' = Held(v)
           /\ MainRef(v)' = MainRef(v) /\ SpawnRefs(v)' = SpawnRefs(v)
    BY <1>6, Zenon DEF IInv, TypeOK, Held, MainRef, SpawnRefs, Spawning, Drop, Calls
  <2>2. c \in Held(w) /\ Held(w)' = Held(w) \ {c}
    BY <1>6, Zenon DEF Held, Drop
  <2>3. HeldRefs(w)' = HeldRefs(w) - 1
    BY <2>2, HeldLess, Zenon
  <2>4. MainRef(w)' = MainRef(w) /\ SpawnRefs(w)' = SpawnRefs(w)
    BY <1>6, Zenon DEF IInv, TypeOK, MainRef, SpawnRefs, Spawning, Drop, Calls
  <2>5. references'[w] = references[w] - 1
    BY <1>6, Zenon DEF IInv, TypeOK, Drop
  <2>6. HeldRefs(w) \in Nat /\ MainRef(w) \in Nat /\ SpawnRefs(w) \in Nat
    BY HeldFinite, Zenon DEF MainRef, SpawnRefs
  <2>7. references[w] = HeldRefs(w) + MainRef(w) + SpawnRefs(w)
    BY Zenon DEF IInv, RefsExact
  <2>8. references'[w] = HeldRefs(w)' + MainRef(w)' + SpawnRefs(w)'
    BY <2>3, <2>4, <2>5, <2>6, <2>7
  <2>9. QED
    BY <2>1, <2>8, RefsOne, Zenon
<1>7. ASSUME NEW c \in Client, NEW w \in Worker, Insert(c, w) \/ Wake(c, w)
      PROVE  RefsExact'
  BY <1>7, RefsFrame, Zenon DEF IInv, TypeOK, Args, MainRef, SpawnRefs, Spawning, Insert,
     Calls, thread, group, Wake
<1>8. ASSUME NEW c \in Client, NEW b \in Client, NEW w \in Worker, Copy(c, b, w)
      PROVE  RefsExact'
  <2>1. \A v \in Worker \ {w} :
           /\ references'[v] = references[v] /\ Held(v)' = Held(v)
           /\ MainRef(v)' = MainRef(v) /\ SpawnRefs(v)' = SpawnRefs(v)
    BY <1>8, Zenon DEF IInv, TypeOK, Held, MainRef, SpawnRefs, Spawning, Copy
  <2>2. c \notin Held(w) /\ Held(w)' = Held(w) \cup {c}
    BY <1>8, Zenon DEF Held, Copy
  <2>3. HeldRefs(w)' = HeldRefs(w) + 1
    BY <2>2, HeldMore, Zenon
  <2>4. MainRef(w)' = MainRef(w) /\ SpawnRefs(w)' = SpawnRefs(w)
    BY <1>8, Zenon DEF IInv, TypeOK, MainRef, SpawnRefs, Spawning, Copy
  <2>5. references'[w] = references[w] + 1
    BY <1>8, Zenon DEF IInv, TypeOK, Copy
  <2>6. HeldRefs(w) \in Nat /\ MainRef(w) \in Nat /\ SpawnRefs(w) \in Nat
    BY HeldFinite, Zenon DEF MainRef, SpawnRefs
  <2>7. references[w] = HeldRefs(w) + MainRef(w) + SpawnRefs(w)
    BY Zenon DEF IInv, RefsExact
  <2>8. references'[w] = HeldRefs(w)' + MainRef(w)' + SpawnRefs(w)'
    BY <2>3, <2>4, <2>5, <2>6, <2>7
  <2>9. QED
    BY <2>1, <2>8, RefsOne, Zenon
<1>9. ASSUME NEW c \in Client, Spawned(c)
      PROVE  RefsExact'
  <2>0. PICK w \in Worker : w = arg[c]
    BY <1>9, Zenon DEF IInv, Args, Spawned, In
  <2>1. \A v \in Worker \ {w} :
           /\ references'[v] = references[v] /\ Held(v)' = Held(v)
           /\ MainRef(v)' = MainRef(v) /\ SpawnRefs(v)' = SpawnRefs(v)
    BY <1>9, <2>0, Zenon DEF IInv, TypeOK, Held, MainRef, SpawnRefs, Spawning, Spawned, In, Goes
  <2>2. c \notin Held(w) /\ Held(w)' = Held(w) \cup {c}
    BY <1>9, <2>0, Zenon DEF IInv, SpawnerWaits, Held, Spawned, In
  <2>3. HeldRefs(w)' = HeldRefs(w) + 1
    BY <2>2, HeldMore, Zenon
  <2>4. SpawnRefs(w) = 2
    BY <1>9, <2>0, Zenon DEF SpawnRefs, Spawning, Spawned, In
  <2>5. SpawnRefs(w)' = 0
    BY <1>9, <2>0, Zenon DEF IInv, TypeOK, OneSpawner, SpawnRefs, Spawning, Spawned, In, Goes
  <2>6. MainRef(w)' = MainRef(w) /\ references'[w] = references[w] + 1 - 2
    BY <1>9, <2>0, Zenon DEF IInv, TypeOK, MainRef, Spawned
  <2>7. HeldRefs(w) \in Nat /\ MainRef(w) \in Nat
    BY HeldFinite, Zenon DEF MainRef
  <2>8. references[w] = HeldRefs(w) + MainRef(w) + SpawnRefs(w)
    BY Zenon DEF IInv, RefsExact
  <2>9. QED
    BY <2>1, <2>3, <2>4, <2>5, <2>6, <2>7, <2>8, RefsOne
<1>10. ASSUME NEW c \in Client, ReportZero(c) \/ Signal(c) \/ TestWait(c) \/
              UseWait(c)
       PROVE  RefsExact'
  <2>1. CASE ReportZero(c)
    BY <2>1, RefsFrame, Zenon DEF IInv, TypeOK, Args, MainRef, SpawnRefs, Spawning, In,
       Goes, uthreads, group, thread, ReportZero
  <2>2. CASE Signal(c)
    BY <2>2, RefsFrame, Zenon DEF IInv, TypeOK, Args, MainRef, SpawnRefs, Spawning, In,
       Goes, uthreads, group, thread, Signal
  <2>3. CASE TestWait(c)
    BY <2>3, RefsFrame, Zenon DEF IInv, TypeOK, Args, MainRef, SpawnRefs, Spawning, In,
       Goes, uthreads, group, thread, TestWait
  <2>4. CASE UseWait(c)
    BY <2>4, RefsFrame, Zenon DEF IInv, TypeOK, Args, MainRef, SpawnRefs, Spawning, In,
       Goes, uthreads, group, thread, UseWait
  <2> QED
    BY <1>10, <2>1, <2>2, <2>3, <2>4, Zenon
<1>11. ASSUME NEW c \in Client, JoinNext(c) \/ JoinDown(c) \/ JoinReturns(c) \/
              Join(c)
       PROVE  RefsExact'
  <2>1. CASE JoinNext(c)
    BY <2>1, RefsFrame, Zenon DEF IInv, TypeOK, Args, MainRef, SpawnRefs, Spawning, In,
       Goes, thread, uthreads, group, Calls, Joining, JoinNext
  <2>2. CASE JoinDown(c)
    BY <2>2, RefsFrame, Zenon DEF IInv, TypeOK, Args, MainRef, SpawnRefs, Spawning, In,
       Goes, thread, uthreads, group, Calls, Joining, JoinDown
  <2>3. CASE JoinReturns(c)
    BY <2>3, RefsFrame, Zenon DEF IInv, TypeOK, Args, MainRef, SpawnRefs, Spawning, In,
       Goes, thread, uthreads, group, Calls, Joining, JoinReturns
  <2>4. CASE Join(c)
    BY <2>4, RefsFrame, Zenon DEF IInv, TypeOK, Args, MainRef, SpawnRefs, Spawning, In,
       Goes, thread, uthreads, group, Calls, Joining, Join
  <2> QED
    BY <1>11, <2>1, <2>2, <2>3, <2>4, Zenon
<1>12. ASSUME NEW c \in Client, Threads(c)
       PROVE  RefsExact'
  <2>1. ASSUME NEW w \in Worker
        PROVE  references'[w] = HeldRefs(w)' + MainRef(w)' + SpawnRefs(w)'
    <3>1. MainRef(w)' = MainRef(w) /\ SpawnRefs(w)' = SpawnRefs(w)
      BY <1>12, Zenon DEF MainRef, SpawnRefs, Spawning, Threads
    <3>2. references[w] = HeldRefs(w) + MainRef(w) + SpawnRefs(w)
      BY Zenon DEF IInv, RefsExact
    <3>3. HeldRefs(w) \in Nat /\ MainRef(w) \in Nat /\ SpawnRefs(w) \in Nat
      BY HeldFinite, Zenon DEF MainRef, SpawnRefs
    <3>4. CASE w \in running /\ <<c, w>> \notin objects
      <4>1. c \notin Held(w) /\ Held(w)' = Held(w) \cup {c}
        BY <1>12, <3>4, Zenon DEF Held, Threads
      <4>2. HeldRefs(w)' = HeldRefs(w) + 1
        BY <4>1, HeldMore, Zenon
      <4>3. references'[w] = references[w] + 1
        BY <1>12, <3>4, Zenon DEF Threads
      <4>4. QED
        BY <3>1, <3>2, <3>3, <4>2, <4>3
    <3>5. CASE ~(w \in running /\ <<c, w>> \notin objects)
      <4>1. Held(w)' = Held(w)
        BY <1>12, <3>5, Zenon DEF Held, Threads
      <4>2. references'[w] = references[w]
        BY <1>12, <3>5 DEF IInv, TypeOK, Threads
      <4>3. QED
        BY <3>1, <3>2, <4>1, <4>2, Zenon DEF HeldRefs
    <3>6. QED
      BY <3>4, <3>5, Zenon
  <2>2. QED
    BY <2>1, Zenon DEF RefsExact
<1>13. CASE UNCHANGED vars
  BY <1>13, RefsFrame, Zenon DEF IInv, TypeOK, Args, MainRef, SpawnRefs, Spawning, vars,
     thread, uthreads, client, group
<1>14. QED
  BY <1>1, <1>2, <1>3, <1>4, <1>5, <1>6, <1>7, <1>8, <1>9, <1>10, <1>11, <1>12, <1>13, Zenon
     DEF Next, Works, Finishes

\* What join compares is what it was when no thread has started or ended.
LEMMA JoinFrame ==
    ASSUME IInv, attached' = attached, sema' = sema, Waited' = Waited,
           \A w \in Worker : w \in Live <=> w \in Live'
    PROVE  JoinCount'
<1>1. Live' = Live
  BY Zenon DEF Live
<1>2. QED
  BY <1>1, Zenon DEF IInv, JoinCount

\* The threads started are those alive, those reported, and those joined.
LEMMA CountStep ==
    ASSUME IInv, [Next]_vars
    PROVE  JoinCount'
<1> USE Kinds DEF PC, At
<1>1. ASSUME NEW w \in Worker, Create(w)
      PROVE  JoinCount'
  <2>1. w \notin Live /\ Live' = Live \cup {w}
    BY <1>1 DEF IInv, TypeOK, Live, Create, Goto
  <2>2. Cardinality(Live)' = Cardinality(Live) + 1
    BY <2>1, LiveFinite, FS_AddElement, Zenon
  <2>3. Waited' = Waited /\ attached' = attached + 1 /\ sema' = sema
    BY <1>1, Zenon DEF Waited, Create, client
  <2>4. Waited \in Nat /\ attached \in Nat /\ sema \in Nat /\ Cardinality(Live) \in Nat
    BY LiveFinite, Zenon DEF Waited, IInv, TypeOK
  <2>5. attached + Waited = Cardinality(Live) + sema
    BY Zenon DEF IInv, JoinCount
  <2>6. QED
    BY <2>2, <2>3, <2>4, <2>5 DEF JoinCount
<1>2. ASSUME NEW w \in Worker, Report(w) \/ Main(w) \/ Run(w) \/ Block(w) \/
             WaitReturns(w) \/ WaitEnds(w)
      PROVE  JoinCount'
  <2>1. CASE Report(w)
    BY <2>1, JoinFrame, Zenon DEF IInv, TypeOK, Args, Live, Waited, Goto, uthreads,
       client, group, Released, thread, Report
  <2>2. CASE Main(w)
    BY <2>2, JoinFrame DEF IInv, TypeOK, Args, Live, Waited, Goto, uthreads,
       client, group, Released, thread, Main
  <2>3. CASE Run(w)
    BY <2>3, JoinFrame, Zenon DEF IInv, TypeOK, Args, Live, Waited, Goto, uthreads,
       client, group, Released, thread, Run
  <2>4. CASE Block(w)
    BY <2>4, JoinFrame, Zenon DEF IInv, TypeOK, Args, Live, Waited, Goto, uthreads,
       client, group, Released, thread, Block
  <2>5. CASE WaitReturns(w)
    BY <2>5, JoinFrame, Zenon DEF IInv, TypeOK, Args, Live, Waited, Goto, uthreads,
       client, group, Released, thread, WaitReturns
  <2>6. CASE WaitEnds(w)
    BY <2>6, JoinFrame, Zenon DEF IInv, TypeOK, Args, Live, Waited, Goto, uthreads,
       client, group, Released, thread, WaitEnds
  <2> QED
    BY <1>2, <2>1, <2>2, <2>3, <2>4, <2>5, <2>6, Zenon
<1>3. ASSUME NEW w \in Worker, Test(w) \/ TestAny(w) \/ Unreachable(w) \/ Awake(w) \/ End(w)
      PROVE  JoinCount'
  <2>1. CASE Test(w)
    BY <2>1, JoinFrame, Zenon DEF IInv, TypeOK, Args, Live, Waited, Goto, uthreads,
       client, group, Test
  <2>2. CASE TestAny(w)
    BY <2>2, JoinFrame, Zenon DEF IInv, TypeOK, Args, Live, Waited, Goto, uthreads,
       client, group, TestAny
  <2>3. CASE Unreachable(w)
    BY <2>3, JoinFrame, Zenon DEF IInv, TypeOK, Args, Live, Waited, Goto, uthreads,
       client, group, Unreachable
  <2>4. CASE Awake(w)
    BY <2>4, JoinFrame, Zenon DEF IInv, TypeOK, Args, Live, Waited, Goto, uthreads,
       client, group, Awake
  <2>5. CASE End(w)
    BY <2>5, JoinFrame, Zenon DEF IInv, TypeOK, Args, Live, Waited, Goto, uthreads,
       client, group, End
  <2> QED
    BY <1>3, <2>1, <2>2, <2>3, <2>4, <2>5, Zenon
<1>4. ASSUME NEW w \in Worker, Stop(w)
      PROVE  JoinCount'
  <2>1. w \in Live /\ Live' = Live \ {w}
    BY <1>4, Zenon DEF IInv, TypeOK, Live, Stop, Goto
  <2>2. Cardinality(Live)' = Cardinality(Live) - 1
    BY <2>1, LiveFinite, FS_RemoveElement, Zenon
  <2>3. Waited' = Waited /\ attached' = attached /\ sema' = sema + 1
    BY <1>4, Zenon DEF Waited, Stop, client
  <2>4. Waited \in Nat /\ attached \in Nat /\ sema \in Nat /\ Cardinality(Live) \in Nat
    BY LiveFinite, Zenon DEF Waited, IInv, TypeOK
  <2>5. attached + Waited = Cardinality(Live) + sema
    BY Zenon DEF IInv, JoinCount
  <2>6. QED
    BY <2>2, <2>3, <2>4, <2>5 DEF JoinCount
<1>5. ASSUME NEW c \in Client, NEW w \in Worker, Spawn(c, w)
      PROVE  JoinCount'
  BY <1>5, JoinFrame, Zenon DEF IInv, TypeOK, Args, Live, Waited, Spawn, Calls, Joining,
     Goto, uthreads, group
<1>6. ASSUME NEW c \in Client, NEW w \in Worker, Drop(c, w) \/ Insert(c, w) \/ Wake(c,
             w)
      PROVE  JoinCount'
  BY <1>6, JoinFrame, Zenon DEF IInv, TypeOK, Args, Live, Waited, Drop, Calls, uthreads,
     group, Insert, thread, Wake
<1>7. ASSUME NEW c \in Client, NEW b \in Client, NEW w \in Worker, Copy(c, b, w)
      PROVE  JoinCount'
  BY <1>7, JoinFrame, Zenon DEF IInv, TypeOK, Args, Live, Waited, Copy, In, uthreads, group
<1>8. ASSUME NEW c \in Client, Spawned(c) \/ ReportZero(c) \/ Signal(c) \/ TestWait(c)
             \/ UseWait(c)
      PROVE  JoinCount'
  BY <1>8, JoinFrame DEF IInv, TypeOK, Args, Live, Waited, Spawned, In, Goes,
     uthreads, group, ReportZero, Signal, TestWait, thread, UseWait
<1>9. ASSUME NEW c \in Client, JoinNext(c)
      PROVE  JoinCount'
  <2>1. Waited = 0 /\ Waited' = 1
    BY <1>9, Zenon DEF IInv, TypeOK, OneJoiner, Waited, JoinNext, In, Goes
  <2>2. Live' = Live /\ attached' = attached - 1 /\ sema' = sema
    BY <1>9, Zenon DEF Live, JoinNext, thread
  <2>3. QED
    BY <2>1, <2>2, LiveFinite DEF IInv, TypeOK, JoinCount
<1>10. ASSUME NEW c \in Client, JoinDown(c)
       PROVE  JoinCount'
  <2>1. Waited = 1 /\ Waited' = 0
    BY <1>10, Zenon DEF IInv, TypeOK, OneJoiner, Waited, JoinDown, In, Goes
  <2>2. Live' = Live /\ attached' = attached /\ sema' = sema - 1
    BY <1>10, Zenon DEF Live, JoinDown, thread
  <2>3. QED
    BY <2>1, <2>2, LiveFinite DEF IInv, TypeOK, JoinCount
<1>11. ASSUME NEW c \in Client, JoinReturns(c) \/ Join(c) \/ Threads(c)
       PROVE  JoinCount'
  BY <1>11, JoinFrame, Zenon DEF IInv, TypeOK, Args, Live, Waited, JoinReturns, In, Goes,
     thread, uthreads, group, Join, Calls, Joining, Threads
<1>12. CASE UNCHANGED vars
  BY <1>12, JoinFrame, Zenon DEF IInv, TypeOK, Args, Live, Waited, vars, thread, uthreads,
     client, group
<1>13. QED
  BY <1>1, <1>2, <1>3, <1>4, <1>5, <1>6, <1>7, <1>8, <1>9, <1>10, <1>11, <1>12, Zenon DEF
     Next, Works, Finishes

----------------------------------------------------------------------------
(* The theorems. *)

\* A group without threads.
LEMMA InitIInv == Init => IInv
<1> SUFFICES ASSUME Init PROVE IInv
  BY Zenon
<1>1. TypeOK /\ ReadyAlive /\ Args /\ OneSpawner /\ SpawnerWaits /\ CreatedSpawned
  BY ThreadAssumption DEF Init, TypeOK, PC, At, ReadyAlive, Args, OneSpawner, SpawnerWaits,
     CreatedSpawned
<1>2. Reachable /\ OneJoiner /\ JoinAlone /\ EndIsSignalled
  BY Zenon DEF Init, Reachable, OneJoiner, JoinAlone, EndIsSignalled
<1>3. \A w \in Worker : HeldRefs(w) = 0
  BY HeldFinite, Zenon DEF Init, Held
<1>4. RefsExact
  BY <1>3 DEF Init, RefsExact, MainRef, SpawnRefs, Spawning
<1>5. Live = {} /\ Waited = 0
  BY Zenon DEF Init, Live, Waited
<1>6. JoinCount
  BY <1>5, FS_EmptySet, Zenon DEF Init, JoinCount
<1>7. QED
  BY <1>1, <1>2, <1>4, <1>6, Zenon DEF IInv

\* The inductive invariant of threads and their group.
THEOREM ThreadInvariance == Spec => []IInv
<1>1. IInv /\ [Next]_vars => IInv'
  BY TypeStep, SpawnStep, ReachStep, EndStep, RefsStep, CountStep, Zenon DEF IInv
<1>2. QED
  BY InitIInv, <1>1, PTL DEF Spec

\* Counts stay natural numbers: no reference is released that was not taken.
THEOREM ThreadTypes == Spec => []TypeOK
<1>1. IInv => TypeOK
  BY Zenon DEF IInv
<1>2. QED
  BY ThreadInvariance, <1>1, PTL

\* Thread::addRef and release: the count is exactly the references there are.
THEOREM ReferencesCounted == Spec => []ReferencesExact
<1>1. IInv => ReferencesExact
  BY Zenon DEF IInv, RefsExact, ReferencesExact, HeldRefs, Held, MainRef, SpawnRefs, Spawning
<1>2. QED
  BY ThreadInvariance, <1>1, PTL

\* threadUnreachable: a thread that a Thread object refers to is kept running.
THEOREM ThreadKept == Spec => []KeptRunning
<1>1. IInv => KeptRunning
  BY Zenon DEF IInv, Reachable, KeptRunning, Over
<1>2. QED
  BY ThreadInvariance, <1>1, PTL

\* reportZero: a thread that can end is told so.
THEOREM ThreadTold == Spec => []EndIsSignalled
<1>1. IInv => EndIsSignalled
  BY Zenon DEF IInv
<1>2. QED
  BY ThreadInvariance, <1>1, PTL

\* ThreadGroup::join returns only when all threads have left their final loops and
\* reported it (threadTerminated).
THEOREM JoinIsRight == Spec => JoinWaits
<1>1. ASSUME IInv, NEW c \in Client, JoinReturns(c), NEW w \in Worker
      PROVE  pc[w] \in {"none", "ending", "dead"}
  <2>1. Waited = 0 /\ attached = 0
    BY <1>1, Zenon DEF IInv, OneJoiner, Waited, JoinReturns, In
  <2>2. Cardinality(Live) = 0
    BY <2>1, LiveFinite, <1>1 DEF IInv, TypeOK, JoinCount
  <2>3. Live = {}
    BY <2>2, LiveFinite, FS_EmptySet, Zenon
  <2>4. pc[w] # "created"
    BY <1>1, Zenon DEF IInv, JoinAlone, CreatedSpawned, Spawning, JoinReturns, In
  <2>5. QED
    BY <2>3, <2>4, Zenon DEF Live
<1>2. IInv /\ [Next]_vars =>
         [\A c \in Client :
             JoinReturns(c) => \A w \in Worker : pc[w] \in {"none", "ending", "dead"}]_vars
  BY <1>1, Zenon
<1>3. QED
  BY ThreadInvariance, <1>2, PTL DEF Spec, JoinWaits
============================================================================
