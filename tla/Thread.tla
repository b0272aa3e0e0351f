------------------------------- MODULE Thread -------------------------------
(***************************************************************************)
(* The life of an OS thread (OS/Thread.cpp) in a thread group              *)
(* (OS/ThreadGroup.cpp).  Clients spawn threads, copy and drop the Thread  *)
(* objects that refer to them, start UThreads on them, wake UThreads that  *)
(* are blocked on them, ask the group for its threads, and join the group. *)
(* A thread first obeys its ThreadWait, if it has one, and then runs until *)
(* it concludes that nobody can reach it any more.                         *)
(*                                                                         *)
(* A step is one atomic access or one critical section.  The IOCondition   *)
(* is a flag that wait consumes (module IOCondition has its steps), the    *)
(* UThreads of a thread are counted: alive, and ready to run (module       *)
(* UThreadState).  A ThreadWait is external: its signal sets a flag, its   *)
(* wait returns when the flag is set or when it pleases.                   *)
(***************************************************************************)
EXTENDS Naturals, FiniteSets

CONSTANTS
    Worker,         \* the threads of the group
    Client,         \* the threads that use them
    HasWait,        \* the workers spawned with a ThreadWait
    NoWorker,       \* "no worker"
    MaxWork         \* bound: UThreads alive at a time, on each worker

ASSUME ThreadAssumption ==
    /\ HasWait \subseteq Worker
    /\ NoWorker \notin Worker
    /\ MaxWork \in [Worker -> Nat]
    /\ IsFiniteSet(Worker) /\ IsFiniteSet(Client)

VARIABLES
    pc,             \* pc[w]: where w is in threadMain
    references,     \* references[w]
    wakeCond,       \* wakeCond[w]: signalled
    wait,           \* wait[w]: d.wait is not null
    waitSignal,     \* waitSignal[w]: the ThreadWait is signalled
    alive, ready,   \* the UThreads of w: alive, and of these ready
    objects,        \* the Thread objects: who refers to which worker
    at,             \* at[c]: where c is in a call
    arg,            \* arg[c]: the worker c works on
    attached, running, sema     \* the group

thread == <<pc, references, wakeCond, wait, waitSignal>>
uthreads == <<alive, ready>>
client == <<objects, at, arg>>
group == <<attached, running, sema>>
vars == <<thread, uthreads, client, group>>

\* none: not spawned; created: started; setup: about to report back;
\* main: its function; loop, waiting: obeying the ThreadWait; final, test, asleep:
\* the final loop; unreachable: about to ask the group; stopping: left the final loop;
\* ending: has reported its end to the group, and has its last lines to run.
PC == {"none", "created", "setup", "main", "loop", "waiting", "final", "test",
       "asleep", "unreachable", "stopping", "ending", "dead"}

\* A thread that has left its final loop.
Over == {"stopping", "ending", "dead"}

\* spawning: waiting for the new thread; zero: has dropped the last reference;
\* pushed, signal, use: in reportWake; join, down: in ThreadGroup::join.
At == {"idle", "spawning", "zero", "pushed", "signal", "use", "join", "down"}

TypeOK ==
    /\ pc \in [Worker -> PC] /\ references \in [Worker -> Nat]
    /\ wakeCond \in [Worker -> BOOLEAN]
    /\ wait \in [Worker -> BOOLEAN] /\ waitSignal \in [Worker -> BOOLEAN]
    /\ alive \in [Worker -> Nat] /\ ready \in [Worker -> Nat]
    /\ objects \subseteq Client \X Worker
    /\ at \in [Client -> At] /\ arg \in [Client -> Worker \cup {NoWorker}]
    /\ attached \in Nat /\ running \subseteq Worker /\ sema \in Nat

Init ==
    /\ pc = [w \in Worker |-> "none"] /\ references = [w \in Worker |-> 0]
    /\ wakeCond = [w \in Worker |-> FALSE]
    /\ wait = [w \in Worker |-> w \in HasWait]
    /\ waitSignal = [w \in Worker |-> FALSE]
    /\ alive = [w \in Worker |-> 0] /\ ready = [w \in Worker |-> 0]
    /\ objects = {} /\ at = [c \in Client |-> "idle"]
    /\ arg = [c \in Client |-> NoWorker]
    /\ attached = 0 /\ running = {} /\ sema = 0

----------------------------------------------------------------------------
\* The worker's side: threadMain.

Goto(w, l) == pc' = [pc EXCEPT ![w] = l]

\* Mutant of Create: the thread is not counted as attached.
CreateUncounted(w) ==
    /\ pc[w] = "created"
    /\ references' = [references EXCEPT ![w] = 3]
    /\ running' = running \cup {w}
    /\ Goto(w, "setup")
    /\ UNCHANGED <<wakeCond, wait, waitSignal, uthreads, client, attached, sema>>

\* Three references: for spawn, for ~ThreadStart, and for the main job.  Then
\* threadStarted (between its two steps nobody sees the thread).
Create(w) ==
    /\ pc[w] = "created"
    /\ references' = [references EXCEPT ![w] = 3]
    /\ attached' = attached + 1
    /\ running' = running \cup {w}
    /\ Goto(w, "setup")
    /\ UNCHANGED <<wakeCond, wait, waitSignal, uthreads, client, sema>>

\* d.release(): the main job is done.  At zero the thread signals itself.
Released(w) ==
    /\ references' = [references EXCEPT ![w] = @ - 1]
    /\ wakeCond' = [wakeCond EXCEPT ![w] = @ \/ references[w] = 1]
    /\ Goto(w, "final")

\* wait->init, start.sema.up: the spawner may go on.
Report(w) ==
    /\ pc[w] = "setup"
    /\ Goto(w, "main")
    /\ UNCHANGED <<references, wakeCond, wait, waitSignal, uthreads, client, group>>

\* The function of the thread has returned.
Main(w) ==
    /\ pc[w] = "main"
    /\ IF wait[w]
       THEN Goto(w, "loop") /\ UNCHANGED <<references, wakeCond>>
       ELSE Released(w)
    /\ UNCHANGED <<wait, waitSignal, uthreads, client, group>>

\* UThread::leave: a UThread runs, until it ends or blocks.
Run(w) ==
    /\ pc[w] \in {"loop", "final"} /\ ready[w] > 0
    /\ ready' = [ready EXCEPT ![w] = @ - 1]
    /\ alive' \in {alive, [alive EXCEPT ![w] = @ - 1]}
    /\ UNCHANGED <<thread, client, group>>

\* Nothing is ready: waitForWork calls wait->wait, which blocks.
Block(w) ==
    /\ pc[w] = "loop" /\ ready[w] = 0
    /\ Goto(w, "waiting")
    /\ UNCHANGED <<references, wakeCond, wait, waitSignal, uthreads, client, group>>

\* wait->wait returns true: it was signalled, or it just returns.
WaitReturns(w) ==
    /\ pc[w] = "waiting"
    /\ waitSignal' = [waitSignal EXCEPT ![w] = FALSE]
    /\ Goto(w, "loop")
    /\ UNCHANGED <<references, wakeCond, wait, uthreads, client, group>>

\* wait->wait returns false: no more notifications.
WaitEnds(w) ==
    /\ pc[w] = "waiting"
    /\ wait' = [wait EXCEPT ![w] = FALSE]
    /\ Released(w)
    /\ UNCHANGED <<waitSignal, uthreads, client, group>>

\* The final loop: nothing is ready; look at the references and UThread::any.
Test(w) ==
    /\ pc[w] = "final" /\ ready[w] = 0
    /\ Goto(w, IF references[w] = 0 THEN "test" ELSE "asleep")
    /\ UNCHANGED <<references, wakeCond, wait, waitSignal, uthreads, client, group>>

TestAny(w) ==
    /\ pc[w] = "test"
    /\ Goto(w, IF alive[w] = 0 THEN "unreachable" ELSE "asleep")
    /\ UNCHANGED <<references, wakeCond, wait, waitSignal, uthreads, client, group>>

\* Mutant of Unreachable: the references are not looked at again in the lock.
UnreachableAnyway(w) ==
    /\ pc[w] = "unreachable"
    /\ running' = running \ {w}
    /\ Goto(w, "stopping")
    /\ UNCHANGED <<references, wakeCond, wait, waitSignal, uthreads, client, attached, sema>>

\* ThreadGroupData::threadUnreachable, in the lock of the group.
Unreachable(w) ==
    /\ pc[w] = "unreachable"
    /\ IF references[w] > 0
       THEN Goto(w, "asleep") /\ UNCHANGED running
       ELSE Goto(w, "stopping") /\ running' = running \ {w}
    /\ UNCHANGED <<references, wakeCond, wait, waitSignal, uthreads, client, attached, sema>>

\* waitForWork: wakeCond.wait returns.
Awake(w) ==
    /\ pc[w] = "asleep" /\ wakeCond[w]
    /\ wakeCond' = [wakeCond EXCEPT ![w] = FALSE]
    /\ Goto(w, "final")
    /\ UNCHANGED <<references, wait, waitSignal, uthreads, client, group>>

\* delete wait; group->threadTerminated(), which raises the semaphore that join waits for.
Stop(w) ==
    /\ pc[w] = "stopping"
    /\ sema' = sema + 1
    /\ Goto(w, "ending")
    /\ UNCHANGED <<references, wakeCond, wait, waitSignal, uthreads, client, attached, running>>

\* The lines after that: the thread gives up the group, currentThreadData and its
\* ioComplete, and d goes out of scope.  A join may have returned before.
End(w) ==
    /\ pc[w] = "ending"
    /\ Goto(w, "dead")
    /\ UNCHANGED <<references, wakeCond, wait, waitSignal, uthreads, client, group>>

----------------------------------------------------------------------------
\* The client's side.

\* c, in no call, calls something that concerns w, and goes on at l.
Calls(c, w, l) ==
    /\ at[c] = "idle"
    /\ at' = [at EXCEPT ![c] = l]
    /\ arg' = [arg EXCEPT ![c] = IF l = "idle" THEN NoWorker ELSE w]

In(c, l) == at[c] = l

\* The call of c goes on at l.
Goes(c, l) ==
    /\ at' = [at EXCEPT ![c] = l]
    /\ arg' = [arg EXCEPT ![c] = IF l = "idle" THEN NoWorker ELSE @]

Joining == \E c \in Client : at[c] \in {"join", "down"}

\* Thread::spawn.  Nobody adds threads during a join (ThreadGroup.h).
Spawn(c, w) ==
    /\ pc[w] = "none" /\ ~Joining
    /\ Calls(c, w, "spawning")
    /\ Goto(w, "created")
    /\ UNCHANGED <<references, wakeCond, wait, waitSignal, uthreads, objects, group>>

\* Mutant of Spawned: the Thread object takes over no reference.
SpawnedUncounted(c) ==
    LET w == arg[c]
    IN  /\ In(c, "spawning") /\ pc[w] \notin {"created", "setup"}
        /\ objects' = objects \cup {<<c, w>>}
        /\ references' = [references EXCEPT ![w] = @ - 2]
        /\ Goes(c, "idle")
        /\ UNCHANGED <<pc, wakeCond, wait, waitSignal, uthreads, group>>

\* spawn returns: a Thread object is made, and two references are given back.
Spawned(c) ==
    LET w == arg[c]
    IN  /\ In(c, "spawning") /\ pc[w] \notin {"created", "setup"}
        /\ objects' = objects \cup {<<c, w>>}
        /\ references' = [references EXCEPT ![w] = @ + 1 - 2]
        /\ Goes(c, "idle")
        /\ UNCHANGED <<pc, wakeCond, wait, waitSignal, uthreads, group>>

\* c copies a Thread object of another client.
Copy(c, b, w) ==
    /\ In(c, "idle") /\ <<b, w>> \in objects /\ <<c, w>> \notin objects
    /\ objects' = objects \cup {<<c, w>>}
    /\ references' = [references EXCEPT ![w] = @ + 1]
    /\ UNCHANGED <<pc, wakeCond, wait, waitSignal, uthreads, at, arg, group>>

\* ~Thread, release: reportZero follows in a step of its own.
Drop(c, w) ==
    /\ <<c, w>> \in objects
    /\ Calls(c, w, IF references[w] = 1 THEN "zero" ELSE "idle")
    /\ objects' = objects \ {<<c, w>>}
    /\ references' = [references EXCEPT ![w] = @ - 1]
    /\ UNCHANGED <<pc, wakeCond, wait, waitSignal, uthreads, group>>

\* Mutant of ReportZero: nobody is told.
ReportNothing(c) ==
    /\ In(c, "zero")
    /\ Goes(c, "idle")
    /\ UNCHANGED <<thread, uthreads, objects, group>>

ReportZero(c) ==
    /\ In(c, "zero")
    /\ wakeCond' = [wakeCond EXCEPT ![arg[c]] = TRUE]
    /\ Goes(c, "idle")
    /\ UNCHANGED <<pc, references, wait, waitSignal, uthreads, objects, group>>

\* UThread::spawn on w: through a Thread object.
Insert(c, w) ==
    /\ <<c, w>> \in objects /\ alive[w] < MaxWork[w]
    /\ Calls(c, w, "pushed")
    /\ alive' = [alive EXCEPT ![w] = @ + 1]
    /\ ready' = [ready EXCEPT ![w] = @ + 1]
    /\ UNCHANGED <<thread, objects, group>>

\* UThreadState::wake of a UThread that has blocked: no Thread object is needed.
Wake(c, w) ==
    /\ ready[w] < alive[w]
    /\ Calls(c, w, "pushed")
    /\ ready' = [ready EXCEPT ![w] = @ + 1]
    /\ UNCHANGED <<thread, alive, objects, group>>

\* reportWake: "We need to signal both".
Signal(c) ==
    LET w == arg[c]
    IN  /\ In(c, "pushed")
        /\ wakeCond' = [wakeCond EXCEPT ![w] = TRUE]
        /\ Goes(c, "signal")
        /\ UNCHANGED <<pc, references, wait, waitSignal, uthreads, objects, group>>

\* Mutant of TestWait: the ThreadWait is not told.
TestNothing(c) ==
    /\ In(c, "signal")
    /\ Goes(c, "idle")
    /\ UNCHANGED <<thread, uthreads, objects, group>>

TestWait(c) ==
    /\ In(c, "signal")
    /\ Goes(c, IF wait[arg[c]] THEN "use" ELSE "idle")
    /\ UNCHANGED <<thread, uthreads, objects, group>>

UseWait(c) ==
    /\ In(c, "use")
    /\ waitSignal' = [waitSignal EXCEPT ![arg[c]] = TRUE]
    /\ Goes(c, "idle")
    /\ UNCHANGED <<pc, references, wakeCond, wait, uthreads, objects, group>>

\* ThreadGroupData::threads, in the lock: a Thread object for every thread.
Threads(c) ==
    /\ In(c, "idle") /\ running # {}
    /\ objects' = objects \cup {<<c, w>> : w \in running}
    /\ references' = [w \in Worker |->
          references[w] + IF w \in running /\ <<c, w>> \notin objects THEN 1 ELSE 0]
    /\ UNCHANGED <<pc, wakeCond, wait, waitSignal, uthreads, at, arg, group>>

\* ThreadGroupData::join; "only call from one thread".
Join(c) ==
    /\ ~Joining /\ \A b \in Client : at[b] # "spawning"
    /\ Calls(c, NoWorker, "join")
    /\ UNCHANGED <<thread, uthreads, objects, group>>

JoinNext(c) ==
    /\ In(c, "join") /\ attached > 0
    /\ attached' = attached - 1
    /\ Goes(c, "down")
    /\ UNCHANGED <<thread, uthreads, objects, running, sema>>

JoinDown(c) ==
    /\ In(c, "down") /\ sema > 0
    /\ sema' = sema - 1
    /\ Goes(c, "join")
    /\ UNCHANGED <<thread, uthreads, objects, attached, running>>

JoinReturns(c) ==
    /\ In(c, "join") /\ attached = 0
    /\ Goes(c, "idle")
    /\ UNCHANGED <<thread, uthreads, objects, group>>

----------------------------------------------------------------------------
\* What a worker does by itself.
Works(w) ==
    \/ Create(w) \/ Report(w) \/ Main(w) \/ Run(w) \/ Block(w)
    \/ Test(w) \/ TestAny(w) \/ Unreachable(w) \/ Awake(w) \/ Stop(w)
    \/ End(w)

\* What a client has to do once it is in a call.
Finishes(c) ==
    \/ Spawned(c) \/ ReportZero(c) \/ Signal(c) \/ TestWait(c) \/ UseWait(c)
    \/ JoinNext(c) \/ JoinDown(c) \/ JoinReturns(c)

Next ==
    \/ \E w \in Worker : Works(w) \/ WaitReturns(w) \/ WaitEnds(w)
    \/ \E c \in Client :
          \/ \E w \in Worker :
                \/ Spawn(c, w) \/ Drop(c, w) \/ Insert(c, w) \/ Wake(c, w)
                \/ \E b \in Client : Copy(c, b, w)
          \/ Finishes(c) \/ Threads(c) \/ Join(c)

\* The OS runs its threads, and a ThreadWait returns when it has been signalled.
Fairness ==
    /\ \A w \in Worker : WF_vars(Works(w)) /\ WF_vars(waitSignal[w] /\ WaitReturns(w))
    /\ \A c \in Client : WF_vars(Finishes(c))

Spec == Init /\ [][Next]_vars /\ Fairness

----------------------------------------------------------------------------
\* The references of a thread are exactly its Thread objects, the two that the
\* spawner takes over, and the one of the main job: each has one release.
ReferencesExact ==
    \A w \in Worker : references[w] =
        Cardinality({c \in Client : <<c, w>> \in objects})
        + (IF pc[w] \in {"setup", "main", "loop", "waiting"} THEN 1 ELSE 0)
        + (IF pc[w] # "created" /\ \E c \in Client : at[c] = "spawning" /\ arg[c] = w
           THEN 2 ELSE 0)

\* "The underlying OS thread will be kept running (even though it is not doing
\* anything useful) as long as there are any Thread objects referring the
\* thread" (Thread.h), those included that ThreadGroup::threads hands out while
\* the thread is about to leave.
KeptRunning ==
    \A w \in Worker : (\E c \in Client : <<c, w>> \in objects)
        => pc[w] \notin {"none"} \cup Over

\* ThreadGroup::join returns only when every thread of the group has left its
\* final loop and reported that to the group: none of them runs a UThread or waits
\* for work any more, and none can be asked for.  It says nothing of the lines that
\* a thread has still to run after its report (End).
JoinWaits ==
    [][\A c \in Client :
          JoinReturns(c) => \A w \in Worker : pc[w] \in {"none", "ending", "dead"}]_vars

\* "Wait for all threads in this group to exit" (ThreadGroup.h): join returns only
\* when no thread of the group runs.
JoinWaitsForExit ==
    [][\A c \in Client : JoinReturns(c) => \A w \in Worker : pc[w] \in {"none", "dead"}]_vars

\* A thread that sleeps while one of its UThreads is ready is woken, whether it
\* sleeps on its condition, in its ThreadWait, or is between the two.
WorkWakes ==
    \A w \in Worker : pc[w] \in {"asleep", "waiting"} /\ ready[w] > 0
        ~> pc[w] \in {"loop", "final"}

\* A thread that nobody refers to and that has no UThreads left does not sleep
\* on: its condition is signalled, or whoever dropped the last reference is
\* about to signal it.
EndIsSignalled ==
    \A w \in Worker :
        pc[w] = "asleep" /\ references[w] = 0 /\ alive[w] = 0 /\ ~wakeCond[w]
            => \E c \in Client : at[c] = "zero" /\ arg[c] = w

\* "If the refcount is zero, we can safely say that no one else can increase it
\* after this point (assuming no UThreads).  At that point no one can add more
\* UThreads either, so in this case we can not have any race-conditions"
\* (Thread.cpp, threadMain): a thread that ends leaves no UThread behind.
NoneLeftBehind ==
    \A w \in Worker : pc[w] \in Over => alive[w] = 0

\* "Now, no one has any knowledge of our existence, we can safely delete the
\* 'wait' now" (Thread.cpp, threadMain): when a thread has left its final loop,
\* nobody is about to touch its ThreadData or its ThreadWait.
NobodyKnows ==
    \A c \in Client : at[c] \in {"zero", "pushed", "signal", "use"}
        => pc[arg[c]] \notin Over
============================================================================
