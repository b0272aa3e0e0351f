------------------------------- MODULE Event -------------------------------
(***************************************************************************)
(* os::Event (OS/Sync.cpp) and storm::Event, which forwards to it: a flag  *)
(* that UThreads wait for.  set() raises the flag, takes everybody off the *)
(* queue inside the event's lock, and wakes them after releasing it.       *)
(* wait() looks at the flag before it takes the lock.                      *)
(*                                                                         *)
(* A step is one atomic access or one critical section; the UThreads       *)
(* switch only where the code does.  A UThread calls the events it is a    *)
(* user of, in any order, and may yield between two calls.                 *)
(***************************************************************************)
EXTENDS ReadyQueue, FiniteSets

CONSTANTS
    Ev,             \* the events
    Users,          \* Users[e]: the UThreads that call e
    NoEv,           \* "in no call"
    MaxCalls        \* bound: calls a UThread makes

ASSUME EventAssumption ==
    /\ Users \in [Ev -> SUBSET UThread]
    /\ NoEv \notin Ev
    /\ MaxCalls \in Nat

VARIABLES
    s,              \* s[e]: the flag
    waiting,        \* waiting[e]: the UThreads queued in wait(), in order
    pc,             \* pc[u]: what u does next
    arg,            \* arg[u]: the event u has called
    local,          \* local[u]: the list set() wakes, for u in set()
    calls,          \* calls[u]: calls u may still make
    excused         \* excused[u]: a set() was in progress since u called wait()

vars == <<ready, s, waiting, pc, arg, local, calls, excused>>

\* idle: between calls; enqueue: saw the flag down; parked: queued by wait();
\* grab: set() has raised the flag; wake: set() has emptied the queue.
PC == {"idle", "enqueue", "parked", "grab", "wake"}

TypeOK ==
    /\ ready \in [OSThread -> Seq(UThread)]
    /\ s \in [Ev -> {0, 1}]
    /\ waiting \in [Ev -> Seq(UThread)]
    /\ pc \in [UThread -> PC]
    /\ arg \in [UThread -> Ev \cup {NoEv}]
    /\ local \in [UThread -> Seq(UThread)]
    /\ calls \in [UThread -> 0 .. MaxCalls]
    /\ excused \in [UThread -> BOOLEAN]

Init ==
    /\ ready = Started
    /\ s = [e \in Ev |-> 0]
    /\ waiting = [e \in Ev |-> <<>>]
    /\ pc = [u \in UThread |-> "idle"]
    /\ arg = [u \in UThread |-> NoEv]
    /\ local = [u \in UThread |-> <<>>]
    /\ calls = [u \in UThread |-> MaxCalls]
    /\ excused = [u \in UThread |-> FALSE]

----------------------------------------------------------------------------
At(u, l) == Runs(u) /\ pc[u] = l

\* u calls a function of e and continues at label l.
Calls(u, e, l) ==
    /\ At(u, "idle")
    /\ u \in Users[e]
    /\ calls[u] > 0
    /\ calls' = [calls EXCEPT ![u] = @ - 1]
    /\ pc' = [pc EXCEPT ![u] = l]
    /\ arg' = [arg EXCEPT ![u] = IF l = "idle" THEN NoEv ELSE e]

\* The call u is in returns.
Returns(u) ==
    /\ pc' = [pc EXCEPT ![u] = "idle"]
    /\ arg' = [arg EXCEPT ![u] = NoEv]
    /\ UNCHANGED calls

\* A set() of e has not taken the waiters off the queue yet.
InSet(e) == \E w \in UThread : pc[w] = "grab" /\ arg[w] = e

\* Whoever is in wait() now may be released by a set() of e.
NoteSet(e) == excused' = [u \in UThread |-> excused[u] \/ arg[u] = e]

\* wait(): the flag is up.
WaitReturns(u, e) ==
    /\ Calls(u, e, "idle")
    /\ s[e] = 1
    /\ UNCHANGED <<ready, s, waiting, local, excused>>

\* Mutant of WaitBlocks: the flag is not looked at.
WaitBlocksAnyway(u, e) ==
    /\ Calls(u, e, "enqueue")
    /\ excused' = [excused EXCEPT ![u] = InSet(e)]
    /\ UNCHANGED <<ready, s, waiting, local>>

\* wait(): the flag is down.
WaitBlocks(u, e) ==
    /\ Calls(u, e, "enqueue")
    /\ s[e] = 0
    /\ excused' = [excused EXCEPT ![u] = InSet(e)]
    /\ UNCHANGED <<ready, s, waiting, local>>

\* Mutant of Enqueue: wait() queues the UThread and carries on.
EnqueueOnly(u) ==
    /\ At(u, "enqueue")
    /\ waiting' = [waiting EXCEPT ![arg[u]] = Append(@, u)]
    /\ pc' = [pc EXCEPT ![u] = "parked"]
    /\ UNCHANGED <<ready, s, arg, local, calls, excused>>

\* wait(): queue the UThread, inside the lock, and switch away.
Enqueue(u) ==
    /\ At(u, "enqueue")
    /\ waiting' = [waiting EXCEPT ![arg[u]] = Append(@, u)]
    /\ pc' = [pc EXCEPT ![u] = "parked"]
    /\ Park(u)
    /\ UNCHANGED <<s, arg, local, calls, excused>>

\* wait(): running again; the flag is not looked at a second time.
Resume(u) ==
    /\ At(u, "parked")
    /\ Returns(u)
    /\ UNCHANGED <<ready, s, waiting, local, excused>>

\* Mutant of Set: the flag counts, as that of a semaphore.
SetCounts(u, e) ==
    /\ Calls(u, e, "grab")
    /\ s' = [s EXCEPT ![e] = @ + 1]
    /\ NoteSet(e)
    /\ UNCHANGED <<ready, waiting, local>>

\* set(), or the destructor: raise the flag.
Set(u, e) ==
    /\ Calls(u, e, "grab")
    /\ s' = [s EXCEPT ![e] = 1]
    /\ NoteSet(e)
    /\ UNCHANGED <<ready, waiting, local>>

\* Mutant of Grab: only the first waiter is taken, as in Sema::up.
GrabFirst(u) ==
    LET e == arg[u]
    IN  /\ At(u, "grab")
        /\ local' = [local EXCEPT ![u] = IF waiting[e] = <<>> THEN <<>> ELSE <<Head(waiting[e])>>]
        /\ waiting' = [waiting EXCEPT ![e] = IF @ = <<>> THEN <<>> ELSE Tail(@)]
        /\ pc' = [pc EXCEPT ![u] = "wake"]
        /\ UNCHANGED <<ready, s, arg, calls, excused>>

\* Mutant of Grab: the queue is copied and not emptied.
GrabCopies(u) ==
    /\ At(u, "grab")
    /\ local' = [local EXCEPT ![u] = waiting[arg[u]]]
    /\ pc' = [pc EXCEPT ![u] = "wake"]
    /\ UNCHANGED <<ready, s, waiting, arg, calls, excused>>

\* set(): move the queue to a local list, inside the lock.
Grab(u) ==
    LET e == arg[u]
    IN  /\ At(u, "grab")
        /\ local' = [local EXCEPT ![u] = waiting[e]]
        /\ waiting' = [waiting EXCEPT ![e] = <<>>]
        /\ pc' = [pc EXCEPT ![u] = "wake"]
        /\ UNCHANGED <<ready, s, arg, calls, excused>>

\* set(): wake the next UThread of the local list, or return.
WakeNext(u) ==
    /\ At(u, "wake")
    /\ local[u] # <<>>
    /\ WakeUp(Head(local[u]))
    /\ local' = [local EXCEPT ![u] = Tail(@)]
    /\ UNCHANGED <<s, waiting, pc, arg, calls, excused>>

SetReturns(u) ==
    /\ At(u, "wake")
    /\ local[u] = <<>>
    /\ Returns(u)
    /\ UNCHANGED <<ready, s, waiting, local, excused>>

\* clear()
Clear(u, e) ==
    /\ Calls(u, e, "idle")
    /\ s' = [s EXCEPT ![e] = 0]
    /\ UNCHANGED <<ready, waiting, local, excused>>

\* Between two calls u may let the other UThreads of its OS thread run.
Yield(u) ==
    /\ At(u, "idle")
    /\ Leave(u)
    /\ UNCHANGED <<s, waiting, pc, arg, local, calls, excused>>

----------------------------------------------------------------------------
Finish(u) == Enqueue(u) \/ Resume(u) \/ Grab(u) \/ WakeNext(u) \/ SetReturns(u)

Next ==
    \E u \in UThread :
        \/ \E e \in Ev : WaitReturns(u, e) \/ WaitBlocks(u, e) \/ Set(u, e) \/ Clear(u, e)
        \/ Finish(u)
        \/ Yield(u)

\* A call that has started is finished, and a UThread between calls yields
\* again and again; nobody has to call anything.
Fairness == \A u \in UThread : WF_vars(Finish(u)) /\ WF_vars(Yield(u))

Spec == Init /\ [][Next]_vars /\ Fairness

----------------------------------------------------------------------------
\* The places of u in the list that is called name.
Where(u, list, name) == {<<name, i>> : i \in {j \in DOMAIN list : list[j] = u}}

\* Where u is on a list: its ready list, the queue of an event, the local list
\* of a set().
Places(u) ==
    LET onEvents == UNION {Where(u, waiting[e], e) : e \in Ev}
        onLocals == UNION {Where(u, local[w], w) : w \in UThread}
    IN  Where(u, ready[Owner[u]], "ready") \cup onEvents \cup onLocals

\* A UThread is on exactly one list at any time.  InlineList allows no more than
\* one, and a UThread on none would never run again.
OnOneList == \A u \in UThread : Cardinality(Places(u)) = 1

\* A UThread that has queued itself in wait() is made ready only by a set() that
\* overlaps the call.  The flag may be down all the time: a set() that has raised
\* it before a clear() can take the lock after wait() has queued the UThread.
WokenBySet ==
    \A u \in UThread :
        pc[u] = "parked" /\ (\E i \in DOMAIN ready[Owner[u]] : ready[Owner[u]][i] = u) => excused[u]

\* set() lets everybody continue who is on the queue when it takes the lock,
\* whatever clear() does in the meantime.
SetReleasesQueue ==
    \A u, w \in UThread : \A e \in Ev :
        (\E i \in DOMAIN waiting[e] : waiting[e][i] = u) /\ pc[w] = "grab" /\ arg[w] = e
            ~> pc[u] = "idle"

\* Nobody is left on the queue of an event that is set, except while a set() is
\* about to empty it.
LeftBehind(e) ==
    s[e] = 1 /\ waiting[e] # <<>> /\ ~InSet(e)

\* "This causes all threads currently waiting to continue executing, and all
\* future calls to `wait` to return immediately" (Core/Event.h, set).
NobodyLeftBehind == \A e \in Ev : ~LeftBehind(e)

\* The same for events that are used within one OS thread, where nothing runs
\* between the test of the flag in wait() and the queueing.
NobodyLeftBehindLocally ==
    \A e \in Ev : (\A u, w \in Users[e] : Owner[u] = Owner[w]) => ~LeftBehind(e)
============================================================================
