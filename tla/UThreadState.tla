--------------------------- MODULE UThreadState ---------------------------
(***************************************************************************)
(* The scheduler of UThreads: os::UThreadState (OS/UThread.cpp) together   *)
(* with the parts of os::ThreadData that put an OS thread to sleep and     *)
(* wake it up (OS/Thread.cpp), composed with os::Sema and os::IOCondition. *)
(*                                                                         *)
(* Every OS thread runs one of its UThreads at a time and switches only    *)
(* when that UThread calls into the scheduler.  Other OS threads interfere *)
(* by pushing onto its ready list (wake, insert) and by signalling the     *)
(* condition it sleeps on.  A step below is one critical section or one    *)
(* atomic access; what a UThread does between two calls is its own         *)
(* business, so a running UThread picks its next call freely.              *)
(*                                                                         *)
(* The UThreads modelled synchronise with semaphores only.  Those that     *)
(* sleep or do I/O show up as the reason poll may return without an event; *)
(* the part of reap() that serves them is not in this module.              *)
(***************************************************************************)
EXTENDS IOCondition, Sema, FiniteSets

CONSTANTS
    OSThread,       \* os::ThreadData objects, each with its UThreadState
    UThread,        \* os::UThreadData objects
    Owner,          \* Owner[u]: the OS thread that runs u
    First,          \* First[t]: the UThread an OS thread starts in
    NoSem,          \* "not inside Sema::down"
    MaxOps          \* bound: calls a UThread makes before its function returns

ASSUME SchedAssumption ==
    /\ Cond = OSThread
    /\ IsFiniteSet(UThread)
    /\ Owner \in [UThread -> OSThread]
    /\ First \in [OSThread -> UThread]
    /\ \A t \in OSThread : Owner[First[t]] = t
    /\ NoSem \notin Sem
    /\ MaxOps \in Nat

VARIABLES
    running,        \* running[t]: UThreadState::running
    ready,          \* ready[t]: UThreadState::ready
    aliveCount,     \* aliveCount[t]: UThreadState::aliveCount
    pc,             \* pc[u]: what u executes, or will once it is switched to
    target,         \* target[u]: the UThread u is waking or inserting, else u
    inDown,         \* inDown[u]: the semaphore whose down() u is blocked in
    idle,           \* idle[t]: progress of ThreadData::waitForWork
    ops             \* ops[u]: calls u may still make

schedVars == <<running, ready, aliveCount, pc, target, inDown, idle, ops>>
vars == <<condVars, semaVars, schedVars>>

(***************************************************************************)
(* pc[u]:                                                                  *)
(*   none    not spawned yet                                               *)
(*   user    in the function the UThread was started with                  *)
(*   wake    up() has taken target[u] off a semaphore's queue              *)
(*   signal  target[u] is on its ready list; reportWake is next            *)
(*   write   won the compare-and-swap in IOCondition::signal               *)
(*   wait    in UThreadState::wait, running or switched out                *)
(*   main    in the final loop of ThreadData::threadMain                   *)
(*   exit    in UThreadState::exit                                         *)
(*   done    switched away from in exit, never to return                   *)
(***************************************************************************)
PC == {"none", "user", "wake", "signal", "write", "wait", "main", "exit", "done"}

\* idle[t]: not in waitForWork, blocked in poll, about to read the eventfd,
\* about to clear the flag.
Idle == {"no", "poll", "read", "clear"}

TypeOK ==
    /\ CondTypeOK
    /\ count \in [Sem -> Nat]
    /\ waiting \in [Sem -> Seq(UThread)]
    /\ running \in [OSThread -> UThread]
    /\ ready \in [OSThread -> Seq(UThread)]
    /\ aliveCount \in [OSThread -> Nat]
    /\ pc \in [UThread -> PC]
    /\ target \in [UThread -> UThread]
    /\ inDown \in [UThread -> Sem \cup {NoSem}]
    /\ idle \in [OSThread -> Idle]
    /\ ops \in [UThread -> 0 .. MaxOps]

Init ==
    /\ CondInit
    /\ SemaInit
    /\ running = First
    /\ ready = [t \in OSThread |-> <<>>]
    /\ aliveCount = [t \in OSThread |-> 1]
    /\ pc = [u \in UThread |-> IF u = First[Owner[u]] THEN "user" ELSE "none"]
    /\ target = [u \in UThread |-> u]
    /\ inDown = [u \in UThread |-> NoSem]
    /\ idle = [t \in OSThread |-> "no"]
    /\ ops = [u \in UThread |-> MaxOps]

----------------------------------------------------------------------------
(***************************************************************************)
(* Who executes.                                                           *)
(***************************************************************************)

\* u is the UThread its OS thread is running, at label l, not inside poll.
At(u, l) ==
    /\ running[Owner[u]] = u
    /\ idle[Owner[u]] = "no"
    /\ pc[u] = l

\* u is in its own code and calls the library.
Calls(u) ==
    /\ At(u, "user")
    /\ ops[u] > 0
    /\ ops' = [ops EXCEPT ![u] = @ - 1]

\* Where a UThread continues when it is switched to: behind the switchTo it
\* was switched out in, or at the start of its function.
Resumed(u) == IF pc[u] = "main" THEN "main" ELSE "user"

\* ready.pop() and switchTo: u stops at label l and the first ready UThread
\* continues, leaving 'rest' on the list.  When u pops itself nothing is
\* switched and u returns.
SwitchFrom(u, l, rest) ==
    LET t == Owner[u]
        next == Head(ready[t])
    IN  /\ ready[t] # <<>>
        /\ ready' = [ready EXCEPT ![t] = rest]
        /\ running' = [running EXCEPT ![t] = next]
        /\ pc' = [pc EXCEPT ![u] = l, ![next] = Resumed(next)]
        /\ inDown' = [inDown EXCEPT ![next] = NoSem]

\* What pop leaves on the ready list, without and with pushing u afterwards.
Popped(u) == Tail(ready[Owner[u]])

\* Mutant of Rotated: leave forgets to push the UThread that gives way.
RotatedForgotten(u) == Tail(ready[Owner[u]])

Rotated(u) == Append(Popped(u), u)

\* The ready list was empty: ThreadData::waitForWork blocks in poll.
Sleep(u) ==
    /\ ready[Owner[u]] = <<>>
    /\ idle' = [idle EXCEPT ![Owner[u]] = "poll"]
    /\ UNCHANGED <<condVars, semaVars, running, ready, aliveCount, pc, target,
                   inDown, ops>>

----------------------------------------------------------------------------
(***************************************************************************)
(* Calls of a running UThread.                                             *)
(***************************************************************************)

\* Sema::down
Down(u, s) ==
    /\ Calls(u)
    /\ \/ /\ DownTakes(s)
          /\ UNCHANGED <<pc, inDown>>
       \/ /\ DownQueues(s, u)
          /\ pc' = [pc EXCEPT ![u] = "wait"]
          /\ inDown' = [inDown EXCEPT ![u] = s]
    /\ UNCHANGED <<condVars, running, ready, aliveCount, target, idle>>

\* Sema::up
Up(u, s) ==
    /\ Calls(u)
    /\ \/ /\ UpCounts(s)
          /\ UNCHANGED <<pc, target>>
       \/ /\ UpHandsOver(s)
          /\ pc' = [pc EXCEPT ![u] = "wake"]
          /\ target' = [target EXCEPT ![u] = Head(waiting[s])]
    /\ UNCHANGED <<condVars, running, ready, aliveCount, inDown, idle>>

\* UThread::spawn and UThreadState::insert, up to reportWake
Insert(u, v) ==
    /\ Calls(u)
    /\ pc[v] = "none"
    /\ aliveCount' = [aliveCount EXCEPT ![Owner[v]] = @ + 1]
    /\ ready' = [ready EXCEPT ![Owner[v]] = Append(@, v)]
    /\ pc' = [pc EXCEPT ![u] = "signal", ![v] = "user"]
    /\ target' = [target EXCEPT ![u] = v]
    /\ UNCHANGED <<condVars, semaVars, running, inDown, idle>>

\* UThreadState::leave; it returns at once if nobody is ready.
Leave(u) ==
    /\ Calls(u)
    /\ SwitchFrom(u, "user", Rotated(u))
    /\ UNCHANGED <<condVars, semaVars, aliveCount, target, idle>>

\* The function of u returns: spawnCall calls exit, threadMain enters its loop.
Return(u) ==
    /\ At(u, "user")
    /\ pc' = [pc EXCEPT ![u] = IF u = First[Owner[u]] THEN "main" ELSE "exit"]
    /\ UNCHANGED <<condVars, semaVars, running, ready, aliveCount, target,
                   inDown, idle, ops>>

----------------------------------------------------------------------------
(***************************************************************************)
(* Waking somebody: UThreadState::wake, ThreadData::reportWake and         *)
(* IOCondition::signal, executed by u for target[u].                       *)
(***************************************************************************)

\* up() or spawn() returns to its caller.
Woken(u) ==
    /\ pc' = [pc EXCEPT ![u] = "user"]
    /\ target' = [target EXCEPT ![u] = u]

Wake(u) ==
    LET t == Owner[target[u]]
    IN  /\ At(u, "wake")
        /\ ready' = [ready EXCEPT ![t] = Append(@, target[u])]
        /\ pc' = [pc EXCEPT ![u] = "signal"]
        /\ UNCHANGED <<condVars, semaVars, running, aliveCount, target, inDown,
                       idle, ops>>

ReportWake(u) ==
    LET t == Owner[target[u]]
    IN  /\ At(u, "signal")
        /\ \/ /\ SignalWins(t)
              /\ pc' = [pc EXCEPT ![u] = "write"]
              /\ UNCHANGED target
           \/ /\ SignalLoses(t)
              /\ Woken(u)
        /\ UNCHANGED <<semaVars, running, ready, aliveCount, inDown, idle, ops>>

WriteEventfd(u) ==
    /\ At(u, "write")
    /\ SignalWrite(Owner[target[u]])
    /\ Woken(u)
    /\ UNCHANGED <<semaVars, running, ready, aliveCount, inDown, idle, ops>>

----------------------------------------------------------------------------
(***************************************************************************)
(* Giving up the processor.  When nobody is ready the OS thread blocks in  *)
(* waitForWork, still on the stack of u, and tries again afterwards.       *)
(***************************************************************************)

\* One iteration of UThreadState::wait
Wait(u) ==
    /\ At(u, "wait")
    /\ \/ /\ SwitchFrom(u, "wait", Popped(u))
          /\ UNCHANGED <<condVars, semaVars, aliveCount, target, idle, ops>>
       \/ Sleep(u)

\* Mutant of Exit: aliveCount is not lowered.
ExitUncounted(u) ==
    /\ At(u, "exit")
    /\ \/ /\ SwitchFrom(u, "done", Popped(u))
          /\ UNCHANGED <<condVars, semaVars, aliveCount, target, idle, ops>>
       \/ Sleep(u)

\* One iteration of UThreadState::exit
Exit(u) ==
    /\ At(u, "exit")
    /\ \/ /\ SwitchFrom(u, "done", Popped(u))
          /\ aliveCount' = [aliveCount EXCEPT ![Owner[u]] = @ - 1]
          /\ UNCHANGED <<condVars, semaVars, target, idle, ops>>
       \/ Sleep(u)

\* One iteration of the last loop of ThreadData::threadMain, in an OS thread
\* somebody holds a reference to
MainLoop(u) ==
    /\ At(u, "main")
    /\ \/ /\ SwitchFrom(u, "main", Rotated(u))
          /\ UNCHANGED <<condVars, semaVars, aliveCount, target, idle, ops>>
       \/ Sleep(u)

----------------------------------------------------------------------------
(***************************************************************************)
(* IOCondition::doWait, executed by OS thread t.                           *)
(***************************************************************************)
IdleStep(t, from, to) ==
    /\ idle[t] = from
    /\ idle' = [idle EXCEPT ![t] = to]
    /\ UNCHANGED <<semaVars, running, ready, aliveCount, pc, target, inDown, ops>>

PollEvent(t) == IdleStep(t, "poll", "read") /\ PollSeesEvent(t)

PollOther(t) == IdleStep(t, "poll", "clear") /\ PollSeesOther(t)

Drain(t) == IdleStep(t, "read", "clear") /\ ReadEventfd(t)

Rearm(t) == IdleStep(t, "clear", "no") /\ ClearSignaled(t)

----------------------------------------------------------------------------
UThreadStep(u) ==
    \/ \E s \in Sem : Down(u, s) \/ Up(u, s)
    \/ \E v \in UThread : Insert(u, v)
    \/ Leave(u) \/ Return(u)
    \/ Wake(u) \/ ReportWake(u) \/ WriteEventfd(u)
    \/ Wait(u) \/ Exit(u) \/ MainLoop(u)

DoWait(t) == PollEvent(t) \/ Drain(t) \/ Rearm(t)

Next ==
    \/ \E u \in UThread : UThreadStep(u)
    \/ \E t \in OSThread : DoWait(t) \/ PollOther(t)

\* The operating system runs every OS thread that is not blocked in poll, and
\* functions started as UThreads return.  Nothing makes poll return early.
Fairness ==
    /\ \A u \in UThread : WF_vars(UThreadStep(u))
    /\ \A t \in OSThread : WF_vars(DoWait(t))

Spec == Init /\ [][Next]_vars /\ Fairness

----------------------------------------------------------------------------
(***************************************************************************)
(* Properties.                                                             *)
(***************************************************************************)
In(x, q) == \E i \in 1 .. Len(q) : q[i] = x

NoDuplicates(q) == \A i, j \in 1 .. Len(q) : q[i] = q[j] => i = j

\* v was taken off a semaphore's queue by w, which has not made it ready yet.
InTransit(w, v) == pc[w] = "wake" /\ target[w] = v

\* A UThread on a semaphore's queue is blocked in that very semaphore's down,
\* is queued once, and is not ready and not being woken.
WaitingInv ==
    \A s \in Sem :
        /\ NoDuplicates(waiting[s])
        /\ \A u \in UThread : In(u, waiting[s]) =>
              /\ pc[u] = "wait" /\ inDown[u] = s
              /\ ~In(u, ready[Owner[u]])
              /\ \A w \in UThread : ~InTransit(w, u)

\* A UThread being woken is woken by one other UThread only and is not ready.
TransitInv ==
    \A w, v \in UThread : InTransit(w, v) =>
        /\ pc[v] = "wait"
        /\ ~In(v, ready[Owner[v]])
        /\ \A x \in UThread : InTransit(x, v) => x = w

\* A ready list holds UThreads of its own OS thread, once each, that are not
\* executing anything.  A UThread that has just been woken before it had time
\* to switch away may still be the running one.
ReadyInv ==
    \A t \in OSThread :
        /\ NoDuplicates(ready[t])
        /\ \A u \in UThread : In(u, ready[t]) =>
              /\ Owner[u] = t
              /\ pc[u] \in {"user", "main", "wait"}
              /\ running[t] = u => pc[u] = "wait"

\* The lists of the scheduler (InlineList.h asserts "Can not push an element
\* into more than one list."): no UThread is on two lists, or on one twice.
OneList == WaitingInv /\ TransitInv /\ ReadyInv

\* No UThread gets lost: one that has not finished is running, or is ready, or
\* is queued at the semaphore it called down() of, or is being woken.
NoneLost ==
    \A u \in UThread :
        \/ pc[u] \in {"none", "done"}
        \/ running[Owner[u]] = u /\ pc[u] # "wait"
        \/ In(u, ready[Owner[u]])
        \/ pc[u] = "wait" /\ inDown[u] # NoSem /\ In(u, waiting[inDown[u]])
        \/ \E w \in UThread : InTransit(w, u)

\* An OS thread runs one of its own UThreads, alive; only that one executes
\* scheduler code; and only inside wait, exit or threadMain does it sleep.
ExecInv ==
    /\ \A t \in OSThread :
          /\ Owner[running[t]] = t
          /\ pc[running[t]] \notin {"none", "done"}
          /\ idle[t] # "no" => pc[running[t]] \in {"wait", "exit", "main"}
    /\ \A u \in UThread :
          /\ pc[u] \in {"wake", "signal", "write", "exit"} => running[Owner[u]] = u
          /\ inDown[u] \in Sem <=> pc[u] = "wait"

\* Somebody is about to make the eventfd of t readable, or it is.
WakeComing(t) ==
    \/ eventfd[t] > 0
    \/ \E u \in UThread : pc[u] \in {"signal", "write"} /\ Owner[target[u]] = t

\* The flag of an IOCondition is never left set in vain: while it keeps further
\* signallers away, the eventfd is readable or will be, or the sleeper is
\* between its read and the write that resets the flag.
FlagInv ==
    \A t \in OSThread : signaled[t] = 1 =>
        \/ eventfd[t] > 0
        \/ \E u \in UThread : pc[u] = "write" /\ Owner[target[u]] = t
        \/ idle[t] = "clear"

\* waitForWork never sleeps through work: an OS thread that is blocked in poll
\* while a UThread of its own is ready will find its eventfd readable.
NoLostWakeup ==
    \A t \in OSThread : idle[t] = "poll" /\ ready[t] # <<>> => WakeComing(t)

\* Sema::up hands a token to a waiter rather than counting it: a semaphore
\* never has both tokens and waiters, so nobody overtakes a queued UThread.
NoOvertaking == \A s \in Sem : count[s] > 0 => waiting[s] = <<>>

Alive(t) == {u \in UThread : Owner[u] = t /\ pc[u] \notin {"none", "done"}}

\* aliveCount, from which ThreadData::threadMain concludes that an OS thread
\* may terminate, counts the UThreads that have started and not finished.
AliveCountExact == \A t \in OSThread : aliveCount[t] = Cardinality(Alive(t))

\* The inductive invariant behind the safety properties above.
IInv ==
    /\ TypeOK
    /\ WaitingInv /\ TransitInv /\ ReadyInv
    /\ NoneLost
    /\ ExecInv
    /\ FlagInv /\ NoLostWakeup
    /\ NoOvertaking
    /\ AliveCountExact

\* The semaphore as its callers see it.  A token handed to a waiter is still
\* unused until that waiter runs again.
Granted(s) == {u \in UThread : inDown[u] = s /\ ~In(u, waiting[s])}

Abstract == INSTANCE AbstractSema WITH
    Proc <- UThread,
    value <- [s \in Sem |-> count[s] + Cardinality(Granted(s))],
    blocked <- inDown

\* Sema, the scheduler and the condition together implement AbstractSema: no
\* token is lost or invented, and a free token reaches a waiter.
ImplementsSema == Abstract!Spec

\* A UThread that is ready is switched to, however its OS thread got to sleep.
ReadyRuns ==
    \A u \in UThread : In(u, ready[Owner[u]]) ~> ~In(u, ready[Owner[u]])

============================================================================
