------------------------------- MODULE Sema -------------------------------
(***************************************************************************)
(* os::Sema (OS/Sync.cpp): a counting semaphore that parks UThreads rather *)
(* than OS threads.  up() does not count up when somebody waits: it hands  *)
(* its token to the first waiter, and wakes that waiter only after it has  *)
(* released the semaphore's own lock.                                      *)
(*                                                                         *)
(* Each operator is one critical section of up() or down().                *)
(***************************************************************************)
EXTENDS Naturals, Sequences

CONSTANTS
    Sem,            \* the semaphores
    InitCount       \* InitCount[s]: the argument of the constructor

ASSUME InitCountAssumption == InitCount \in [Sem -> Nat]

VARIABLES
    count,          \* count[s]: the tokens nobody waits for
    waiting         \* waiting[s]: the UThreads in down(), first come first

semaVars == <<count, waiting>>

SemaInit ==
    /\ count = InitCount
    /\ waiting = [s \in Sem |-> <<>>]

\* Mutant of DownTakes: a token is taken whether or not there is one.
DownTakesAnyway(s) ==
    /\ count' = [count EXCEPT ![s] = @ - 1]
    /\ UNCHANGED waiting

\* down() finds a token.
DownTakes(s) ==
    /\ count[s] > 0
    /\ count' = [count EXCEPT ![s] = @ - 1]
    /\ UNCHANGED waiting

\* down() finds none and queues the calling UThread.
DownQueues(s, u) ==
    /\ count[s] = 0
    /\ waiting' = [waiting EXCEPT ![s] = Append(@, u)]
    /\ UNCHANGED count

\* Mutant of UpCounts: the token is counted although somebody waits for it.
UpCountsAnyway(s) ==
    /\ count' = [count EXCEPT ![s] = @ + 1]
    /\ UNCHANGED waiting

\* up() finds no waiter.
UpCounts(s) ==
    /\ waiting[s] = <<>>
    /\ count' = [count EXCEPT ![s] = @ + 1]
    /\ UNCHANGED waiting

\* Mutants of UpHandsOver: the waiter is woken but left on the queue; the token
\* is handed over and counted as well.
UpPeeks(s) ==
    /\ waiting[s] # <<>>
    /\ UNCHANGED semaVars

UpHandsOverAndCounts(s) ==
    /\ waiting[s] # <<>>
    /\ waiting' = [waiting EXCEPT ![s] = Tail(@)]
    /\ count' = [count EXCEPT ![s] = @ + 1]

\* up() takes the first waiter off the queue; the caller has to wake it.
UpHandsOver(s) ==
    /\ waiting[s] # <<>>
    /\ waiting' = [waiting EXCEPT ![s] = Tail(@)]
    /\ UNCHANGED count
============================================================================
