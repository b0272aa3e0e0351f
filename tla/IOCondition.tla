--------------------------- MODULE IOCondition ---------------------------
(***************************************************************************)
(* os::IOCondition on POSIX (OS/IOCondition.cpp): the object one OS thread *)
(* sleeps on when it has nothing to run and that any thread may signal.    *)
(* It is a flag, 'signaled', in front of an eventfd.  The flag keeps the   *)
(* signallers from writing to the eventfd more than once per sleep.        *)
(*                                                                         *)
(* The operators below are the atomic pieces of signal() and doWait(); the *)
(* module that composes them says which thread executes which piece next.  *)
(***************************************************************************)
EXTENDS Naturals

CONSTANT Cond       \* the conditions: one for each OS thread

VARIABLES
    signaled,       \* signaled[c]: the flag the signallers compete for
    eventfd         \* eventfd[c]: the kernel counter behind the descriptor

condVars == <<signaled, eventfd>>

CondTypeOK ==
    /\ signaled \in [Cond -> {0, 1}]
    /\ eventfd \in [Cond -> Nat]

CondInit ==
    /\ signaled = [c \in Cond |-> 0]
    /\ eventfd = [c \in Cond |-> 0]

\* signal(): the compare-and-swap that decides who writes to the eventfd.
SignalWins(c) ==
    /\ signaled[c] = 0
    /\ signaled' = [signaled EXCEPT ![c] = 1]
    /\ UNCHANGED eventfd

SignalLoses(c) ==
    /\ signaled[c] = 1
    /\ UNCHANGED condVars

\* signal(): the write, after a successful compare-and-swap.
SignalWrite(c) ==
    /\ eventfd' = [eventfd EXCEPT ![c] = @ + 1]
    /\ UNCHANGED signaled

\* doWait(): poll returns with the eventfd readable, ...
PollSeesEvent(c) ==
    /\ eventfd[c] > 0
    /\ UNCHANGED condVars

\* ... or with only some other descriptor readable, or with nothing at all
\* because the timeout expired.
PollSeesOther(c) ==
    /\ eventfd[c] = 0
    /\ UNCHANGED condVars

\* doWait(): the read that empties the eventfd.
ReadEventfd(c) ==
    /\ eventfd' = [eventfd EXCEPT ![c] = 0]
    /\ UNCHANGED signaled

\* Mutant of ClearSignaled: the flag is never reset.
ClearSignaledForgotten(c) == UNCHANGED condVars

\* doWait(): the final write that lets the next signaller in.
ClearSignaled(c) ==
    /\ signaled' = [signaled EXCEPT ![c] = 0]
    /\ UNCHANGED eventfd
============================================================================
