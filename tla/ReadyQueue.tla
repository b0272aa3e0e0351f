---------------------------- MODULE ReadyQueue ----------------------------
(***************************************************************************)
(* What UThreadState looks like to the code that runs on top of it.  The   *)
(* UThreads of an OS thread take turns: the first on the list executes,    *)
(* and it keeps executing until it parks, leaves or ends.  Module          *)
(* UThreadState has the sleeping and the signalling that make this true    *)
(* across OS threads.                                                      *)
(***************************************************************************)
EXTENDS Sequences, Naturals

CONSTANTS
    OSThread,       \* the OS threads
    UThread,        \* the UThreads
    Owner,          \* Owner[u]: the OS thread that runs u
    Started         \* Started[t]: the UThreads of t, as they were started

ASSUME ReadyAssumption ==
    /\ Owner \in [UThread -> OSThread]
    /\ Started \in [OSThread -> Seq(UThread)]
    /\ \A t \in OSThread :
          /\ {Started[t][i] : i \in 1 .. Len(Started[t])} = {u \in UThread : Owner[u] = t}
          /\ \A i, j \in 1 .. Len(Started[t]) : Started[t][i] = Started[t][j] => i = j

VARIABLE
    ready           \* ready[t]: the running UThread of t, then those ready to run

\* u is the UThread its OS thread executes.
Runs(u) == ready[Owner[u]] # <<>> /\ Head(ready[Owner[u]]) = u

\* UThreadState::wait: u stops until somebody wakes it.
Park(u) == ready' = [ready EXCEPT ![Owner[u]] = Tail(@)]

\* UThreadState::wake
WakeUp(v) == ready' = [ready EXCEPT ![Owner[v]] = Append(@, v)]

\* UThreadState::leave
Leave(u) == ready' = [ready EXCEPT ![Owner[u]] = Append(Tail(@), u)]
============================================================================
