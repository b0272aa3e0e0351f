--------------------------- MODULE AbstractSema ---------------------------
(***************************************************************************)
(* What os::Sema promises its callers (OS/Sync.h): a counter that up()     *)
(* increments and that down() decrements, waiting while it is zero.        *)
(* Nothing is said of queues, ready lists, OS threads or signals.          *)
(***************************************************************************)
EXTENDS Naturals

CONSTANTS Proc, Sem, InitCount, NoSem

VARIABLES
    value,          \* value[s]: ups minus completed downs
    blocked         \* blocked[p]: the semaphore p waits for

vars == <<value, blocked>>

Init ==
    /\ value = InitCount
    /\ blocked = [p \in Proc |-> NoSem]

Release(s) ==
    /\ value' = [value EXCEPT ![s] = @ + 1]
    /\ UNCHANGED blocked

Acquire(p, s) ==
    /\ blocked[p] = NoSem
    /\ value[s] > 0
    /\ value' = [value EXCEPT ![s] = @ - 1]
    /\ UNCHANGED blocked

Block(p, s) ==
    /\ blocked[p] = NoSem
    /\ blocked' = [blocked EXCEPT ![p] = s]
    /\ UNCHANGED value

Unblock(p, s) ==
    /\ blocked[p] = s
    /\ value[s] > 0
    /\ value' = [value EXCEPT ![s] = @ - 1]
    /\ blocked' = [blocked EXCEPT ![p] = NoSem]

Next ==
    \E s \in Sem :
        \/ Release(s)
        \/ \E p \in Proc : Acquire(p, s) \/ Block(p, s) \/ Unblock(p, s)

\* While there is a token and somebody waits, somebody gets a token.
Fairness == \A s \in Sem : WF_vars(\E p \in Proc : Unblock(p, s))

Safety == Init /\ [][Next]_vars
Spec == Safety /\ Fairness
============================================================================
