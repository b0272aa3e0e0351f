------------------------------ MODULE MCThread ------------------------------
(* Instances of Thread for TLC. *)
EXTENDS Thread

CONSTANTS w1, w2

\* Only the first worker is given UThreads.
FirstWorks == [w \in Worker |-> IF w = w1 THEN 1 ELSE 0]
============================================================================
