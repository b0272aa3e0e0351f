------------------------------ MODULE MCEvent ------------------------------
(***************************************************************************)
(* Two UThreads on A, one on B.  All three use the event 'shared'; the two *)
(* on A also have 'mine' to themselves.                                    *)
(***************************************************************************)
EXTENDS Event

CONSTANTS A, B, a1, a2, b1, mine, shared

MCOSThread == {A, B}
MCUThread == {a1, a2, b1}
MCOwner == [u \in MCUThread |-> IF u = b1 THEN B ELSE A]
MCStarted == [t \in MCOSThread |-> IF t = A THEN <<a1, a2>> ELSE <<b1>>]
MCEv == {mine, shared}
MCUsers == [e \in MCEv |-> IF e = mine THEN {a1, a2} ELSE MCUThread]
============================================================================
