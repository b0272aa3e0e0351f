-------------------------- MODULE MCUThreadState --------------------------
(***************************************************************************)
(* Two OS threads.  A starts in a1 and may run a2; B starts in b1.         *)
(***************************************************************************)
EXTENDS UThreadState

CONSTANTS A, B, a1, a2, b1, s1

MCOSThread == {A, B}
MCUThread == {a1, a2, b1}
MCOwner == [u \in MCUThread |-> IF u = b1 THEN B ELSE A]
MCFirst == [t \in MCOSThread |-> IF t = A THEN a1 ELSE b1]
MCSem == {s1}
MCInitCount == [s \in MCSem |-> 0]
============================================================================
