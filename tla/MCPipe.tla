------------------------------ MODULE MCPipe ------------------------------
(***************************************************************************)
(* A reader and a writer on OS threads of their own; the two on one OS     *)
(* thread; and two readers and the writer on one OS thread.                *)
(***************************************************************************)
EXTENDS Pipe

CONSTANTS A, B, r, r2, w

OneReader == {r}
MCUThread == {r, w}
ThreeCalls == [u \in MCUThread |-> 3]

\* The reader on A and the writer on B.
TwoThreads == {A, B}
OwnerTwo == [u \in MCUThread |-> IF u = r THEN A ELSE B]
StartedTwo == [t \in TwoThreads |-> IF t = A THEN <<r>> ELSE <<w>>]

\* Both on A.
OneThread == {A}
OwnerOne == [u \in MCUThread |-> A]
StartedOne == [t \in OneThread |-> <<r, w>>]

\* Two readers and the writer on A.
TwoReaders == {r, r2}
ThreeUThreads == {r, r2, w}
OwnerThree == [u \in ThreeUThreads |-> A]
StartedThree == [t \in OneThread |-> <<r2, r, w>>]
CallsThree == [u \in ThreeUThreads |-> IF u = r2 THEN 1 ELSE 2]
============================================================================
