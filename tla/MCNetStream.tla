----------------------------- MODULE MCNetStream ----------------------------
(* Instances of NetStream for TLC. *)
EXTENDS NetStream, TLC

CONSTANT MaxOps     \* bound: puts and removes in a history of the table

ASSUME MCNetStreamAssumption == MaxOps \in Nat

\* Descriptors that are neighbours in the table, and that collide.
Hashes == <<0, 1, 0>>

Symmetry == Permutations(UThread)

\* FdMap is a multimap after every short history of puts and removes, which
\* makes it grow, shrink, and move the elements of its chains.  This is a fact
\* about constants: once is enough.
FdMapAgrees == Init => Agrees(MaxOps, 1 .. 5)
============================================================================
