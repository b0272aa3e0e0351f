----------------------------- MODULE MCFuture -----------------------------
(***************************************************************************)
(* Three holders and a spawned task.                                       *)
(***************************************************************************)
EXTENDS Future

CONSTANTS p1, p2, p3

MCParty == {p1, p2, p3}
StormKinds == {"value", "errorPtr"}
CppError == {"error"}
===========================================================================
