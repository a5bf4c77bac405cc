---------------------------- MODULE MCContainment -----------------------------
(* Model-checking instance of Containment.                                 *)
EXTENDS Containment, TLC

NodeSymmetry == Permutations(Node)
=============================================================================
