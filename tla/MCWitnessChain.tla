---------------------------- MODULE MCWitnessChain ----------------------------
(* Model-checking instance of WitnessChain.                                *)
EXTENDS WitnessChain, TLC

RecordSymmetry == Permutations(Record)
=============================================================================
