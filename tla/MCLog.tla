------------------------------- MODULE MCLog --------------------------------
(* Model-checking instance of Log.                                         *)
EXTENDS Log, TLC

Symmetry == Permutations(Procs) \cup Permutations(Blocks) \cup Permutations(Vals)
=============================================================================
