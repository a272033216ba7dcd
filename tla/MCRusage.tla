------------------------------ MODULE MCRusage ------------------------------
(* Instances of Rusage for TLC. *)
EXTENDS Rusage, TLC

Symmetry == Permutations(Procs)
=============================================================================
