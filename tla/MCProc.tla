------------------------------- MODULE MCProc -------------------------------
(* Instances of Proc for TLC. *)
EXTENDS Proc, TLC

\* The slots other than init and the CPUs are interchangeable.
Symmetry == Permutations(Slots \ {init}) \cup Permutations(CPUs)
=============================================================================
