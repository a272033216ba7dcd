------------------------------ MODULE MCRlimit ------------------------------
(* Instances of Rlimit for TLC. *)
EXTENDS Rlimit

NonNegative == 0..5
WithNegative == -1..5
FileInts == -1..5
=============================================================================
