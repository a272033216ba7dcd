------------------------------- MODULE MCPipe -------------------------------
(* Instances of Pipe for TLC. *)
EXTENDS Pipe, TLC

Symmetry == Permutations(Bytes) \cup Permutations(Readers) \cup Permutations(Writers)
=============================================================================
