------------------------------- MODULE MCBio -------------------------------
EXTENDS Bio

Symmetry == Permutations(Procs) \cup Permutations(Blocks) \cup Permutations(Vals)
=============================================================================
