----------------------------- MODULE MCFileData -----------------------------
EXTENDS FileData, TLC

CONSTANTS i1, i2, f1, f2, f3

\* Two struct files of the same inode, and one of another.
MCFiles == {f1, f2, f3}
MCIpOf == f1 :> i1 @@ f2 :> i1 @@ f3 :> i2
MCBlocks == 1..5

Symmetry == Permutations(Procs)
=============================================================================
