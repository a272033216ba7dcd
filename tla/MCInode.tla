------------------------------ MODULE MCInode -------------------------------
(* Inode for TLC: processes, names and the inodes other than the root are  *)
(* interchangeable.                                                        *)
EXTENDS Inode, TLC

Symmetry ==
  Permutations(Procs) \cup Permutations(Names) \cup Permutations(Inums \ {ROOTINO})
=============================================================================
