\* Two processes, two inodes besides the root, two names, three calls.
SPECIFICATION Spec
CONSTANTS
  Procs = {p1, p2}
  Inums = {root, i1, i2}
  ROOTINO = root
  Names = {a, b}
  MaxCalls = 3
  Null = null
SYMMETRY Symmetry
INVARIANTS RefExact DurableConsistent InodeInv
