CONSTANTS
  Blocks = {b1, b2}
  Vals = {v1, v2}
  Procs = {p1, p2}
  LOGBLOCKS = 6
  MAXOPBLOCKS = 3
  OpBlocks = 2
  NotCached = NotCached
SPECIFICATION Spec
SYMMETRY Symmetry
INVARIANTS NoLostWakeup DurableOnReturn LogInv
PROPERTY ImplementsAtomicDisk
