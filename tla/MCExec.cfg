CONSTANTS
  Procs = {p1, p2}
  Frames <- MCFrames
  PGSIZE = 2
  NPAGES = 4
  PerTable = 3
  Depth = 2
  Progs <- MCProgs
  USERSTACK = 1
  MAXARG = 3
  SbrkArgs = {1, 4, 7}
  Data = {d1}
  MaxCalls = 4
  MaxHeld = 8
  None = None
SPECIFICATION Spec
INVARIANTS FramesConserved PrivateMemory VmInv
