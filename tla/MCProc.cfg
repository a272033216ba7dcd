CONSTANTS
  Slots = {p1, p2, p3}
  init = p1
  p1 = p1
  p2 = p2
  p3 = p3
  CPUs = {c1, c2}
  c1 = c1
  c2 = c2
  Nil = Nil
  MaxPid = 4
  KillArgs = {0, 2, 3}
SPECIFICATION Spec
SYMMETRY Symmetry
INVARIANTS OneStackOneCPU NoMissedExit ProcInv
