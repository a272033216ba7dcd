CONSTANTS
  Procs = {p1, p2}
  p1 = p1
  p2 = p2
  MaxTicks = 3
SPECIFICATION Spec
SYMMETRY Symmetry
INVARIANT TimeNotDoubleCounted
