CONSTANTS
  Procs = {p1, p2, p3}
  Bufs = {x1, x2, x3}
  Blocks = {k1, k2, k3, k4}
  Vals = {v1, v2}
  NUM = 8
  RING = 8
  None = None
  MaxCalls = 4
  MaxPins = 1
SPECIFICATION Spec
SYMMETRY Symmetry
INVARIANTS DmaExclusive Coherent NotStranded BioInv
