CONSTANTS
  Readers = {r1, r2}
  Writers = {w1, w2}
  r1 = r1
  r2 = r2
  w1 = w1
  w2 = w2
  Killable = {r1, r2, w1, w2}
  Bytes = {a, b}
  a = a
  b = b
  PIPESIZE = 2
  WORD = 4
  MaxN = 3
  NoProc = NoProc
SPECIFICATION Spec
SYMMETRY Symmetry
INVARIANTS ReaderNotStranded PipeInv
PROPERTY ImplementsQueue
