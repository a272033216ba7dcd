CONSTANTS
  CPUs = {c1, c2}
  Locks = {"cons", "tx", "pr"}
  None = None
  SIZE = 2
  WORD = 4
  BATCH = 1
  Chars = {"x", "cr", "eof", "bs", "kill", "dump"}
  Start = 3
  Ahead = {"x", "nl"}
  Ns = {2}
  MaxCalls = 2
  MaxTyped = 2
  MaxRx = 1
SPECIFICATION Spec
INVARIANTS InterruptsNest NotStranded ConsoleInv
PROPERTY ImplementsLineDiscipline
SYMMETRY Symmetry
