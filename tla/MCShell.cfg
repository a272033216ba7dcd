SPECIFICATION Spec
CONSTANTS
  None = None
  Procs <- MCProcs
  NFILE = 5
  NOFILE = 5
  NPIPE = 2
  MAX_INODE_PAIRS = 3
  MAXARGS = 3
  Inputs <- MCInputs
  Lines <- MCLines
  Programs = {"cat", "echo", "testip"}
  Readers = {"cat"}
  FileNames = {"f", "g"}
INVARIANTS ParseRight StdioRight NoStrayEnds LineEnds PairsComplete ShellInv
