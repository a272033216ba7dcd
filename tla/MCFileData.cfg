CONSTANTS
  Procs = {p1, p2}
  i1 = i1
  i2 = i2
  f1 = f1
  f2 = f2
  f3 = f3
  Inodes = {i1, i2}
  Files <- MCFiles
  IpOf <- MCIpOf
  Blocks <- MCBlocks
  BSIZE = 2
  NDIRECT = 1
  NINDIRECT = 3
  MAXOPBLOCKS = 6
  ReadNs = {3}
  WriteNs = {7}
  MaxCalls = 3
  None = None
SPECIFICATION Spec
INVARIANTS BlocksExact ContentRight OpFitsLog FileDataInv
SYMMETRY Symmetry
