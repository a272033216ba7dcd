CONSTANTS
  NOFILE = 3
  MAX_CPU_TICKS = 4
  DefaultCpu = 2
  WORD = 16
  CpuArgs <- NonNegative
  FileArgs <- FileInts
  TickBound = 6
SPECIFICATION HogSpec
INVARIANTS HeadroomExact UserTicksBounded
PROPERTY HogStopped
