SPECIFICATION Spec
CONSTANTS
  Holders = {h1, h2, h3}
  Requests <- MCRequests
  CpuSlots = 3
  MaxRuns = 2
  MaxProcesses = 1
  MemoryLimit = 2
  MaxMemory = 3
INVARIANTS
  RunsCounted
  LeasesWithinLimits
PROPERTY DeadlineMeansContention
CHECK_DEADLOCK FALSE
