SPECIFICATION FairSpec
CONSTANTS
  e1 = e1
  b1 = b1
  b2 = b2
  s1 = s1
  o1 = o1
  Executions = {e1, b1, b2, s1}
  Others = {o1}
  Exact = e1
  Preserving = {s1}
  Returns <- MCReturns
  RequestsOf <- MCRequestsOf
  Requests <- MCRequests
  CpuSlots = 2
  MaxRuns = 2
  MaxProcesses = 0
  MemoryLimit = 0
  MaxMemory = 1
  Baselines <- MCBaselines
  Annealings <- MCAnnealings
  WorkerCount = 2
  CompareAll = FALSE
  MayStopEarly = TRUE
INVARIANT SelectionIsDeterministic
PROPERTIES
  InterruptedProvesNothing
  UsesResourceManager
  SolveEnds
CHECK_DEADLOCK FALSE
