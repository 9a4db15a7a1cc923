SPECIFICATION Spec
CONSTANTS
  Jobs = {j1}
  MaxStage = 2
  MaxProgress = 2
  Submitters = {s1, s2}
  Cancellers = {c1, c2}
  MaxConcurrent = 1
  MaxOutstanding = 1
  OtherUpdates <- MCOtherUpdates
  MaxUpdates = 2
  MaxFaults = 1
INVARIANTS
  TokenMeansCancelled
  CompletionAgrees
  NothingReportedIsLost
  PublishedEventsValid
PROPERTY ImplementsLifecycle
CHECK_DEADLOCK FALSE
