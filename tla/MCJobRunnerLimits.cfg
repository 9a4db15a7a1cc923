SPECIFICATION FairSpec
CONSTANTS
  Jobs = {j1, j2}
  MaxStage = 1
  MaxProgress = 1
  Submitters = {s1, s2}
  Cancellers = {c1}
  MaxConcurrent = 1
  MaxOutstanding = 2
  OtherUpdates <- MCOtherUpdates
  MaxUpdates = 0
  MaxFaults = 1
INVARIANT LimitsHold
PROPERTY JobsEnd
CHECK_DEADLOCK FALSE
