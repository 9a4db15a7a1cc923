SPECIFICATION EventsSpec
CONSTANTS
  Jobs = {j1}
  MaxStage = 2
  MaxProgress = 2
  Submitters = {s1}
  Cancellers = {c1}
  MaxConcurrent = 1
  MaxOutstanding = 1
  OtherUpdates = {}
  MaxUpdates = 2
  MaxFaults = 0
  Streams = {x1}
  Capacity = 1
INVARIANT AnnouncedEndIsDelivered
CHECK_DEADLOCK FALSE
