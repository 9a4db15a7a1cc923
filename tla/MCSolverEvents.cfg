SPECIFICATION FairSpec
CONSTANTS
  Trace <- MCTrace
  PageLimit = 2
  Afters = {0, 1}
  MaxFaults = 2
INVARIANTS
  TelemetryIsComplete
  EndedStreamIsHonest
PROPERTY FollowersFinish
