SPECIFICATION FairSpec
CONSTANTS
  Workers = {w1, w2, w3}
  Pairs = 3
INVARIANTS
  AssemblyNeverPanics
  BuildInvariant
PROPERTY BuildEnds
CHECK_DEADLOCK FALSE
