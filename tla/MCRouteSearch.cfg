SPECIFICATION FairSpec
CONSTANTS
  MinutesPerDay = 10
  MaxClusterSize = 2
  Problems <- MCProblems
  ExactMaxLocations = 5
  IterationLimit = 2
INVARIANTS
  AnswerIsTheSchedule
  ExactIsOptimal
  NothingBetterIsDropped
  InitialRoutesAreTours
PROPERTY SearchEnds
