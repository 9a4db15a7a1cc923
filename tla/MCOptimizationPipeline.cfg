SPECIFICATION FairSpec
CONSTANTS
  MinutesPerDay = 20
  MAX_LOCATIONS = 5
  INPUT_TIME_GRANULARITY_MINUTES = 2
  RequestTimeout = 3
  PollInterval = 2
  CancelTimeout = 1
  Durations <- MCDurations
  MaxMinutes = 6
  Cases <- MCCases
  RevalidationBudget = 4
  MaxRemoveProbes = 2
  MaxSuggestions = 3
INVARIANTS
  OutcomeIsHonest
  AnswerIsComplete
  ProviderIsSuitable
  RevalidationIsAllOrNothing
  CallEndsCleanly
  AdviceHolds
PROPERTIES
  ProgressOnlyAdvances
  PipelineEnds
