SPECIFICATION SelectorSpec
CONSTANTS
  ArmCount = 4
  Policies <- MCPolicies
  Starvations = {3, 5}
  WarmupRuns = 1
  ShareNum = 1
  ShareDen = 2
  Weight <- MCWeight
  SlotTimes = {1, 2}
  MaxCompleted = 9
INVARIANT NobodyStarves
PROPERTY SelectionIsFair
CHECK_DEADLOCK FALSE
