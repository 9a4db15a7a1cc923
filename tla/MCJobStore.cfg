SPECIFICATION Spec
CONSTANTS
  Jobs = {j1, j2}
  MaxStage = 2
  MaxProgress = 1
  MaxSequence = 1
  MaxCrashes = 1
  MaxFaults = 1
INVARIANT TerminalStateHasPayload
PROPERTIES
  RecoveryIsComplete
  ImplementsLifecycle
