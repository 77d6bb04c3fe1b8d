SPECIFICATION ReloadSpec
CONSTANTS
  LastEvaluation = 2
  LastTimer = 2
  LastInstant = 1
INVARIANTS
  ActionsBelongToTheScene
CHECK_DEADLOCK FALSE
