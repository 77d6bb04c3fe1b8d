SPECIFICATION FairSpec
CONSTANTS
  MaxGenerations = 3
  MaxRequests = 1
  MaxSubmits = 2
  CompositorEnds = FALSE
  SupervisorStops = TRUE
  ConfigReloads = FALSE
INVARIANTS
  ActiveIsMarked
PROPERTIES
  MarkedBareIsCovered
  KeepsTheContract
CHECK_DEADLOCK FALSE
