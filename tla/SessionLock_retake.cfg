SPECIFICATION Spec
CONSTANTS
  MaxGenerations = 3
  MaxRequests = 2
  MaxSubmits = 1
  CompositorEnds = FALSE
  SupervisorStops = FALSE
  ConfigReloads = FALSE
INVARIANTS
  EveryRespawnRetakes
CHECK_DEADLOCK FALSE
