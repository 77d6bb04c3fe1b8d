SPECIFICATION Spec
CONSTANTS
  MaxGenerations = 1
  MaxRequests = 2
  MaxSubmits = 1
  CompositorEnds = TRUE
  SupervisorStops = FALSE
  ConfigReloads = FALSE
PROPERTIES
  ReleaseNamesItsLock
CHECK_DEADLOCK FALSE
