SPECIFICATION Spec
CONSTANTS
  MaxGenerations = 3
  MaxRequests = 2
  MaxSubmits = 2
  CompositorEnds = FALSE
  SupervisorStops = FALSE
  ConfigReloads = FALSE
INVARIANTS
  AuthenticatingIsOwed
  SubmitReachesItsLock
  ActiveMatchesRenderer
  BareIsOwed
PROPERTIES
  OnlyAnsweredSessionsOpen
CHECK_DEADLOCK FALSE
