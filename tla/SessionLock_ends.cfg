SPECIFICATION FairSpec
CONSTANTS
  MaxGenerations = 2
  MaxRequests = 1
  MaxSubmits = 2
  CompositorEnds = TRUE
  SupervisorStops = FALSE
  ConfigReloads = TRUE
INVARIANTS
  HeldLockKeepsItsField
PROPERTIES
  PasswordIsAnswered
  UnlockingEnds
  BareIsCovered
CHECK_DEADLOCK FALSE
