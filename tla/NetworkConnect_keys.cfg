SPECIFICATION Spec
CONSTANTS
  Networks = {home, office}
  NoNetwork = none
  MaxTasks = 3
  MaxUndone = 0
  MaxQueue = 2
INVARIANTS
  KeyIsForItsNetwork
CHECK_DEADLOCK FALSE
