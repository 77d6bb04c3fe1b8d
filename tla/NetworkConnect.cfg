SPECIFICATION FairSpec
CONSTANTS
  Networks = {home, office}
  NoNetwork = none
  MaxTasks = 2
  MaxUndone = 2
  MaxQueue = 1
INVARIANTS
  SpinnerIsOwed
  PromptIsAnswerable
  AbortedIsStopped
  OnlyUnwantedIsStopped
PROPERTIES
  SpinnerStops
CHECK_DEADLOCK FALSE
