SPECIFICATION TurnFairSpec
CONSTANTS
  Values = {1, 2}
  HoldTime = 0
  WindowTime = 0
  LastPush = 1
  MaxFailedPasses = 0
PROPERTIES
  MeasurementIsShown
CHECK_DEADLOCK FALSE
