SPECIFICATION ProcessSpec
CONSTANTS
  Runs = {p}
  LastOwner = 1
INVARIANTS
  DepartedLeaveNoProcess
CHECK_DEADLOCK FALSE
