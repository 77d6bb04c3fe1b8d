SPECIFICATION FairSpec
CONSTANTS
  Capabilities = {polkit}
  Polkit = polkit
  Cookies = {a, b}
  NoCookie = none
  MaxOutbound = 2
  MaxGenerations = 2
  MaxFrames = 2
INVARIANTS
  NoCallerIsForgotten
  OkMeansVouched
  LatchIsOwed
  DialogIsCurrent
PROPERTIES
  WithdrawnIsAnswered
  PasswordIsAnswered
CHECK_DEADLOCK FALSE
