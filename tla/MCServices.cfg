CONSTANTS
  \* ControlSocket
  Clients = {a, b}  LastGeneration = 1  LastToken = 2  LastCall = 2
  MaxPendingCalls = 2  MaxInboundFrames = 2  MaxOutboundFrames = 1
  \* ProcessRegistry
  Runs = {p, q}  LastOwner = 1
  \* OutputLines
  Bytes = {"a", "b"}  Newline = "newline"  MaxLineBytes = 2  LastByte = 5
  \* ConfigWatcher
  Contents = {1, 2}  MaxEdits = 4  MaxEvents = 4
  \* RestartBrake
  RestartLimit = 3  RestartWindow = 6  RestartCooldown = 3
  \* NotificationQueue
  QueueCap = 2  LastId = 3  Named = {1, 3}  LastIncarnation = 3  InFlight = 2
  \* IdleInhibit
  Peers = {a, b}  LastHolder = 2  LastCookie = 2  MaxAsked = 3
  \* IdleThresholds
  Secs = {30}  LastTree = 2  MaxRaw = 2  MaxRequests = 4
  \* BluetoothPrompt
  Macs = {m1, m2}  AcceptGrace = 3  Transit = 1  LastRequest = 2
  \* SceneTurn
  Values = {1, 2}  HoldTime = 2  WindowTime = 1  LastPush = 2  MaxFailedPasses = 1
  \* ConfigTimers
  LastEvaluation = 3  LastTimer = 3  LastInstant = 2

SPECIFICATION ServicesSpec

INVARIANTS
  CallerGetsItsOwnAnswer
  LiveLinkIsRegistered
  ExitIsReportedOnce
  LinesAreWhole
  BurstsAreBraked
  QueueHoldsAnIdOnce
  ExpiredByItsOwnTimer
  QueuedIconExists
  FdFollowsHolds
  WantedIsHeard
  ToldWhatTheSeatIs
  YesIsForTheCardSeen
  TimersRunAsArmed

PROPERTIES
  EveryEndIsReported
  EditsAreLoaded
  LastPushIsShown
  ClocksSettle

CHECK_DEADLOCK FALSE
