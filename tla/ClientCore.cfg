SPECIFICATION Spec
CONSTANTS
  Callers = {app}
  Reader = reader
  KeepaliveSecs = {0, 1}
  TimeoutSecs = {26}
  Durations = {1, 2}
  Period = 1
  LongestWait = 3
  CallbackSubscribes = FALSE
  MaxSent = 3
  MaxInbox = 1
  MaxClock = 4
INVARIANTS TypeOK ConnectFirst NoNullDeref UniqueIds TrueMeansSent AcceptedMeansConnected
PROPERTY ImplementsSession
CHECK_DEADLOCK FALSE
