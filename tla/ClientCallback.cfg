SPECIFICATION FairSpec
CONSTANTS
  Callers = {app}
  Reader = reader
  KeepaliveSecs = {1}
  TimeoutSecs = {26}
  Durations = {1}
  Period = 1
  CallbackSubscribes = TRUE
  MaxSent = 2
  MaxInbox = 1
  MaxClock = 4
INVARIANTS ConnectFirst AcceptedMeansConnected
PROPERTY CallsReturn
CHECK_DEADLOCK FALSE
