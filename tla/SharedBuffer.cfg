SPECIFICATION Spec
CONSTANTS
  Callers = {app}
  Reader = reader
  KeepaliveSecs = {1}
  TimeoutSecs = {26}
  Durations = {1}
  Period = 1
  CallbackSubscribes = TRUE
  MaxSent = 3
  MaxInbox = 1
  MaxClock = 1
INVARIANT TrueMeansSent
CHECK_DEADLOCK FALSE
