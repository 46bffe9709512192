SPECIFICATION Spec
CONSTANTS
  Callers = {app}
  Reader = reader
  KeepaliveSecs = {1}
  TimeoutSecs = {26}
  Durations = {1}
  Period = 1
  CallbackSubscribes = FALSE
  MaxSent = 2
  MaxInbox = 1
  MaxClock = 1
INVARIANT SubscribeWaits
CHECK_DEADLOCK FALSE
