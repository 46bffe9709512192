SPECIFICATION Spec
CONSTANTS
  Callers = {app}
  Reader = reader
  KeepaliveSecs = {2}
  TimeoutSecs = {26}
  Durations = {1, 2}
  Period = 1
  CallbackSubscribes = FALSE
  MaxSent = 2
  MaxInbox = 1
  MaxClock = 8
INVARIANT TrafficBound
CHECK_DEADLOCK FALSE
