SPECIFICATION Spec
CONSTANTS
  Callers = {app}
  Reader = reader
  KeepaliveSecs = {2}
  TimeoutSecs = {26}
  Durations = {3}
  Period = 2
  CallbackSubscribes = FALSE
  MaxSent = 2
  MaxInbox = 1
  MaxClock = 10
INVARIANT BrokerHears
CHECK_DEADLOCK FALSE
