SPECIFICATION Spec
CONSTANTS
  MaxSockets = 2
  RecvTime = 1
  SendTime = 1
  PublishTime = 1
  RetryTime = 2
  AliveTime = 2
  Garbage = TRUE
CONSTRAINT
  Uncaught
INVARIANTS
  TypeOK
  FreshReader
PROPERTIES
  HealthyKept
CHECK_DEADLOCK FALSE
