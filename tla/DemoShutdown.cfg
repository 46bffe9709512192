SPECIFICATION FairSpec
CONSTANTS
  MaxSockets = 2
  RecvTime = 1
  SendTime = 1
  PublishTime = 1
  RetryTime = 2
  AliveTime = 2
  Garbage = FALSE
PROPERTIES
  ShutdownFollows
CHECK_DEADLOCK FALSE
