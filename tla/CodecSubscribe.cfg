SPECIFICATION Spec
CONSTANTS
  Kinds = {"subscribe"}
  Sizes = {0}
  Levels = {0, 1, 2}
  Retains = {FALSE}
  Lengths = {1, 60}
  Messages = {1, 127}
  Buffers = {200}
INVARIANTS SubscribeLength
CHECK_DEADLOCK FALSE
