SPECIFICATION Spec
CONSTANTS
  Kinds = {"publish"}
  Sizes = {0}
  Levels = {0}
  Retains = {FALSE, TRUE}
  Lengths = {1, 60}
  Messages = {1, 127}
  Buffers = {200}
INVARIANTS FlagsAsAsked
CHECK_DEADLOCK FALSE
