SPECIFICATION Spec
CONSTANTS
  Kinds = {"suback"}
  Sizes = {0}
  Levels = {0}
  Retains = {FALSE}
  Lengths = {1}
  Messages = {1}
  Buffers = {64}
INVARIANTS GrantedIsSuccess
CHECK_DEADLOCK FALSE
