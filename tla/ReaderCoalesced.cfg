SPECIFICATION Spec
CONSTANTS
  Sizes = {2, 4}
  HeaderSize = 31
  Modulus = 1048576
  FirstBytes = 3
  Coalesce = TRUE
  Stalls = FALSE
  MaxPackets = 2
INVARIANT FitsDirectly
CHECK_DEADLOCK FALSE
