SPECIFICATION FairSpec
CONSTANTS
  Sizes = {2, 33, 140}
  HeaderSize = 31
  Modulus = 1048576
  FirstBytes = 3
  Coalesce = FALSE
  Stalls = FALSE
  MaxPackets = 2
INVARIANTS TypeOK DeliveredWhole FitsDirectly
PROPERTIES Delivery ReaderEnds
CHECK_DEADLOCK FALSE
