SPECIFICATION Spec
CONSTANTS
  Modulus = 32
  MSS = 2
  SegCount = 4
  Total = 5
  First = 29
  MaxFaults = 1
  TxLength = 5
  TxWindow = 6
  MaxChunk = 2
  RxLength = 5
  RxWindow = 4
  LittleSpace = 1
  EnoughSpace = 4
  MaxRead = 3
CHECK_DEADLOCK FALSE
PROPERTIES WithinWindow
