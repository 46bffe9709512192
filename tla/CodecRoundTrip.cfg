SPECIFICATION Spec
CONSTANTS
  Kinds = {"header", "publish", "subscribe", "connect", "inbound", "suback"}
  Sizes = {0, 1, 127, 128, 16383, 16384, 2097151, 2097152, 268435455, 2147483647}
  Levels = {0, 1, 2}
  Retains = {FALSE, TRUE}
  Lengths = {0, 1, 60, 122, 129}
  Messages = {1, 127, 16378}
  Buffers = {5, 8, 200, 1024}
INVARIANTS HeaderRoundTrip DeclaredLength PublishReceived PlainFlagsReach FlagsMatchPayload
CHECK_DEADLOCK FALSE
