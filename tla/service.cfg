SPECIFICATION FairSpec
CONSTANTS
  Conn = {c1, c2}
  c1 = c1
  c2 = c2
  x = x
  y = y
  NL = NL
  NULL = NULL
  Seeks <- MCSeeks
  Chunks <- MCChunks
  MaxWriteOps = 2
  StdioBuf = 4
  DeviceFails = TRUE
  MaxRecv = 2
CHECK_DEADLOCK FALSE
INVARIANTS
  TypeOK
  CommandsAreWholePackets
  PacketsStayApart
PROPERTIES
  ReplyIsDeviceContents
  PacketsAreHandled
