SPECIFICATION FairSpec
CONSTANTS
  Conn = {c1, c2}
  c1 = c1
  c2 = c2
  x = x
  y = y
  NL = NL
  NULL = NULL
  Seeks <- MCSeeks
  Chunks <- MCChunksPlain
  MaxWriteOps = 2
  StdioBuf = 8
  DeviceFails = FALSE
  MaxRecv = 1
CHECK_DEADLOCK FALSE
PROPERTIES
  ReadersAreServed
