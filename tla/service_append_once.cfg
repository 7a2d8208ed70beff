SPECIFICATION Spec
CONSTANTS
  Conn = {c1}
  c1 = c1
  c2 = c2
  x = x
  y = y
  NL = NL
  NULL = NULL
  Seeks <- MCSeeks
  Chunks <- MCChunksPlain
  MaxWriteOps = 4
  StdioBuf = 8
  DeviceFails = FALSE
  MaxRecv = 2
CHECK_DEADLOCK FALSE
INVARIANTS
  PacketsAreStoredOnce
