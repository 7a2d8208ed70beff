SPECIFICATION FairSpec
CONSTANTS
  MaxWriteOps = 1
  SizeMod = 64
  NULL = NULL
  Proc = {p1, p2}
  p1 = p1
  p2 = p2
  Ptr = {a1, a2}
  NL = NL
  Garbage = Garbage
  x = x
  y = y
  Byte <- MCByte
  Chunks <- MCChunks
  ReadCounts = {5}
  SeekOffs = {1}
  SeekToArgs <- MCSeekToFew
  KreallocFails = {"fresh", "grow"}
  CopyFails = TRUE
  MaxPending = 1
  MaxPos = 0
  MaxLoads = 1
CHECK_DEADLOCK FALSE
INVARIANTS
  LockDiscipline
PROPERTIES
  CallsReturnOrOops
