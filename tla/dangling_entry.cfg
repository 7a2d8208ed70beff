SPECIFICATION Spec
CONSTANTS
  MaxWriteOps = 2
  SizeMod = 64
  NULL = NULL
  Proc = {p1}
  p1 = p1
  p2 = p2
  Ptr = {a1, a2, a3}
  NL = NL
  Garbage = Garbage
  x = x
  y = y
  Byte <- MCByte
  Chunks <- MCChunks
  ReadCounts = {5}
  SeekOffs = {0}
  SeekToArgs <- MCSeekToFew
  KreallocFails = {"fresh", "grow"}
  CopyFails = FALSE
  MaxPending = 2
  MaxPos = 0
  MaxLoads = 1
CHECK_DEADLOCK FALSE
INVARIANTS
  EntriesAreAllocated
