SPECIFICATION Spec
CONSTANTS
  MaxWriteOps = 3
  SizeMod = 64
  NULL = NULL
  Proc = {p1}
  p1 = p1
  p2 = p2
  Ptr = {a1, a2, a3, a4}
  NL = NL
  Garbage = Garbage
  x = x
  y = y
  Byte <- MCByte
  Chunks <- MCChunksTail
  ReadCounts = {1, 9}
  SeekOffs <- MCSeekOffs
  SeekToArgs <- MCSeekTo
  KreallocFails = {}
  CopyFails = FALSE
  MaxPending = 3
  MaxPos = 5
  MaxLoads = 1
CHECK_DEADLOCK FALSE
SYMMETRY PtrSymmetry
VIEW NoResults
INVARIANTS
  FindIsExact
PROPERTIES
  ReadIsExact
  SeekToFromStart
  SeekEndFindsLastByte
