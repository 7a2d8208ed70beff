SPECIFICATION Spec
CONSTANTS
  MaxWriteOps = 2
  SizeMod = 64
  NULL = NULL
  Proc = {p1, p2}
  p1 = p1
  p2 = p2
  Ptr = {a1, a2, a3, a4}
  NL = NL
  Garbage = Garbage
  x = x
  y = y
  Byte <- MCByte
  Chunks <- MCChunks
  ReadCounts = {0}
  SeekOffs = {0}
  SeekToArgs <- MCSeekToFew
  KreallocFails = {"fresh"}
  CopyFails = TRUE
  MaxPending = 2
  MaxPos = 0
  MaxLoads = 2
CHECK_DEADLOCK FALSE
SYMMETRY Symmetry
VIEW NoResults
INVARIANTS
  TypeOK
  LockDiscipline
  Ownership
PROPERTIES
  UnloadKeepsOnlyPending
  ImplementsCommandLog
