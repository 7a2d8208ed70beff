SPECIFICATION Spec
CONSTANTS
  Addresses = 3
  MaxFd = 5
  STD = STD
  DEVNULL = DEVNULL
  CLOSED = CLOSED
  NULL = NULL
CHECK_DEADLOCK FALSE
INVARIANTS
  TypeOK
  ServesOnBoundSocket
  DaemonIsDetached
  GivesUpOnlyOnFailure
PROPERTIES
  StartupEnds
