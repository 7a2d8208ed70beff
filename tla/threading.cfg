SPECIFICATION Spec
CONSTANTS
  Thread = {t1, t2, t3}
  CALLER = CALLER
  NULL = NULL
CHECK_DEADLOCK FALSE
INVARIANTS
  TypeOK
  HoldersExclude
  DataOutlivesThread
  SuccessIsHonest
PROPERTIES
  ThreadsReturn
