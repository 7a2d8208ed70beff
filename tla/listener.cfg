SPECIFICATION FairSpec
CONSTANTS
  Conn = {c1, c2, c3}
  Entry = {e1, e2, e3}
  NULL = NULL
CHECK_DEADLOCK FALSE
INVARIANTS
  TypeOK
  ArgsStayValid
  ListHoldsThreads
  ExitIsClean
PROPERTIES
  SignalOutsideAcceptTerminates
