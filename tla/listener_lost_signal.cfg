SPECIFICATION FairSpec
CONSTANTS
  Conn = {c1}
  Entry = {e1}
  NULL = NULL
CHECK_DEADLOCK FALSE
PROPERTIES
  SignalTerminates
