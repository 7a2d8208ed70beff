SPECIFICATION Spec
CONSTANTS
  MaxCalls = 2
  MaxOutput = 2
  NULL = NULL
CHECK_DEADLOCK FALSE
INVARIANTS
  TypeOK
  ResultIsHonest
  ChildrenAreReaped
  OutputIsCommands
PROPERTIES
  CallsReturn
