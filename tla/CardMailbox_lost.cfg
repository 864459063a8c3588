CONSTANTS
  Kinds = {"Open", "Write"}
  MaxReq = 2
  TableFills = FALSE
SPECIFICATION Spec
INVARIANTS
  EverySentCommandIsServed
CHECK_DEADLOCK FALSE
