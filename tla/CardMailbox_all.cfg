CONSTANTS
  Kinds <- EveryKind
  MaxReq = 3
  TableFills = TRUE
SPECIFICATION Spec
INVARIANTS RegistersAreOwn ServedOnce ResultIsOwn
PROPERTIES EveryCallReturns
CHECK_DEADLOCK FALSE
