CONSTANTS
  Build = "EHCI"
  MaxReq = 3
SPECIFICATION Spec
INVARIANTS
  ReadIsComplete
CHECK_DEADLOCK FALSE
