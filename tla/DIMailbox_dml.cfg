CONSTANTS
  Build = "DML"
  MaxReq = 4
SPECIFICATION Spec
INVARIANTS ReadIsComplete NoStrayInterrupt
PROPERTIES EveryReadReturns
CHECK_DEADLOCK FALSE
