SPECIFICATION Spec
CONSTANTS
  Sectors = 4
  Ranges <- MCRanges
  Wrap = 3
  Luns = 2
  Ports = 3
  Retries = 3
  MaxCalls = 2
  MaxFaults = 2
  MaxRefusals = 1
INVARIANTS InStep RightUnit
PROPERTIES ImplementsDiskSpec EveryCallReturns
CHECK_DEADLOCK FALSE
