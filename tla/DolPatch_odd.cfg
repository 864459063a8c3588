CONSTANTS
  Execs <- MCOdd
  Files <- MCFiles
  NMM = TRUE
  Block = 2
  Top = 100
  MaxLoads = 1
SPECIFICATION DolSpec
INVARIANTS
  RunsPatched
CHECK_DEADLOCK FALSE
