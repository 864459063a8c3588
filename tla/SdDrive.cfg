SPECIFICATION MCSpec
CONSTANTS
  Sectors = 4
  Ranges <- MCRanges
  ClkBase = 48000
  Tries = 2
  MaxCalls = 2
  MaxFaults = 2
  RAM = 4
  HeapBytes = 12
  Align = 2
  NEntries = 4
  Sizes = {0, 1, 4, 5, 12, 13}
INVARIANTS OkIsOwn BlocksSound
PROPERTIES EveryCallReturns ImplementsDiskSpec NullOnlyWithoutRoom ImplementsHeapSpec
CHECK_DEADLOCK FALSE
