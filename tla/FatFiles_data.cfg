CONSTANTS
  Fat32 = FALSE
  NFatEnt = 7
  PerFat = 2
  PerDir = 3
  CSize = 2
  NFats = 2
  RootEnts = 6
  Units = 2
  MaxNum = 3
  Names <- MCNames
  Handles = {h1, h2}
  Paths <- MCTwoPaths
  FirstDisk <- MCFirstDisk
  Counts = {1, 4}
  Positions = {0, 3}
  MaxLen = 5
  Calls = {"files"}
  MaxOps = 7
  MaxCuts = 1
SYMMETRY Handle
SPECIFICATION Spec
INVARIANTS VolumeIsRight
CHECK_DEADLOCK FALSE
