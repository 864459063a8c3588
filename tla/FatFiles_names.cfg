CONSTANTS
  Fat32 = TRUE
  NFatEnt = 7
  PerFat = 2
  PerDir = 3
  CSize = 2
  NFats = 2
  RootEnts = 0
  Units = 2
  MaxNum = 3
  Names <- MCNames
  Handles = {h1}
  Paths <- MCPaths
  FirstDisk <- MCFirstDisk
  Counts = {1, 4}
  Positions = {0, 3}
  MaxLen = 5
  Calls = {"names"}
  MaxOps = 4
  MaxCuts = 1

SPECIFICATION Spec
INVARIANTS StatIsRight FilesAreRight ClustersSound
CHECK_DEADLOCK FALSE
