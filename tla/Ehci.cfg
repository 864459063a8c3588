SPECIFICATION MCSpec
CONSTANTS
  Disks <- MCDisks
  Paths <- MCPaths
  SS = 2
  FatBytes = 8
  PerDir = 2
  F12 = 10
  F16 = 14
  Part = 2
  BaseLen = 3
  ExtLen = 1
  MaxLen = 9
  Buffers <- MCBuffers
  Lengths <- MCLengths
  Images <- MCImages
  NoImage = NoImage
  DiscId = DiscId
  NoDiscId = NoDiscId
  DolBase = 2
  Loader = 20
  High = 30
  Bi2Length = 2
  MaxStarts = 2
INVARIANTS DiscReads OpensNamed BufferIsCovered GameIsPatched RegionFits
PROPERTIES ReturnsWhatMoved
CHECK_DEADLOCK FALSE
