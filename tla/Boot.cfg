SPECIFICATION MCSpec
CONSTANTS
  usa = usa
  eur = eur
  Games <- MCGames
  Region <- MCRegion
  Mios = {usa}
  Missing = Missing
  NoGame = NoGame
  Disc = Disc
  NoId = NoId
  Configs <- MCConfigs
  Execs <- MCExecs
  Files <- MCFiles
  NMM = TRUE
  Block = 2
  Top = 100
  MaxLoads = 3
  Word = 512
  Field = 64
  B = 128
  Texts <- MCTexts
  Setups <- MCSetups
  LoaderTexts <- MCLoaders
  CPatterns <- MCCPatterns
  FPatterns <- MCFPatterns
  LPatterns <- MCLPatterns
  GetResultCode <- MCResult
  Above = 3
INVARIANTS SumFits VideoFits MenuFits RunsPatched Arrives FindsCalls SearchesAreRight
PROPERTIES EveryBootEnds ImplementsBootSpec
