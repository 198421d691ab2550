CONSTANTS
  Requests = {"a", "b", "c", "e"}
  Kinds = {"m", "n"}
  Data <- MixedData
  MaxBatch = 2
  NumWorkers = 2
  MergeSize = 2
  Window = 2
  Deepstack = 1
  Grids <- ThreeGrids
  NWindow2 = 3
  NWindowInfer = 200
  ShortAudios = {3, 6, 7, 10, 11, 12, 17}
  LongAudios = {1, 60, 93, 100, 200, 230, 408}
  ImageSizes <- FourSizes
  TileSize = 4
  MinTiles = 1
  MaxTiles = 6
  UseThumbnail = TRUE
  Side = 4
  LlavaSide = 3
  TokensPerSide = 2
  Layouts <- ThreeLayouts
  FrameCounts = {2, 3}
  NumHeads = 8
  HeadDim = 2
  FFDim = 12
  WorldSizes = {1, 2, 3, 4}
  MaxInput = 2
SPECIFICATION MCSpec
INVARIANTS AnsweredAreEmbedded EachItsOwn EveryHeadOnce
PROPERTIES FirstComeFirstServed EveryRequestEnds
