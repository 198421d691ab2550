CONSTANTS
  NumReaders = 3
  MaxChunks = 2
  MaxChunkBytes = 4
  Lengths <- AroundTheBound
  NumSlots = 6
SPECIFICATION MCSpec
INVARIANTS NoRace NoneOnlyIfNoFit
PROPERTIES ImplementsBroadcast EveryReaderObtainsAll TakesFirstFit
