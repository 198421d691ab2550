CONSTANTS
  Ids <- StreamIds
  NumChunks <- StreamChunks
  Kind <- StreamKind
  Size <- StreamSize
  Streamed = {"a"}
  Asking = {"a"}
  NumShards = 2
  NumSlots = 1
  Readers = {r1, r2}
  Leader = r1
  r1 = r1
  r2 = r2
  Sequential = TRUE
SPECIFICATION Spec
INVARIANTS OnlyWholeTensors NoFalseEnd NoneSleepsForGood NothingLeft
PROPERTIES ImplementsStore
