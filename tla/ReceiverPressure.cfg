CONSTANTS
  Ids <- PressureIds
  NumChunks <- PressureChunks
  Kind <- PressureKind
  Size <- PressureSize
  Streamed = {}
  Asking = {}
  NumShards = 2
  NumSlots = 2
  Readers = {r1}
  Leader = r1
  r1 = r1
  r2 = r2
  Sequential = TRUE
SPECIFICATION FairSpec
INVARIANTS SlotsHeldOnce NoSleepingAllocate
PROPERTIES EverythingReleased
CHECK_DEADLOCK FALSE
