CONSTANTS
  Chunks <- OversizeChunks
  Size <- OversizeSize
  IntraDsts <- OversizeIntra
  InterDsts <- OversizeInter
  NumSlots = 2
  SlotNumel = 2
  GroupSize = 2
  CopyModes = {TRUE, FALSE}
  Aborting = {r1, x1}
  r1 = r1
  r2 = r2
  x1 = x1
  x2 = x2
SPECIFICATION FairSpec
INVARIANTS UsedBuffersAreHeld ToldOfWholeBuffers NothingLeft
PROPERTIES EverySendReturns
