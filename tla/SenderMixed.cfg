CONSTANTS
  Chunks <- MixedChunks
  Size <- MixedSize
  IntraDsts <- MixedIntra
  InterDsts <- MixedInter
  NumSlots = 1
  SlotNumel = 2
  GroupSize = 2
  CopyModes = {TRUE, FALSE}
  Aborting = {}
  r1 = r1
  r2 = r2
  x1 = x1
  x2 = x2
SPECIFICATION Spec
INVARIANTS UsedBuffersAreHeld
