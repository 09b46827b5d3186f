CONSTANTS
  MAX_HEAP = 24
  CHUNKSIZE = 4
  Padded <- PaddedSizes
  Ids <- SmallIds
  Sizes <- SmallSizes
  Garbage <- AnyWord
SPECIFICATION Spec
VIEW LiveView
CHECK_DEADLOCK FALSE
INVARIANTS
  TypeOK
  TagsAgree
  FreeListExact
  NoFreeNeighbours
  NothingLeaks
  HighWaterInHeap
  LeftoversDoNotMatter
PROPERTY PayloadsAreSafe
