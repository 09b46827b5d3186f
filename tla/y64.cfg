CONSTANTS
  LONG = 2
  INT = 1
  MEM_SIZE = 22
  BLK_SIZE = 8
  MaxSteps = {2, 9}
  LISTING = 16
  DATA_BYTES <- MCDataBytes
  Source <- Files
  AndByte <- MCAnd
  XorByte <- MCXor
SPECIFICATION Spec
CHECK_DEADLOCK FALSE
INVARIANTS
  TypeOK
  AssembledRight
  NoFileUnresolved
  ListingMatchesFile
  ReportTellsAll
PROPERTIES
  FailedStepIsHarmless
  ConditionsTellOrder
  ImplementsISA
  Termination
