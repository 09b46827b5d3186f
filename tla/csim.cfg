CONSTANTS
  S = 2
  E = 3
  B = 2
  Addresses <- SmallAddresses
  MaxAccesses = 7
SPECIFICATION Spec
CHECK_DEADLOCK FALSE
INVARIANTS
  TypeOK
  LinesConsistent
  AgesOrderLines
PROPERTY IsLRU
