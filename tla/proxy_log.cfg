CONSTANTS
  c1 = c1
  Client = {c1}
  Patient = {}
  FD = {4, 5}
  NewFD <- Lowest
  Cell = {1}
  Requests <- SomeRequests
  Responses <- SomeResponses
SPECIFICATION Spec
CHECK_DEADLOCK FALSE
INVARIANT LogCountsServerBytes
