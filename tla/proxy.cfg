CONSTANTS
  c1 = c1
  c2 = c2
  Client = {c1, c2}
  Patient = {c1}
  FD = {4, 5, 6}
  NewFD <- Lowest
  Cell = {1, 2}
  Requests <- SomeRequests
  Responses <- SomeResponses
SPECIFICATION FairSpec
CHECK_DEADLOCK FALSE
INVARIANTS
  TypeOK
  DescriptorsOwned
  NoForgedRequest
  ResponseInOrder
  LoggedWhenDelivered
PROPERTY PatientAreServed
