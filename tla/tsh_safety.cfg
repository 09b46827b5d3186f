CONSTANTS
  MAXJOBS = 2
  p1 = p1
  p2 = p2
  PID = {p1, p2}
  Keys = {"INT"}
  HandlerMasks <- GarbageMasks
  ForeignSIGCONT = FALSE
  MaxJid = 2
  MaxDepth = 2
SPECIFICATION Spec
SYMMETRY PIDSymmetry
CHECK_DEADLOCK FALSE
INVARIANTS
  TypeOK
  JobsAreChildren
  UniquePids
  NoOrphan
  NoLostChild
  ForegroundIsWaitedFor
  KeysSpareBackground
PROPERTIES
  StopsRecordedWhileStopped
  JobStates
