CONSTANTS
  MAXJOBS = 1
  p1 = p1
  PID = {p1}
  Keys = {"INT"}
  HandlerMasks <- NoGarbage
  ForeignSIGCONT = FALSE
  MaxJid = 1
  MaxDepth = 2
SPECIFICATION Spec
CHECK_DEADLOCK FALSE
INVARIANT CtrlCReachesItsJob
