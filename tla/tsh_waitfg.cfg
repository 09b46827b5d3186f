CONSTANTS
  MAXJOBS = 1
  p1 = p1
  PID = {p1}
  Keys = {}
  HandlerMasks <- NoGarbage
  ForeignSIGCONT = FALSE
  MaxJid = 1
  MaxDepth = 1
SPECIFICATION FairSpec
CHECK_DEADLOCK FALSE
PROPERTY WaitfgReturnsWithoutForeground
