CONSTANTS
  MAXJOBS = 1
  p1 = p1
  p2 = p2
  PID = {p1, p2}
  Keys = {"INT"}
  HandlerMasks <- NoGarbage
  ForeignSIGCONT = FALSE
  MaxJid = 1
  MaxDepth = 2
SPECIFICATION FairSpec
CHECK_DEADLOCK FALSE
PROPERTIES
  WaitfgReturns
  ZombiesAreReaped
