CONSTANTS
  MAXJOBS = 1
  p1 = p1
  PID = {p1}
  Keys = {"INT", "TSTP", "QUIT"}
  HandlerMasks <- AllGarbage
  ForeignSIGCONT = TRUE
  MaxJid = 2
  MaxDepth = 3
SPECIFICATION Spec
CHECK_DEADLOCK FALSE
INVARIANT MaskRestored
