CONSTANTS
  MAXJOBS = 4
  p1 = p1
  p2 = p2
  p3 = p3
  p4 = p4
  PID = {p1, p2, p3, p4}
  Keys = {}
  HandlerMasks <- NoGarbage
  ForeignSIGCONT = FALSE
  MaxJid = 4
  MaxDepth = 1
SPECIFICATION Spec
SYMMETRY PIDSymmetry
CHECK_DEADLOCK FALSE
INVARIANT JobsFoundByJid
