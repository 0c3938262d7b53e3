CONSTANTS
  p1 = p1
  p2 = p2
  p3 = p3
  w1 = w1
  w2 = w2
  None = None
  Procs <- MCProcs
  Windows <- MCWindows
  MaxSwitches = 3

SPECIFICATION FaultSpec

INVARIANT SupportedReflectsServer

SYMMETRY MCSymmetry

CHECK_DEADLOCK FALSE
