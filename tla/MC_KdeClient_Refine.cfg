CONSTANTS
  p1 = p1
  p2 = p2
  p3 = p3
  w1 = w1
  w2 = w2
  None = None
  Procs <- MCProcs3
  Windows <- MCWindows
  MaxSwitches = 3

SPECIFICATION Spec

PROPERTY ViewRefinement

SYMMETRY MCSymmetry3

CHECK_DEADLOCK FALSE
