SPECIFICATION Spec
CONSTANTS
  t1 = t1
  t2 = t2
  Threads = {t1, t2}
  Shared = TRUE
  OpenMayFail = TRUE
  MaxTime = 7
  MaxFiles = 2
SYMMETRY Symmetry
INVARIANT LossExplained
PROPERTY RotationNoticed
