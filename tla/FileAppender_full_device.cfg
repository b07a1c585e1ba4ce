SPECIFICATION Spec
CONSTANTS
  t1 = t1
  t2 = t2
  Threads = {t1, t2}
  Shared = FALSE
  OpenMayFail = FALSE
  MaxTime = 4
  MaxFiles = 1
SYMMETRY Symmetry
PROPERTY ReopenOpens
