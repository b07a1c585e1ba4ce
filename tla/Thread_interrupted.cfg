SPECIFICATION Spec
CONSTANTS
  o1 = o1
  j1 = j1
  Threads = {o1}
  Joiners = {j1}
  SemWaitMayFail = TRUE
INVARIANT ConstructorBlocksUntilRun
CHECK_DEADLOCK FALSE
