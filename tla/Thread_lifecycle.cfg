SPECIFICATION FairSpec
CONSTANTS
  o1 = o1
  o2 = o2
  j1 = j1
  j2 = j2
  j3 = j3
  Threads = {o1, o2}
  Joiners = {j1, j2, j3}
  SemWaitMayFail = TRUE
INVARIANT TypeOK
INVARIANT HandshakeDone
INVARIANT RunTouchesLiveObject
INVARIANT JoinImpliesFinished
INVARIANT HandleUsable
INVARIANT GetThisValid
PROPERTY ReapedOnce
PROPERTY ConstructorReturns
CHECK_DEADLOCK FALSE
