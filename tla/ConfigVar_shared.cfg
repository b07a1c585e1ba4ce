SPECIFICATION FairSpec
CONSTANTS
  t1 = t1
  t2 = t2
  a = a
  b = b
  c = c
  Setters = {t1, t2}
  Values = {a, b, c}
  InitVal = a
  Never = Never
  Exceptions = {"std", "other"}
  MaxListeners = 2
  MaxCalls = 3
INVARIANT IterationStable
INVARIANT ListenersAgree
PROPERTY AnnouncedBeforeVisible
PROPERTY ReplacesAnnouncedOld
PROPERTY CallsReturn
PROPERTY ImplementsObservedVariable
CHECK_DEADLOCK FALSE
