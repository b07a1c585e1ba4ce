SPECIFICATION Spec
CONSTANTS
  t1 = t1
  t2 = t2
  t3 = t3
  Threads = {t1, t2, t3}
  Nobody = Nobody
  MaxReaders = 4
  MaxCount = 3
INVARIANT GuardTellsTruth
INVARIANT CountExact
PROPERTY ImplementsReadWriteLock
