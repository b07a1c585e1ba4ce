SPECIFICATION FairSpec
CONSTANTS
  t1 = t1
  t2 = t2
  a1 = a1
  a2 = a2
  f1 = f1
  f2 = f2
  root = root
  sys = sys
  Threads = {t1, t2}
  Loggers = {root, sys}
  Root = root
  Appenders = {a1, a2}
  Formatters = {f1, f2}
  Null = Null
  Unset = Unset
  Default = f1
  Free = Free
  MaxOps = 4
INVARIANT TypeOK
INVARIANT AppenderHasFormatter
INVARIANT OwnFormatterKept
INVARIANT InheritedInSync
PROPERTY DeliveredInFull
PROPERTY OperationsReturn
CHECK_DEADLOCK FALSE
