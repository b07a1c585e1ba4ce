SPECIFICATION Spec
CONSTANTS
  t1 = t1
  t2 = t2
  Loaders = {t1, t2}
  Names = {1, 2}
  Root = 1
  Nodes <- MCNodes
  Console = Console
  None = None
  Default = Default
  MaxLoads = 3
  file1 = file1
  file2 = file2
  pattern1 = pattern1
  broken = broken
  Invalid = {broken}
SYMMETRY Symmetry
INVARIANT TypeOK
INVARIANT ConfiguredAsStored
INVARIANT NeverMixed
INVARIANT RoundTrip
