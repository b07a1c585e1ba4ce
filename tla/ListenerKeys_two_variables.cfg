SPECIFICATION Spec
CONSTANTS
  t1 = t1
  t2 = t2
  t3 = t3
  x = x
  y = y
  c1 = c1
  c2 = c2
  c3 = c3
  Threads = {t1, t2}
  Vars = {x, y}
  Callbacks = {c1, c2, c3}
  Free = Free
SYMMETRY Symmetry
INVARIANT KeyIsUnique
