SPECIFICATION Spec
CONSTANTS
  Threads = {t1, t2, t3}
  Objects = {o1}
  ALIGNMENT = 4
  MaxOuter = 3
  NULL = NULL
INVARIANTS
  InUseAlive
