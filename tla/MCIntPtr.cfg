SPECIFICATION Spec
CONSTANTS
  Threads = {t1, t2, t3}
  Objects = {o1, o2}
  ALIGNMENT = 4
  MaxOuter = 2
  NULL = NULL
INVARIANTS
  TypeOK
  CountExact
PROPERTIES
  ImplementsSharedPointer
