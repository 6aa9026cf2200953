SPECIFICATION FairSpec
CONSTANTS
  o1 = o1
  o2 = o2
  o3 = o3
  f1 = f1
  f2 = f2
  Objects = {o1, o2, o3}
  Flags = {f1, f2}
  Starter = s
  NULL = NULL
  Alternatives <- MCAlternatives
INVARIANTS
  TypeOK
  CompletedOnce
  CompletedFulfilled
  AlternativeSuffices
PROPERTIES
  CompletesUnlessSplit
CHECK_DEADLOCK FALSE
