SPECIFICATION Spec
CONSTANTS
  Delegates = {d1, d2, d3}
  Notifiers = {n1, n2}
  NULL = NULL
SYMMETRY ThreadSymmetry
INVARIANTS
  TypeOK
  OneDetaches
  ListOfRegistered
  IteratorsRunning
  AllCalled
