SPECIFICATION Spec
CONSTANTS
  Flags = {f1}
  Loaders = {l1, l2, l3}
  Clients = {c1, c2}
SYMMETRY ThreadSymmetry
INVARIANTS
  TypeOK
  Backed
  Exclusive
  RequestKept
