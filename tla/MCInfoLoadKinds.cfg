SPECIFICATION Spec
CONSTANTS
  Flags = {f1, f2}
  Workers = {}
  DlgWorkers = {}
  Askers = {a1, a2}
  Clients = {}
  LowClients = {}
  Changers = {x1}
  MaxVersion = 1
  NULL = NULL
SYMMETRY KindSymmetry
INVARIANTS
  FreshUnlessTainted
CHECK_DEADLOCK FALSE
