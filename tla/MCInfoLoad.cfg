SPECIFICATION FairSpec
CONSTANTS
  Flags = {f1}
  Workers = {w1, w2}
  DlgWorkers = {w2}
  Askers = {}
  Clients = {c1, c2}
  LowClients = {c2}
  Changers = {x1}
  MaxVersion = 1
  NULL = NULL
INVARIANTS
  TypeOK
  RequestsOnTheWay
PROPERTIES
  ClientsAnswered
CHECK_DEADLOCK FALSE
