SPECIFICATION FairSpec
CONSTANTS
  r1 = r1
  r2 = r2
  NULL = NULL
  Entries = {e1, e2, e3}
  Readers = {r1, r2}
  Levels = 3
  Bound <- MCBound
INVARIANTS
  TypeOK
  TailsCumulative
  NoLostWakeup
  ListIntact
PROPERTIES
  ImplementsPriorityList
  ReaderServed
