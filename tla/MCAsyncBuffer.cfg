SPECIFICATION FairSpec
CONSTANTS
  FileSize = 5
  Size = 3
  Keep = 1
  MinObsolete = 0
  BlockSize = 2
  MaxCount = 2
  Prefills = {0}
  MaxFaults = 1
INVARIANTS
  RingConsistent
  ReadsRight
  EofRight
PROPERTIES
  CallsReturn
CHECK_DEADLOCK FALSE
