SPECIFICATION Spec
CONSTANTS
  s1 = s1
  s2 = s2
  NULL = NULL
  Songs = {s1, s2}
  Entries = {1, 2, 3, 4, 5}
  Files <- MCFiles
  Requests = {{"Child"}}
  Invalidations = {{"Child"}}
  Loaders = {l1}
  Readers = {saver}
  Saver = saver
  MaxLen = 4
  MaxShared = 2
  MaxText = 2
INVARIANTS
  TypeOK
  IndexConsistent
  UnmodifiedIsSaved
  RearrangedAsOrdered
PROPERTY
  LoadedAsRead
SYMMETRY SongSymmetry
