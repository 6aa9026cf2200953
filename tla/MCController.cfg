SPECIFICATION CtrlFairSpec
CONSTANTS
  N = 2
  StopSongs = {2}
  Repeats = {FALSE, TRUE}
  MaxEvents <- MCMaxEvents
  MaxTime = 4
  MaxList = 3
  Capacity = 1
INVARIANTS
  DecodesLast
  ListCovers
PROPERTIES
  SongsInOrder
  PlaybackEnds
CHECK_DEADLOCK FALSE
