SPECIFICATION FairSpec
CONSTANTS
  BLK_SIZE = 4
  cluslen = 2
  Entries = 2
  MaxClusters = 2
  Disks <- MCDisks
  NoDisk = NoDisk
  Char <- Chars
  Names <- LookedUp
  Lens = {1, 9, 20}
  Seeks = {0, 8}
  W = 24
  NBMAX_FD = 2
  MaxFails = 1
INVARIANTS
  TypeOK
  LookupRight
  ListRight
  NoWrongByte
  StartComplete
PROPERTY
  CallEnds
CHECK_DEADLOCK FALSE
