SPECIFICATION Spec
CONSTANTS
  b1 = b1
  b2 = b2
  b3 = b3
  b4 = b4
  b5 = b5
  b6 = b6
  p1 = p1
  tmp = tmp
  dev = dev
  f = f
  g = g
  NULL = NULL
  Blk = {b1, b2, b3, b4, b5, b6}
  Proc = {p1}
  Dir = {tmp, dev}
  File = {f, g}
  TmpDir = tmp
  DevDir = dev
  NBMAX_MOUNTINGPOINT = 3
  NBMAX_NODE = 3
  NBMAX_FD = 2
VIEW MCView
CHECK_DEADLOCK FALSE
INVARIANTS
  TypeOK
  OwnedOnce
  FdsFollowPaths
PROPERTIES
  ImplementsTree
