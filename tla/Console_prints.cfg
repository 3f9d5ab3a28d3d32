SPECIFICATION Spec
CONSTANTS
  MAILBOX_TIMEOUT = 2
  Depth = 2
  MaxStray = 1
  MaxAsk = 6
  NBCOL = 5
  NBLIN = 2
  W = 16
CHECK_DEADLOCK FALSE
INVARIANTS
  TypeOK
  PowerCycled
  OnLine
  OnlyByRace
  NoOverdraw
PROPERTIES
  ReadEnds
