SPECIFICATION SvcSpec
CONSTANTS
  init = init
  a1 = a1
  a2 = a2
  NULL = NULL
  Addr = {init, a1, a2}
  InitAddr = init
  NBMAX_PROC = 2
  WaitMod = 2
  ReapLimit = 1
  KillStatus = {"TERM"}
  Calls = {"clone"}
  NestedTicks = FALSE
  ExitSpins = TRUE
  SvcFrames = 4
VIEW MCSvcView
SYMMETRY MCSymmetry
CHECK_DEADLOCK FALSE
INVARIANTS
  SvcFrameOwn
