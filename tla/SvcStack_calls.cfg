SPECIFICATION SvcSpec
CONSTANTS
  init = init
  a1 = a1
  a2 = a2
  NULL = NULL
  Addr = {init, a1, a2}
  InitAddr = init
  NBMAX_PROC = 2
  WaitMod = 4
  ReapLimit = 2
  KillStatus = {"WAIT", "TERM", "SLEEP"}
  Calls = {"clone", "exit", "kill", "waitpid", "exec"}
  NestedTicks = FALSE
  ExitSpins = TRUE
  SvcFrames = 4
VIEW MCSvcView
SYMMETRY MCSymmetry
CHECK_DEADLOCK FALSE
INVARIANTS
  TypeOK
  OwnContext
  FrameKnown
  OneRunner
  SvcEnough
