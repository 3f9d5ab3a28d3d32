SPECIFICATION Spec
CONSTANTS
  init = init
  a1 = a1
  a2 = a2
  NULL = NULL
  Addr = {init, a1, a2}
  InitAddr = init
  NBMAX_PROC = 2
  WaitMod = 4
  ReapLimit = 2
  KillStatus = {"TERM"}
  Calls = {"clone", "kill"}
  NestedTicks = TRUE
  ExitSpins = TRUE
VIEW MCView
SYMMETRY MCSymmetry
CHECK_DEADLOCK FALSE
INVARIANTS
  OwnContext
