SPECIFICATION Spec
CONSTANTS
  init = init
  a1 = a1
  a2 = a2
  a3 = a3
  NULL = NULL
  Addr = {init, a1, a2, a3}
  InitAddr = init
  NBMAX_PROC = 3
  WaitMod = 3
  ReapLimit = 2
  KillStatus = {"TERM"}
  Calls = {"clone", "exit", "kill", "waitpid", "exec"}
  NestedTicks = FALSE
  ExitSpins = TRUE
VIEW MCView
SYMMETRY MCSymmetry
CHECK_DEADLOCK FALSE
INVARIANTS
  RingOK
  StackOK
  BlockOwned
  CurrentAlive
