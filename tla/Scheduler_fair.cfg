SPECIFICATION FairSpec
CONSTANTS
  init = init
  a1 = a1
  a2 = a2
  NULL = NULL
  Addr = {init, a1, a2}
  InitAddr = init
  NBMAX_PROC = 2
  WaitMod = 3
  ReapLimit = 2
  KillStatus = {"TERM"}
  Calls = {"clone", "exit", "kill"}
  NestedTicks = FALSE
  ExitSpins = TRUE
CHECK_DEADLOCK FALSE
PROPERTIES
  ReadyRuns
  TermReaped
