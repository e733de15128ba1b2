\* The reconnecting example and the others, one round of each loop.
CONSTANTS
  Callers = {main, stim}
  Main = main
  Stim = stim
  Rounds = 1
  NULL = NULL
  CtxFirst = 65
  CtxLast = 90
  CtxMod = 256
  SemMax = 2147483647
  MaxCommands = 7
  MaxAttempts = 256
  MaxTimeouts = 2
  MaxDrops = 0
  Apps = {main}
  Reader = Reader
  Capacity = 100
  MaxStream = 1
SPECIFICATION ExSpec
INVARIANT KeepsRunning
CHECK_DEADLOCK FALSE
