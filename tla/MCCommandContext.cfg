\* One thread, no timeout, and enough commands for the char to overflow.
CONSTANTS
  Callers = {c1}
  NULL = NULL
  CtxFirst = 65
  CtxLast = 90
  CtxMod = 256
  SemMax = 2147483647
  MaxCommands = 96
  MaxAttempts = 256
  MaxTimeouts = 0
  MaxDrops = 0
SPECIFICATION Spec
INVARIANT ContextIsOneChar
CHECK_DEADLOCK FALSE
