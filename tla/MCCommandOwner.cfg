\* One thread and one command that times out, the program's own constants.
CONSTANTS
  Callers = {c1}
  NULL = NULL
  CtxFirst = 65
  CtxLast = 90
  CtxMod = 256
  SemMax = 2147483647
  MaxCommands = 3
  MaxAttempts = 256
  MaxTimeouts = 1
  MaxDrops = 0
SPECIFICATION Spec
INVARIANT TakenIsOwned
CHECK_DEADLOCK FALSE
