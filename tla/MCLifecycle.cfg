\* One caller, one thread that may read the stream, a queue of one slot; new
\* may fail at every step and delete comes at any time between two calls.
CONSTANTS
  Callers = {c1}
  NULL = NULL
  CtxFirst = 1
  CtxLast = 4
  CtxMod = 8
  SemMax = 2
  MaxCommands = 2
  MaxAttempts = 8
  MaxTimeouts = 1
  MaxDrops = 1
  Apps = {a1}
  Reader = Reader
  Capacity = 1
  MaxStream = 3
SPECIFICATION LifeFairSpec
INVARIANT NoUseAfterFree
INVARIANT AllOrNothing
INVARIANT DeletedInStep
INVARIANT StreamUnbroken
PROPERTY DeleteReturns
CHECK_DEADLOCK FALSE
