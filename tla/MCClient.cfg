\* One caller, two threads that may read the stream or not, a queue of two slots.
CONSTANTS
  Callers = {c1}
  NULL = NULL
  CtxFirst = 1
  CtxLast = 4
  CtxMod = 8
  SemMax = 2
  MaxCommands = 2
  MaxAttempts = 8
  MaxTimeouts = 1
  MaxDrops = 1
  Apps = {a1, a2}
  Reader = Reader
  Capacity = 2
  MaxStream = 3
SPECIFICATION ReaderFairSpec
INVARIANT ClientTypeOK
INVARIANT StreamInOrder
INVARIANT AnswerIsLast
PROPERTY HeldUpByQueue
PROPERTY ImplementsCommand
CHECK_DEADLOCK FALSE
