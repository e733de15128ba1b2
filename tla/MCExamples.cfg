\* Every example program, with loops of two rounds, a queue of one slot, and a
\* device that streams two messages at any time after the start of the stream.
CONSTANTS
  Callers = {main, stim}
  Main = main
  Stim = stim
  Rounds = 2
  NULL = NULL
  CtxFirst = 1
  CtxLast = 4
  CtxMod = 8
  SemMax = 8
  MaxCommands = 11
  MaxAttempts = 8
  MaxTimeouts = 2
  MaxDrops = 0
  Apps = {main}
  Reader = Reader
  Capacity = 1
  MaxStream = 2
SPECIFICATION ExFairSpec
INVARIANT NoUseAfterFree
PROPERTY NeverHangs
PROPERTY Completes
PROPERTY Recovers
CHECK_DEADLOCK FALSE
