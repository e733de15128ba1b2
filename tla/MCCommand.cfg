\* Two threads, late and undecodable responses, a connection that breaks, a
\* semaphore that overflows.  The contexts keep the parity of 'A', 'Z' and 256,
\* and every command may time out.
CONSTANTS
  Callers = {c1, c2}
  NULL = NULL
  CtxFirst = 1
  CtxLast = 4
  CtxMod = 8
  SemMax = 2
  MaxCommands = 4
  MaxAttempts = 8
  MaxTimeouts = 4
  MaxDrops = 1
SPECIFICATION FairSpec
INVARIANT TypeOK
INVARIANT PermitAccounting
INVARIANT OwnResponse
INVARIANT InStep
INVARIANT NoSpuriousFailure
INVARIANT OwnedUntilTimeout
INVARIANT NoLeakUntilTimeout
PROPERTY MutexReleased
CHECK_DEADLOCK FALSE
