\* The client's use of the queue: one thread pushes and several read the stream,
\* one of them without a timeout; the one that pushes also asks for the number
\* of entries, as the tests do.  The ring of two slots wraps.  Two threads that
\* push, and any other number of threads and slots, are the proofs' part.
CONSTANTS
  Producers = {p}
  Consumers = {c1, c2, c3}
  Observers = {p}
  Msgs = {m1, m2}
  NoMsg = NoMsg
  Nobody = Nobody
  Capacity = 2
  Forever = {c1}
  Narrow = 4
  Wide = 16
SPECIFICATION FairSpec
INVARIANT TypeOK
INVARIANT SlotAccounting
INVARIANT EntryAccounting
INVARIANT NoMutualBlock
INVARIANT WaitsLongEnough
PROPERTY ImplementsFifo
PROPERTY PushReturns
