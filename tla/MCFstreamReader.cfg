\* Two messages, two signals, one failing malloc, the end of the connection anywhere.
CONSTANTS
  Base <- Bits
  Magic <- MagicBits
  Payloads <- SomePayloads
  MaxMessages = 2
  MaxSignals = 2
  MaxNoMem = 1
SPECIFICATION FairSpec
INVARIANT TypeOK
PROPERTY NoFalseAlarm
INVARIANT LossHasCause
INVARIANT NoPayloadLeak
PROPERTY Delivered
PROPERTY ImplementsChannel
CHECK_DEADLOCK FALSE
