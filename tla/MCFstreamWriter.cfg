\* Three messages, a socket of four bytes, a break anywhere.
CONSTANTS
  Base <- Bits
  Magic <- MagicBits
  Payloads <- ShortPayloads
  MaxMessages = 3
  SendBuffer = 4
SPECIFICATION FairSpec
PROPERTY Returns
PROPERTY Arrives
PROPERTY ImplementsChannel
CHECK_DEADLOCK FALSE
