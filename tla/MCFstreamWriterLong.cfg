\* A message whose length needs a third byte.
CONSTANTS
  Base <- Bits
  Magic <- MagicBits
  Payloads <- LongPayloads
  MaxMessages = 2
  SendBuffer = 4
SPECIFICATION Spec
INVARIANT LengthIsTold
CHECK_DEADLOCK FALSE
