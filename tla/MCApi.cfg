\* Three calls, of any operation, with any answers.
CONSTANT MaxCalls = 3
SPECIFICATION Spec
INVARIANT EveryMessageOwned
PROPERTY ReturnsWhatWasAsked
CHECK_DEADLOCK FALSE
