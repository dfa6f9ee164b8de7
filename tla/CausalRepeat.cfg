CONSTANTS
  WindowSize = 2
  WordBits = 2
  MaxLsn = 3
SPECIFICATION SeqSpec
INVARIANT InOrder
CHECK_DEADLOCK FALSE
