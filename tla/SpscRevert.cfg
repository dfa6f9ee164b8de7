SPECIFICATION RevertSpec
CONSTANTS
  Item = {a, b, c}
  NoItem = NoItem
  Size = 2
  MaxBatch = 2
  MaxSent = 4
INVARIANT RevertIsLossless
CHECK_DEADLOCK FALSE
