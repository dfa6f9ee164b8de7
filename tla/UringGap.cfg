CONSTANTS
  Slots = 3
  SqEntries = 2
  MayRefuse = FALSE
  MaxGenerations = 1
SPECIFICATION Spec
INVARIANTS FlushCoversHorizon
CHECK_DEADLOCK FALSE
