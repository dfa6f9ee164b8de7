CONSTANTS
  Slots = 2
  SqEntries = 2
  MayRefuse = TRUE
  MaxGenerations = 1
SPECIFICATION Spec
INVARIANTS FlushedSurvives
CHECK_DEADLOCK FALSE
