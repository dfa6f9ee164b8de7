CONSTANTS
  Thread = {t1, t2}
  NumLanes = 2
  Capacity = 4
  Nil = Nil
  EpochModulus = 1048576
  MaxBatch = 2
  MaxCalls = 4
  Releaser = {r1, r2}
  RingSlots = 2
  Automatic = TRUE
  MaxBurst = 1
  MaxTickets = 7
  Slots = 3
  SqEntries = 2
  MayRefuse = TRUE
  MaxGenerations = 2
SPECIFICATION MCSpec
INVARIANTS PoolTypeOK NoDoubleAllocation PoolConserved
  ReturnsTypeOK ReturnsConserved ReleaseNeverWaits
  TypeOK PulsesAgree WrittenSurvives
PROPERTIES HonestExhaustion CallsEnd NodesComeBack FlushEnds
\* The bounds on calls and generations end every behaviour.
CHECK_DEADLOCK FALSE
