SPECIFICATION MCSpec
CONSTANTS
  Item = {a, b}
  NoItem = NoItem
  Size = 2
  MaxBatch = 3
  MaxSent = 4
  Producer = {p1}
  Consumer = {c1}
  NumLanes = 2
  LaneCapacity = 2
  Width = 8
  Wide = FALSE
  Junk = Junk
  LaneBatch = 2
  LaneItems = 5
  PurgeItems = 3
  ScanWidth = 2
INVARIANTS RingInv FifoOrder LookAheadStable PurgeExact
PROPERTIES ImplementsFifo EveryItemDelivered HonestRefusal EveryPositionPopped
