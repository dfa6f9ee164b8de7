SPECIFICATION Spec
CONSTANTS
  Producer = {p1, p2}
  Consumer = {c1}
  NumLanes = 1
  LaneCapacity = 8
  Width = 8
  Wide = TRUE
  Junk = Junk
  MaxBatch = 1
  MaxItems = 1
INVARIANT TicketFidelity
