SPECIFICATION Spec
CONSTANTS
  Producer = {p1, p2}
  Consumer = {c1, c2}
  NumLanes = 1
  LaneCapacity = 2
  Width = 8
  Wide = TRUE
  Junk = Junk
  MaxBatch = 2
  MaxItems = 2
SYMMETRY ThreadSymmetry
INVARIANTS TypeOK OccupancyBounded ExclusiveSlots TicketFidelity PublishedIntact
