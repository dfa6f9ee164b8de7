SPECIFICATION Spec
CONSTANTS
  Reader = {}
  Storer = {s1, s2}
  Scavenger = {}
  Ticket = {t1, t2, t3, t4}
  Nil = Nil
  GraveyardCapacity = 4
  Buffered = FALSE
  MaxEpoch = 2
CHECK_DEADLOCK FALSE
INVARIANT TicketsConserved
