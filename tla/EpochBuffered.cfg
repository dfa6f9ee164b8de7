SPECIFICATION BufferedSpec
CONSTANTS
  Reader = {r1}
  Storer = {s1}
  Scavenger = {g1}
  Ticket = {t1, t2}
  Nil = Nil
  GraveyardCapacity = 2
  Buffered = TRUE
  MaxEpoch = 3
CHECK_DEADLOCK FALSE
INVARIANT NoUseAfterRelease
