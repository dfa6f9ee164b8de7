CONSTANTS
  Reader = {r1, r2}
  Storer = {s1}
  Scavenger = {g1}
  Ticket = {t1, t2}
  Nil = Nil
  GraveyardCapacity = 2
  Buffered = FALSE
  MaxEpoch = 3
  WindowSize = 4
  WordBits = 2
  MaxLsn = 9
  PunchWindow = 128
  Arrivals = {0, 1, 2, 3, 7, 70, 116, 121, 128}
  MaxFrames = 6
SPECIFICATION MCSpec
INVARIANTS TypeOK NoUseAfterRelease TicketsConserved
  WindowInv OnlyRepeatsMisplaced NothingLost BatchIsRun
  PropagatedInOrder FramesAccounted
PROPERTY QuietScavengeDrains
\* The bounds on epochs, LSNs and frames end every behaviour.
CHECK_DEADLOCK FALSE
