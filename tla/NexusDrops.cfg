CONSTANTS
  PunchWindow = 128
  Arrivals = {0, 1, 2, 121}
  MaxFrames = 3
SPECIFICATION NexusSpec
INVARIANT GapsOnly
CHECK_DEADLOCK FALSE
