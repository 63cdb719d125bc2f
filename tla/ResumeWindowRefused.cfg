SPECIFICATION WindowSpec
CONSTANTS
  Processes = {p1, p2}
  Seconds = 2
  MaxDelay = 1
  MaxNow = 4
  MaxInFlight = 2
  MaxRefused = 1
INVARIANTS
  EveryEventIsRetained
SYMMETRY Symmetry
CHECK_DEADLOCK FALSE
