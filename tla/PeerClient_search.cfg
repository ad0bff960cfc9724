\* Two neighbours that may come or go, and one connection.
CONSTANTS
  MaxNeighbours = 2
  MaxHandlers = 1
  Retries = 1
  MaxChanges = 1
  MaxKnown = 1
  MayStop = TRUE
SPECIFICATION FairSpec
INVARIANTS TypeOK NoHammering KilledLast
PROPERTY KeepsLooking
CHECK_DEADLOCK FALSE
