\* One neighbour, two connections to it one after the other.
CONSTANTS
  MaxNeighbours = 1
  MaxHandlers = 2
  Retries = 1
  MaxChanges = 0
  MaxKnown = 1
  MayStop = FALSE
SPECIFICATION Spec
INVARIANT IdleMeansConnected
CHECK_DEADLOCK FALSE
