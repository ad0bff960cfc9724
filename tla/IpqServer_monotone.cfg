\* The wall clock only moves forward.
CONSTANTS
  Socket = {s1, s2}
  Validity = 1
  MaxTime = 3
  MaxPackets = 3
  ClockSetBack = FALSE
SPECIFICATION Spec
SYMMETRY SocketSymmetry
INVARIANTS TypeOK NoUseAfterFree RememberedUntilOutdated SegvOnlyAfterClean HistoryInv
PROPERTY ImplementsLog
CHECK_DEADLOCK FALSE
