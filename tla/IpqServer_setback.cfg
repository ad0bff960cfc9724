\* The wall clock may be set back while the server runs; the threads are
\* scheduled fairly.
CONSTANTS
  Socket = {s1, s2}
  Validity = 1
  MaxTime = 2
  MaxPackets = 2
  ClockSetBack = TRUE
SPECIFICATION FairSpec
INVARIANTS AcceptedWasReleased OneDecider
PROPERTIES CleanerUnlocks EveryPacketAnswered FirstLineTakesEffect
CHECK_DEADLOCK FALSE
