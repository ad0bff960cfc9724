CONSTANTS
  Remote = {a, b}
  Local = {}
  TimeToLive = 1
  PendingTime = 1
  MaxTime = 1
  MaxPackets = 3
  MayStop = FALSE
  MayRepeat = FALSE
SPECIFICATION FairSpec
PROPERTIES VerdictReleases
CHECK_DEADLOCK FALSE
