CONSTANTS
  Remote = {a, b}
  Local = {l}
  TimeToLive = 1
  PendingTime = 1
  MaxTime = 1
  MaxPackets = 2
  MayStop = TRUE
  MayRepeat = TRUE
SPECIFICATION Spec
INVARIANTS TypeOK AskedFirst NothingForgotten
SYMMETRY SymRemote
CHECK_DEADLOCK FALSE
