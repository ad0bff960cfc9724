CONSTANTS
  Handler = {h1}
  Request = {}
  Prefs <- MCPrefs
  MaxTimers = 2
  MayStop = TRUE
  MayBreak = TRUE
SPECIFICATION FairSpec
INVARIANTS TypeOK DestinationPortClosed AccessOnlyIfAdmitted
PROPERTY AccessWithdrawn
CHECK_DEADLOCK FALSE
