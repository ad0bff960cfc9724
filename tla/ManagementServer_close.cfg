CONSTANTS
  Handler = {h1}
  Request = {}
  Prefs <- OpenPrefs
  MaxTimers = 1
  MayStop = FALSE
  MayBreak = FALSE
SPECIFICATION Spec
INVARIANT GrantRemoved
CHECK_DEADLOCK FALSE
