CONSTANTS
  Handler = {h1, h2}
  Request = {}
  Prefs <- OpenPrefs
  MaxTimers = 1
  MayStop = FALSE
  MayBreak = FALSE
SPECIFICATION Spec
INVARIANT OpenHasAccess
CHECK_DEADLOCK FALSE
