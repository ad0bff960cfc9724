CONSTANTS
  Handler = {h1}
  Request = {r1, r2}
  Prefs <- LiablePrefs
  MaxTimers = 1
  MayStop = FALSE
  MayBreak = FALSE
SPECIFICATION Spec
INVARIANTS   RulesExpire
SYMMETRY SymRequests
CHECK_DEADLOCK FALSE
