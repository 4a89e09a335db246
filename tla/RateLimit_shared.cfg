\* Two processes, a Redis that fails and restarts, and keys of two window
\* lengths in a fallback that is always over its bound.
CONSTANTS
  Keys = {k1, k2}
  Procs = {p1, p2}
  NoCall = NoCall
  Window <- TwoLengths
  Second = 2
  Limit = 1
  MaxLocalKeys = 0
  MaxWait = 3
  MaxClock = 4
  MaxHits = 4
  MaxRestarts = 1
SPECIFICATION Spec
SYMMETRY Symmetry
INVARIANTS
  RedisAdmitsLimit
  FallbackAdmitsLimit
PROPERTIES
  RefusedOnlyOverLimit
  RetryReachesNextWindow
CHECK_DEADLOCK FALSE
