\* Keys of two window lengths in a fallback that is over its bound.
CONSTANTS
  Keys = {k1, k2, k3}
  Procs = {p1}
  NoCall = NoCall
  Window <- TwoLengths
  Second = 1
  Limit = 1
  MaxLocalKeys = 1
  MaxWait = 0
  MaxClock = 4
  MaxHits = 4
  MaxRestarts = 0
SPECIFICATION Spec
PROPERTIES
  EvictsOnlyClosedWindows
CHECK_DEADLOCK FALSE
