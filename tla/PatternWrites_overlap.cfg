\* Two runs of one owner with two findings each.
CONSTANTS
  Runs = {r1, r2}
  Fps = {f1, f2}
  Confs = {1, 2}
  None = None
  MaxBatch = 2
  MayFail = TRUE
SPECIFICATION FairSpec
INVARIANTS
  CountNotOverstated
  LostOnlyWhenMet
PROPERTIES
  CountExactWhenAlone
  SaveEnds
CHECK_DEADLOCK FALSE
