\* Three uploads share one worker that is always prompt; no fault at all.
CONSTANTS
  Contracts = {c1, c2, c3}
  Workers = {w1}
  NoContract = NoContract
  NotifyOptIn = {}
  JobTimeout = 2
  HardLimit = 2
  StuckTimeout = 3
  MaxRequeues = 0
  Faults = {}
SPECIFICATION PromptSpec
SYMMETRY Symmetry
PROPERTY HealthyJobNeverReaped
CHECK_DEADLOCK FALSE
