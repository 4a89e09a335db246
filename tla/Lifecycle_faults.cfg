\* One upload, every fault, and two requeues of its failed job.
CONSTANTS
  Contracts = {c1}
  Workers = {w1, w2}
  NoContract = NoContract
  NotifyOptIn = {c1}
  JobTimeout = 1
  HardLimit = 2
  StuckTimeout = 3
  MaxRequeues = 2
  Faults = {"redisDown", "ackLost", "flush", "db", "crash"}
SPECIFICATION FairSpec
INVARIANTS
  ClaimedJobNotReapable
  OneRunAtATime
  DoneIsComplete
  OneSentRow
  OneMessagePerRun
  MessageHasResult
PROPERTIES
  ImplementsPromise
  DoneRevokedOnlyBy
  SettlesForGood
CHECK_DEADLOCK FALSE
