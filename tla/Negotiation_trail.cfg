\* One request and no fault.
CONSTANTS
  Agents <- MCAgents
  Payload <- MCPayload
  Error = "error"
  NoRow = "none"
  NoDraft = "empty"
  Requests = {r1}
  MaxAnalyses = 1
  Faults = {}
SPECIFICATION Spec
INVARIANTS
  AttemptIsRecorded
CHECK_DEADLOCK FALSE
