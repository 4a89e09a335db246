\* Two browsers and one replica, which may restart and be given a further token;
\* three requests are enough for two strangers and a read between them.
CONSTANTS
  Browsers = {b1, b2}
  Replicas = {1}
  Requests = {r1, r2, r3}
  Credentials <- MCCredentials
  MaxBoots = 1
  MaxToken = 2
  None = None
SPECIFICATION Spec
SYMMETRY MCSymmetry
INVARIANTS
  ReadsStayApart
  Reachable
  RefusedLeavesNothing
PROPERTIES
  LinkWorks
CHECK_DEADLOCK FALSE
