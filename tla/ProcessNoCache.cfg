SPECIFICATION Spec
CONSTANTS
  h1 = h1
  h2 = h2
  g1 = g1
  HttpRequests = {h1}
  Rpcs = {g1}
CHECK_DEADLOCK FALSE
INVARIANTS
  CommittedIsNotFailed
