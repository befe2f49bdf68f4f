SPECIFICATION RequestsSpec
CONSTANTS
  Loops = {l1}
  NoRequest = NoRequest
  Kinds = {"rpc", "upload"}
  Deadline = 1
  InFlight = 2
  MaxRequests = 2
  MaxBurst = 1
  MaxTime = 2
PROPERTY DeadlineReachesApp
CHECK_DEADLOCK FALSE
