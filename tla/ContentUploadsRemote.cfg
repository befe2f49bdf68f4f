SPECIFICATION UploadsSpec
CONSTANTS
  LocalHandles = {}
  RemoteHandles = {h1}
  CommitCalls = {c1}
  NoHandle = NoHandle
  MaxIntents = 2
  MaxConcurrent = 1
  IntentTtl = 1
  MaxClock = 1
INVARIANT ObjectStays
CHECK_DEADLOCK FALSE
