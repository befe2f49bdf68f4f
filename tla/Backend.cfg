SPECIFICATION BackendSpec
CONSTANTS
  LocalHandles = {h1}
  RemoteHandles = {h2}
  CommitCalls = {d1, d2}
  NoHandle = NoHandle
  MaxIntents = 2
  MaxConcurrent = 1
  IntentTtl = 1
  MaxClock = 2
  Uploads = {u1, u2}
  Committers = {c1, c2, c3}
  None = None
  Calls = {c1, c2, c3}
  Keys = {k1, k2}
  Inputs = {u1, u2}
  Nothing = Nothing
  MaxEntries = 1
  KeyTtl = 1
  MaxTime = 2
  Ids = {1, 2, 3}
  Ranks = {1, 2}
  Owners = {ann, bob}
  Reader = ann
  Writers = {w1, w2}
  Absent = Absent
  Limit = 1
  MaxWrites = 2
  MaxSessions = 2
  MaxGrants = 2
  Lifetimes = {1, 3}
  MaxDeliveries = 2
  MaxIssued = 4
  MaxDay = 3
  MaxReplaced = 2
SYMMETRY NameSymmetry
INVARIANTS
  BackendTypeOK
  PendingFilesAccounted
  PublishedStays
  RetriesAreAnsweredOnce
  
PROPERTY KeepsPromise
CHECK_DEADLOCK FALSE
