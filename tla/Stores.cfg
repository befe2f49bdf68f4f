SPECIFICATION StoresSpec
CONSTANTS
  Callers = {c1, c2}
  Workers = {w1, w2}
  NoOwner = NoOwner
  MaxAttempts = 2
  LeaseTime = 1
  ClaimTime = 2
  RetryDelay = 1
  TokenTtl = 4
  SessionTtl = 3
  Lag = 1
  MaxTime = 4
  MaxEdits = 3
  RemovalsFail = TRUE
  Builders = {b1, b2}
  MaxBuilds = 4
  MaxMeddles = 1
  Libraries = {"base", "ui"}
  Releases = {1, 2}
  Needs <- UiNeedsBase
  MaxCommands = 5
  SdkReleases = {v1, v2}
  NoVersion = NoVersion
  Processes = {p1, p2}
  MaxSdkCommands = 4
INVARIANTS
  StoresTypeOK
  LeasesHoldTrue
  RevokesNewestMaterial
  ServerHolds
  InstallsHold
PROPERTIES
  RevocationNotDropped
  MaterialErased
  EveryEditIsBuilt
  KeepsOutput
  LockIsFreed
CHECK_DEADLOCK FALSE
