SPECIFICATION Spec
CONSTANTS
  Calls = {c1, c2}
  NoCall = NoCall
  RefreshWithin = 1
  LeaseMs = 1
  TokenTtls = {1, 3}
  SessionTtl = 4
  MaxTime = 4
PROPERTY RevokesOnlyRejectedToken
CHECK_DEADLOCK FALSE
