SPECIFICATION Spec
CONSTANTS
  Calls = {c1, c2, c3}
  NoCall = NoCall
  RefreshWithin = 1
  LeaseMs = 1
  TokenTtls = {1, 3}
  SessionTtl = 4
  MaxTime = 4
SYMMETRY CallSymmetry
INVARIANTS
  TypeOK
  StoredTokenAccounted
  EndedCallsHoldNoLease
  SignedOutStaysOut
  OperatesOnRotatedMaterial
PROPERTY CommitFromCurrent
CHECK_DEADLOCK FALSE
