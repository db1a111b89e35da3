\* Three sign requests compete for two slots and one token.
CONSTANTS
  SignReqs = {s1, s2, s3}
  HealthReqs = {}
  NoOne = NoOne
  MaxInFlight = 2
  HealthCacheTTL = 1
  HealthTimeout = 1
  AllowLoopback = FALSE
  HasVerifier = TRUE
SPECIFICATION Spec
SYMMETRY SignSymmetry
INVARIANT TokenOwned
INVARIANT UploadsBounded
INVARIANT StatusIsHonest
PROPERTY NilExitLeavesNothing
