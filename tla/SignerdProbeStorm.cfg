\* Probes whose contexts end before the backend answers.
CONSTANTS
  SignReqs = {}
  HealthReqs = {h1, h2}
  NoOne = NoOne
  MaxInFlight = 1
  HealthCacheTTL = 1
  HealthTimeout = 1
  AllowLoopback = FALSE
  HasVerifier = TRUE
SPECIFICATION Spec
PROPERTY ProbesSpaced
