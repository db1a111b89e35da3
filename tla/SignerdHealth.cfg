\* Two health clients share the token with a sign request.
CONSTANTS
  SignReqs = {s1}
  HealthReqs = {h1, h2}
  NoOne = NoOne
  MaxInFlight = 1
  HealthCacheTTL = 1
  HealthTimeout = 2
  AllowLoopback = TRUE
  HasVerifier = FALSE
SPECIFICATION FairSpec
PROPERTY AnswersBacked
PROPERTY ProbesSpacedInTime
PROPERTY ImplementsAccess
PROPERTY HealthAnswered
PROPERTY SignsFinish
