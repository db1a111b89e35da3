\* One upload slot, so that a second attempt can meet the first.
CONSTANTS
  MaxFiles = 1
  Retries <- RetryCounts
  MaxAttempts = 3
  MaxInFlight = 1
  NoOne = NoOne
SPECIFICATION FairSpec
INVARIANT TokenUsesBounded
INVARIANT AnsweredIsFinal
PROPERTY ImplementsClient
PROPERTY DaemonRecovers
\* The command exits.
CHECK_DEADLOCK FALSE
