\* The command with a URL that ends in up to two slashes.
CONSTANTS
  MaxFiles = 2
  Retries <- RetryCounts
  MaxAttempts = 4
  Slashes <- UpToTwo
SPECIFICATION CommandSpec
INVARIANT AudienceIsURL
\* The command exits.
CHECK_DEADLOCK FALSE
