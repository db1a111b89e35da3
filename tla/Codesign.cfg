\* One file, in place or with -output, or two, signed in place.
CONSTANTS
  MaxFiles = 2
  Retries <- RetryCounts
  MaxAttempts = 4
  Slashes <- UpToTwo
SPECIFICATION CommandFairSpec
INVARIANT TargetsAtomic
INVARIANT ExitIsHonest
INVARIANT SignaturesBounded
INVARIANT NoTempLeft
PROPERTY NoPostAfterRefusal
PROPERTY CommandEnds
\* The command exits.
CHECK_DEADLOCK FALSE
