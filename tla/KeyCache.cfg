\* Two calls and a key that the issuer withdraws and publishes again.
CONSTANTS
  Calls = {c1, c2}
  KeyIDs = {k1}
  NoOne = NoOne
  KeyCacheTTL = 3
  RefreshCooldown = 2
  FetchTimeout = 2
SPECIFICATION FairSpec
INVARIANT FetchingMeansStale
PROPERTY AcceptedWithinWindow
PROPERTY FetchesSpaced
PROPERTY RefusedOnlyWithoutFreshKey
PROPERTY CallsReturn
 
