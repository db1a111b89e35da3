CONSTANTS
  Calls = {c1, c2}
  KeyIDs = {k1}
  NoOne = NoOne
  KeyCacheTTL = 2
  RefreshCooldown = 1
  FetchTimeout = 1
SPECIFICATION Spec
INVARIANT CachedVerificationsKeepMoving
