\* A page load whose first sync fails.
CONSTANTS
  g1 = g1
  c1 = c1
  c2 = c2
  Games = {g1}
  Contents = {c1, c2}
  Writes <- OneGameWrites
  MaxWrites = 1
  MaxOther = 0
  MaxLost = 1
  MaxReloads = 1
  Boots = {TRUE}
  MaxSyncs = 1
  MaxCancels = 0
SPECIFICATION FairSpec
CHECK_DEADLOCK FALSE
PROPERTIES
  ReplayedWhenBackOnline
