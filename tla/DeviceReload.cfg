\* Page loads at any point, an undo of a queued write, another device's write and syncs of the app's own.
CONSTANTS
  g1 = g1
  c1 = c1
  c2 = c2
  Games = {g1}
  Contents = {c1, c2}
  Writes <- OneGameWrites
  MaxWrites = 2
  MaxOther = 1
  MaxLost = 0
  MaxReloads = 1
  Boots = {TRUE, FALSE}
  MaxSyncs = 1
  MaxCancels = 1
SPECIFICATION Spec
CHECK_DEADLOCK FALSE
INVARIANTS
  DiskFollowsOutbox
  CancelDrops
PROPERTIES
  NothingLost
