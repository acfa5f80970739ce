\* A device, another device's write and failing requests; no sync but flush's own.
CONSTANTS
  g1 = g1
  c1 = c1
  c2 = c2
  Games = {g1}
  Contents = {c1, c2}
  Writes <- OneGameWrites
  MaxWrites = 2
  MaxOther = 1
  MaxLost = 2
  MaxReloads = 0
  Boots = {TRUE, FALSE}
  MaxSyncs = 0
  MaxCancels = 0
SPECIFICATION FairSpec
CHECK_DEADLOCK FALSE
INVARIANTS
  TypeOK
  CopyHeals
  DiskHeals
  InOrder
PROPERTIES
  QueuedIsSent
