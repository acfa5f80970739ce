\* The answer to a write that is processed after a newer sync.
CONSTANTS
  g1 = g1
  c1 = c1
  c2 = c2
  Games = {g1}
  Contents = {c1, c2}
  Writes <- OneGameWrites
  MaxWrites = 1
  MaxOther = 1
  MaxLost = 0
  MaxReloads = 0
  Boots = {TRUE, FALSE}
  MaxSyncs = 1
  MaxCancels = 0
SPECIFICATION Spec
CHECK_DEADLOCK FALSE
INVARIANTS
  CopyHealsAtRest
