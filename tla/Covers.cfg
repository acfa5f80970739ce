\* One game, two addresses of which one is dead, two downloads at once.
CONSTANTS
  g1 = g1
  g2 = g2
  old = old
  new = new
  Games = {g1}
  Urls = {old, new}
  Dead = {old}
  Slots = {1, 2}
  MaxAttempts = 2
  MaxWrites = 2
  MaxRefreshes = 1
  MaxRestarts = 1
SPECIFICATION FairSpec
CHECK_DEADLOCK FALSE
INVARIANTS
  TypeOK
  PathHasFile
  ReservationHasOwner
PROPERTIES
  JobSettles
