\* Every part in turn; the library with two games, one device (devices do not meet) and
\* three stamps in any number of transactions.
CONSTANTS
  Games = {g1, g2}
  Contents = {c1, c2}
  Devices = {d1}
  Platforms = {x, y}
  MaxRev = 3
  Parts = {"library", "accounts", "people", "feed", "lists", "passkeys", "paging",
           "custom", "search"}
  People = {"p", "q", "n"}
  EnvMode = "closed"
  MaxIds = 4
  MaxTokens = 4
  OpenLimit = 1
  Reqs = {"r", "s"}
  MaxRequests = 3
  Persons = {"p", "q"}
  MaxThings = 1
  Users = {"u"}
  Logins = {"l", "m"}
  MaxChallenges = 2
  MaxPending = 1
  MaxCount = 1
SPECIFICATION ServerSpec
SYMMETRY Alike
CHECK_DEADLOCK FALSE
INVARIANTS
  TypesOK
  RevInv
  DeltaExact
  NotModifiedIsTrue
  SessionsAreGranted
  SignupsHold
  ReadsAgree
  BlockHolds
  NothingIsMissing
  PasskeysHold
PROPERTIES
  ImplementsShared
  AdminsStay
