\* One game: what an export of any reachable library is read back as.
CONSTANTS
  g1 = g1
  g2 = g2
  Games = {g1}
  Custom = {}
  Days = {1, 2}
  MaxSession = 2
  Changes <- OneGameChanges
  RunEdits <- DatedEdits
  Lengths = {2}
  Entries = {}
  MaxWrites = 3
  MaxImports = 0
SPECIFICATION Spec
CHECK_DEADLOCK FALSE
INVARIANTS
  ExportReimports
