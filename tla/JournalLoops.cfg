\* Two games, one of them custom: bulk writes, imports and undos that overlap.
CONSTANTS
  g1 = g1
  g2 = g2
  Games = {g1, g2}
  Custom = {g2}
  Days = {1}
  MaxSession = 2
  Changes <- TwoGameChanges
  RunEdits <- DatedEdits
  Lengths = {2}
  Entries <- TwoGameEntries
  MaxWrites = 2
  MaxImports = 1
SPECIFICATION Spec
CHECK_DEADLOCK FALSE
INVARIANTS
  TypeOK
  UndoAlwaysApplies
  ImportTwiceIsOnce
PROPERTIES
  UndoImportRestores
  ChangesAreStamped
