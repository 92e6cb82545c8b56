SPECIFICATION Spec
CONSTANTS
  NoEntry = NoEntry
  n1 = n1
  n2 = n2
  e1 = e1
  e2 = e2
  Collection = Collection
  Nodes = {n1, n2}
  Entries = {e1, e2}
  Limit = 1
  MaxEntries = 1
  MaxVersion = 2
  MaxFaults = 2
CHECK_DEADLOCK FALSE
SYMMETRY Symmetry
INVARIANTS
  TypeOK
  NoSilentLoss
  OrphansAccounted
