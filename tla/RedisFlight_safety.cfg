SPECIFICATION Spec
CONSTANTS
  NoWorker = NoWorker
  Workers = {w1, w2, w3}
  CanWrite = {w1, w2, w3}
  MaxFaults = 2
SYMMETRY Symmetry
CHECK_DEADLOCK FALSE
INVARIANTS
  TypeOK
  HeldUntilLapse
  RowsOrdered
  TimelyFencing
  ExecutionsAccounted
