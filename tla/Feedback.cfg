SPECIFICATION Spec
CONSTANTS
  None = None
  Processes = {p1, p2}
  Entries = {e1, e2}
  Queries = {q1, q2, q3}
  Backends = {"sqlite", "postgres"}
  MaxReports = 1
  MaxFaults = 1
SYMMETRY Symmetry
CHECK_DEADLOCK FALSE
INVARIANTS
  TypeOK
  CountsAccounted
  FlaggedOnce
  ReportsKept
  StuckForCause
