SPECIFICATION Spec
CONSTANTS
  NoWorker = NoWorker
  Workers = {w1, w2}
  CanWrite = {w1, w2}
  MaxFaults = 1
CHECK_DEADLOCK FALSE
INVARIANTS
  StaleLeadersFenced
