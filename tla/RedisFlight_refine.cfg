SPECIFICATION FairSpec
CONSTANTS
  NoWorker = NoWorker
  Workers = {w1, w2}
  CanWrite = {w1}
  MaxFaults = 2
CHECK_DEADLOCK FALSE
PROPERTIES
  EveryCallEnds
  LockFreed
  ImplementsSingleFlight
