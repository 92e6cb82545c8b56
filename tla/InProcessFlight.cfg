SPECIFICATION FairSpec
CONSTANTS
  NoCaller = NoCaller
  Callers = {c1, c2, c3}
  CanWrite = {c1, c2}
  MaxFaults = 3
CHECK_DEADLOCK FALSE
INVARIANTS
  TypeOK
  OneLeader
  NoOrphanFollower
  OnlyOlderBootBlocks
PROPERTIES
  EveryCallEnds
  ImplementsSingleFlight
