SPECIFICATION FairSpec
CONSTANTS
  NoRelay = NoRelay
  Relays = {r1, r2}
  Consumers = {c1}
  NumEvents = 2
  Buses = {"memory", "log", "mute"}
  Stores = {"sqlite", "postgres"}
  BatchSize = 2
  MaxRetries = 2
  MaxFaults = 2
  MaxSplitFaults = 1
CHECK_DEADLOCK FALSE
INVARIANTS
  TypeOK
  PublishedReachesConsumers
  ClaimsExclusive
  DuplicatesAccounted
  DeadLetterEarned
PROPERTIES
  SettledForGood
  EventuallySettled
