SPECIFICATION Spec
CONSTANTS
  NoRelay = NoRelay
  Relays = {r1}
  Consumers = {c1}
  NumEvents = 1
  Buses = {"log"}
  Stores = {"postgres"}
  BatchSize = 1
  MaxRetries = 1
  MaxFaults = 1
  MaxSplitFaults = 1
CHECK_DEADLOCK FALSE
INVARIANTS
  ExactlyOnce
