SPECIFICATION ConsumerLiveSpec
CONSTANTS
  Partitions = {p1}
  LogEnd = 4
  MaxRestarts = 1
  MaxRebalances = 1
INVARIANTS
  ConsumerTypeOK
  AtLeastOnce
  AckFindsEntry
  DrainedIsStored
PROPERTIES
  EventuallyCommitted
CHECK_DEADLOCK FALSE
