SPECIFICATION LiveSpec
CONSTANTS
  Tasks = {t1, t2, t3}
  Keys = {k1, k2}
  Dropped = Dropped
  MaxQueue = 3
INVARIANTS
  TypeOK
  MutualExclusion
  NoLostWaiter
  EntriesInUse
PROPERTIES
  ImplementsOrderedPermits
  WaitersProceed
CHECK_DEADLOCK FALSE
