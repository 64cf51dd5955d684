CONSTANTS
  Clients = {c1, c2}
  Inserts = {"batch", "single"}
  Batch <- MCBatch
  Unreadable = {"bad"}
  NoPayload = {"m2"}
  Capacity = 1
  MayBreak = TRUE
  MaxCrashes = 0
SPECIFICATION Spec
PROPERTIES
  StreamsAreLive
