SPECIFICATION Spec
CONSTANTS
  LogEnd = 2
  Payload <- PairPayload
  Group <- PairGroup
  Garbage = Garbage
  NoGroup = NoGroup
  g = g
  s1 = s1
  s2 = s2
  Schemas = {s1, s2}
  a = a
  b = b
  Topics = {a, b}
  InitialTopic <- MCTopic
  TaskLimit = 2
  CacheCapacity = 1
  MaxRestarts = 0
  MaxTopicChanges = 0
INVARIANTS
  GroupOrder
CHECK_DEADLOCK FALSE
