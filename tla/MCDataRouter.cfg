SPECIFICATION LiveSpec
CONSTANTS
  LogEnd = 3
  Payload <- MCPayload
  Group <- MCGroup
  Garbage = Garbage
  NoGroup = NoGroup
  g = g
  s1 = s1
  s2 = s2
  Schemas = {s1, s2}
  a = a
  b = b
  Topics = {a, b}
  InitialTopic <- MCTopic
  TaskLimit = 2
  CacheCapacity = 1
  MaxRestarts = 1
  MaxTopicChanges = 1
INVARIANTS
  TypeOK
  NothingSkipped
  RoutedBySchema
PROPERTIES
  EverythingCommitted
CHECK_DEADLOCK FALSE
