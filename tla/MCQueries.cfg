\* No bound on requests, redeliveries or failures; two overlapping shrinkers,
\* which are interchangeable.
CONSTANTS
  Messages <- MCMessages
  Shrinkers = {s1, s2}
  Merge <- MCMerge
  MergeOf <- MCMergeOf
  Clients = {c1}
  Calls <- MCCalls
  Metadata <- MCMetadata
  NewMetadata <- MCNewMetadata
  Backend <- MCBackend
  Points <- MCPoints
  CacheCapacity = 1
SYMMETRY ShrinkerSymmetry
SPECIFICATION Spec
INVARIANTS
  MergedIsComplete
  AnswersAreRight
  RefusedForAReason
PROPERTIES
  NewestStays
