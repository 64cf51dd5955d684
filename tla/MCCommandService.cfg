SPECIFICATION LiveSpec
CONSTANTS
  Sources = {"ordered", "unordered"}
  Services <- MCServices
  Malformed = Malformed
  NoMessage = NoMessage
  MaxRestarts = 1
INVARIANTS
  PassedIsReported
  SuccessMeansStored
  QueuesAreBounded
PROPERTIES
  EverythingCommitted
  CallsAreAnswered
CHECK_DEADLOCK FALSE
