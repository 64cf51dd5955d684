CONSTANTS
  Pods = {p1, p2}
  Events <- MCEvents
  Requests <- MCRequests
  MaxFaults = 1
  MaxWrites = 1
SPECIFICATION Spec
INVARIANTS
  NotSkipped
  ReplayConverges
  OneMasterLabel
PROPERTIES
  ServiceRecovers
