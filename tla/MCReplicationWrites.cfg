CONSTANTS
  Pods = {p1, p2}
  Events <- MCEvents
  Requests <- MCRequests
  MaxFaults = 0
  MaxWrites = 1
SPECIFICATION Spec
PROPERTIES
  WritesReachReplicas
