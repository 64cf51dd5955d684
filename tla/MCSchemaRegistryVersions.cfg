SPECIFICATION Spec
CONSTANTS
  Calls = {c1, c2}
  Requests <- VersionRequests
  s0 = s0
  s1 = s1
  v0 = v0
  v1 = v1
  Schemas = {s0, s1}
  Views = {v0, v1}
  Import = Import
  ImportSchema = s0
  ImportView = v0
  NoValue = NoValue
  MaxCrashes = 0
PROPERTIES
  VersionsGrow
CHECK_DEADLOCK FALSE
