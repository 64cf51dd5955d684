SPECIFICATION Spec
CONSTANTS
  Calls = {c1, c2, c3}
  Requests <- AllRequests
  s0 = s0
  s1 = s1
  v0 = v0
  v1 = v1
  Schemas = {s0, s1}
  Views = {v0, v1}
  Import = Import
  ImportSchema = s0
  ImportView = v0
  NoValue = NoValue
  MaxCrashes = 1
SYMMETRY Symmetry
INVARIANTS
  TypeOK
  AnsweredIsThere
  VersionsReadable
  ViewHasOneSchema
PROPERTIES
  VersionsAreFixed
  ReadersFindWhole
CHECK_DEADLOCK FALSE
