SPECIFICATION Spec
CONSTANTS
  Keys = {auth, other}
  Values = {v1, v2}
  Absent = Absent
  Chunks = 2
  MaxCalls = 3
  MaxFaults = 2
  MaxCrashes = 2
INVARIANTS
  LoadedIsDurable
PROPERTY
  ImplementsStore
CHECK_DEADLOCK FALSE
