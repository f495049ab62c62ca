SPECIFICATION Spec
CONSTANTS
  Keys = {auth, other}
  Values = {v1, v2}
  Absent = Absent
  Chunks = 1
  MaxCalls = 1
  MaxFaults = 1
  MaxCrashes = 1
PROPERTY
  AcknowledgedSurvives
CHECK_DEADLOCK FALSE
