SPECIFICATION Spec
CONSTANTS
  QueueCapacity = 3
  QuietStarts = {}
  MaxWifiEvents = 3
  MaxKeys = 0
  MaxRuns = 1
INVARIANTS
  NetworkFollowsLink
CHECK_DEADLOCK FALSE
