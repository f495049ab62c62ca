SPECIFICATION Spec
CONSTANTS
  QueueCapacity = 3
  QuietStarts = {1}
  MaxWifiEvents = 3
  MaxKeys = 1
  MaxRuns = 1
INVARIANTS
  ConversationIsShown
CHECK_DEADLOCK FALSE
