SPECIFICATION FairSpec
CONSTANTS
  QueueCapacity = 2
  QuietStarts = {2}
  MaxWifiEvents = 4
  MaxKeys = 2
  MaxRuns = 2
INVARIANTS
  StoppedOwnsNothing
  ModelFollowsLink
  NetworkFollowsQuietLink
  ShownConversationIsLive
PROPERTIES
  StopReturns
  LinkIsShown
CHECK_DEADLOCK FALSE
