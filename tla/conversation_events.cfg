SPECIFICATION FairSpec
CONSTANTS
  CommandIds = {a, b, c}
  HistorySize = 2
  ServerStates = {speaking}
  Askers = {key}
  QueueCapacity = 2
  MaxConversations = 2
  MaxMoves = 6
INVARIANTS
  EffectsAreCurrent
  CommandOnce
PROPERTIES
  VideoStarts
CHECK_DEADLOCK FALSE
