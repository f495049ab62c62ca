SPECIFICATION Spec
CONSTANTS
  Conns = {k1, k2}
  NoConn = NoConn
  QueueCapacity = 2
  MaxInits = 2
  MaxJoins = 2
  MaxCallbacks = 6
INVARIANTS
  HeedsOwnConnectionOnly
  RetiredQueueIsSilent
  NothingLeftBehind
  JoinsConfirmed
  CallsNeverStuck
CHECK_DEADLOCK FALSE
