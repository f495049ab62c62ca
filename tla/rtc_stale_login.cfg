SPECIFICATION Spec
CONSTANTS
  Conns = {k1, k2}
  NoConn = NoConn
  QueueCapacity = 2
  MaxInits = 2
  MaxJoins = 2
  MaxCallbacks = 6
INVARIANT
  LoginConfirmedFirst
CHECK_DEADLOCK FALSE
