SPECIFICATION FairSpec
CONSTANTS
  NoToken = NoToken
  Tokens = {t1}
  PairTokens = {p1}
  PairRetryInitial = 1
  PairRetryMax = 2
  RtcRetryInitial = 1
  RtcRetryMax = 2
  RtcCallsDelivered = TRUE
  MaxLosses = 1
  MaxBindings = 1
  MaxConversations = 1
PROPERTIES
  StopRequestEndsConversation
  LossEndsConversation
  RenewalRetried
  PollReturns
  ExitCompletes
  EventuallyBound
