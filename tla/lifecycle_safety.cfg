SPECIFICATION Spec
CONSTANTS
  NoToken = NoToken
  Tokens = {t1, t2}
  PairTokens = {p1, p2}
  PairRetryInitial = 1
  PairRetryMax = 1
  RtcRetryInitial = 1
  RtcRetryMax = 2
  RtcCallsDelivered = TRUE
  MaxLosses = 1
  MaxBindings = 3
  MaxConversations = 2
INVARIANTS
  NeverStranded
  GenerationIdentifiesCredential
  OnePollOutstanding
  ConversationKnown
  NoConversationAcrossLoss
  StopsAreForEndedConversations
  StopRequestInConversation
PROPERTIES
  FreshConversation
  ImplementsBinding
  ImplementsReduced
SYMMETRY CredentialSymmetry
