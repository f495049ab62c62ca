SPECIFICATION FairSpec
CONSTANTS
  CapCapacity = 1
  PbCapacity = 1
  RefCapacity = 1
  FrameUnits = 1
  PromptFrames = 2
  MaxRuns = 1
  MaxSessions = 2
  MaxPrompts = 2
  MaxMoves = 3
  MaxMishaps = 1
INVARIANTS
  SentAudioIsCurrent
  PlayedAudioIsCurrent
  PromptIsWhole
  NothingReleasedInUse
PROPERTY
  ShutdownEnds
CHECK_DEADLOCK FALSE
