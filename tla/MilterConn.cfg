SPECIFICATION PrimarySpec
CONSTANTS
  Commands = {"O", "M", "E"}
  ReplyCodes = {"O", "a", "h"}
  EOMReplies <- MCEOMReplies
  MaxFrames = 3
  QueueCapacity = 1
  ShadowSamplePercent = 50
  TimeoutSet = TRUE
INVARIANTS
  TypeOK
  ShadowPrefix
  ReplyBeforeShadow
  ReplyMatchesRequest
  VerdictSound
  OneVerdictPerFrame
PROPERTIES
  ImplementsReplay
  ConnectionEnds
  TurnEnds
