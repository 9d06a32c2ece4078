SPECIFICATION Spec
CONSTANTS
  MaxMessages = 2
  MaxResponses = 1
  Values = {"a"}
  AppStatuses = {"NotFound"}
  QueueSize = 1
  CompareMode = "message_hash"
INVARIANTS
  CompareSound
PROPERTIES
  ComparedWhole
  ImplementsReplay
