SPECIFICATION Spec
CONSTANTS
  MaxMessages = 1
  MaxResponses = 0
  Values = {"a"}
  AppStatuses = {}
  QueueSize = 1
  CompareMode = "message_hash"
INVARIANTS
  BrokenNotCompared
