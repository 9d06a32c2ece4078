SPECIFICATION PrimarySpec
CONSTANTS
  MaxMessages = 2
  MaxResponses = 0
  Values = {"a"}
  AppStatuses = {}
  QueueSize = 1
  CompareMode = "message_hash"
PROPERTIES
  HandleReturns
  RequestContinues
  NoGoroutineLeak
