SPECIFICATION Spec
CONSTANTS
  Requests = {r1, r2}
  Sizes = {1, 2}
  Responses <- MCLongResponse
  Documents <- MCDocuments
  Threshold = 99
  MaxBody = 1
  Configs <- MCConfigs
  Rate = 3
  Burst = 1
  Scale = 2
  MaxTime = 1
INVARIANTS
  ResponseErrorIs502
