SPECIFICATION Spec
CONSTANTS
  Requests = {r1, r2}
  Sizes = {1, 2}
  Responses <- MCResponses
  Documents <- MCDocuments
  Threshold = 99
  MaxBody = 1
  Configs <- MCConfigs
  Rate = 3
  Burst = 1
  Scale = 2
  MaxTime = 1
INVARIANTS
  RateBound
  ShadowAllowed
  OneObservation
  ObservationSound
PROPERTIES
  ImplementsPlain
  HandleReturns
  ShadowEnds
