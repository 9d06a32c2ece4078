SPECIFICATION FairSpec
CONSTANTS
  r2 = r2
  Rpcs = {r1, r2, r3}
  Calls <- MCCalls
  Rules <- MCRules
  PrimaryTargets <- MCPrimaryTargets
  ShadowTargets <- MCShadowTargets
  HashMode = {"primary"}
  Hash <- MCHash
  NextWrap = 4
  Bearer = TRUE
  TokenEndpoint = FALSE
  SamplePercent = 100
  Limited = TRUE
  Timeout = 1
  RefreshSkew = 1
  DefaultLife = 2
  Lifetimes = {0, 3}
  MaxTime = 3
INVARIANTS
  TokenForPrimaryOnly
  ShadowObeysRules
PROPERTIES
  CachedTokenAlive
  RpcAnswered
CHECK_DEADLOCK FALSE
