SPECIFICATION FairSpec
CONSTANTS
  Conns = {c1, c2}
  Configs <- MCConfigs
  MaxImages = 2
INVARIANTS
  HealthSound
  Drained
PROPERTIES
  StopEnds
