SPECIFICATION Spec
CONSTANTS
  Conns = {c1}
  Configs <- MCConfigs
  MaxImages = 1
INVARIANTS
  HealthyOnceBound
