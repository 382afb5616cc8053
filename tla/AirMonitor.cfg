SPECIFICATION Spec
CONSTANTS
  Configs <- MCConfigs
  NoConfig = NoConfig
  Lags = {1}
  Horizon = 3
INVARIANTS
  PermitIsReady
  PermitIsInTime
PROPERTIES
  KeepsPermission
  RunIsEarned
