SPECIFICATION Spec
CONSTANTS
  Pids = {p1, p2}
  Configs <- MCConfigs
  None = None
  StartEnvs <- MCStartEnvs
  MaxPuts = 1
  MaxRequests = 2
INVARIANTS
  LookupIsUsable
  LookupIsConfigured
  KeyedByConfig
  EnvRestored
  CachesAreCurrent
PROPERTIES
  OnlyOwnShutDown
SYMMETRY PidSymmetry
CHECK_DEADLOCK FALSE
