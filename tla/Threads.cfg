CONSTANTS
  DefaultThreads = 2
  DefaultRetries = 3
  DefaultFactor = 1
  Clients = {c1, c2}
  CoreIds = {0, 1}
  FirstCores = {0}
  Affinities <- MCAffinities
  Numbers = {1}
  NewDefaults = {0}
  MaxThreads = 3
  MaxSettings = 2
  MaxChanges = 1
  MaxFailures = 1
SPECIFICATION Spec
CHECK_DEADLOCK FALSE
SYMMETRY MCSymmetry
INVARIANTS
  EveryIndexOnce
  SettingsAsAsked
  DistinctCores
