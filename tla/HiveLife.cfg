CONSTANTS
  Workers = {w1, w2}
  Handles = {h1}
  NoOne = NoOne
  LMod = 8
  RMod = 8
  NumThreads = 2
  MaxTasks = 2
  MaxBatch = 1
  MaxPanics = 1
  MaxSuspends = 0
  Destinations = {"apply", "store"}
  SpawnMayFail = FALSE
  Ops <- Alone
SPECIFICATION Spec
PROPERTIES
  TasksResolve
  CallsReturn
  DropTerminatesWorkers
