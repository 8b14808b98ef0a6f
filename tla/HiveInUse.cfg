CONSTANTS
  Workers = {w1, w2}
  Handles = {h1, h2}
  NoOne = NoOne
  LMod = 8
  RMod = 8
  NumThreads = 2
  MaxTasks = 2
  MaxBatch = 2
  MaxPanics = 1
  MaxSuspends = 1
  Destinations = {"store"}
  SpawnMayFail = FALSE
  Ops <- InUse
SPECIFICATION Safe
SYMMETRY WorkerSymmetry
INVARIANTS
  CountersExact
  AtMostOneLateTask
PROPERTIES
  JoinKeepsItsPromise
