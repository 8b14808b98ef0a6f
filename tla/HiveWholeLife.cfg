CONSTANTS
  Workers = {w1, w2}
  Handles = {h1}
  NoOne = NoOne
  LMod = 8
  RMod = 2
  NumThreads = 1
  MaxTasks = 3
  MaxBatch = 2
  MaxPanics = 1
  MaxSuspends = 0
  Destinations = {"store", "send"}
  SpawnMayFail = FALSE
  Ops <- WholeLife
SPECIFICATION Safe
SYMMETRY WorkerSymmetry
INVARIANTS
  TaskConservation
  PoolKeepsItsSize
