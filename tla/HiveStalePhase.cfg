CONSTANTS
  Workers = {w1}
  Handles = {h1, h2}
  NoOne = NoOne
  LMod = 8
  RMod = 8
  NumThreads = 1
  MaxTasks = 2
  MaxBatch = 1
  MaxPanics = 0
  MaxSuspends = 0
  Destinations = {"store"}
  SpawnMayFail = FALSE
  Ops <- JoinOnly
SPECIFICATION Safe
PROPERTIES
  JoinKeepsItsPromise
