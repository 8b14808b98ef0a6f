CONSTANTS
  Workers = {w1, w2}
  Handles = {h1}
  NoOne = NoOne
  LMod = 8
  RMod = 8
  NumThreads = 2
  MaxTasks = 2
  MaxBatch = 1
  MaxPanics = 0
  MaxSuspends = 0
  Destinations = {"store"}
  SpawnMayFail = FALSE
  Ops <- SubmitAndLeave
  Asks <- OneAsksMore
  MaxRetries = 2
  RetryFactor = {1}
  PowBits = 1
  MaxDelay = 4
SPECIFICATION RetrySpec
INVARIANTS
  NextRetryCoversQueue
  RetryCountersExact
PROPERTIES
  RetryImplementsTaskPool
  RetriesResolve
