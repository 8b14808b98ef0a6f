CONSTANTS
  RetryBuild = FALSE
  Given <- MCGiven
  Foreign = {7}
  Modes = {"ordered", "unordered", "filtered", "stored"}
  Adapters = {"outcomes", "results", "outputs"}
  Workers <- MCWorkers
SPECIFICATION MapSpec
INVARIANTS
  InOrder
  OutcomesConserved
  MissingIsMissing
  BatchComplete
  NoErrorSwallowed
PROPERTIES
  OutcomesReachConsumer
  CallEnds
