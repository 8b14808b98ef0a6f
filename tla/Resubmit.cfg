CONSTANTS
  Threads = {w1, w2}
  Clients = {c1, c2}
  NoOne = NoOne
  RetryBuild = FALSE
  Payloads = {x1, x2}
  MaxSuspends = 2
  Destinations = {"store"}
  Does <- MCDoes
SPECIFICATION ResubmitSpec
CHECK_DEADLOCK FALSE
INVARIANTS
  NoLostWakeup
  InputsConserved
  RemovalUndisturbed
PROPERTIES
  ImplementsAwait
  ImplementsInputLife
  ResumeReleases
  InputsSettle
