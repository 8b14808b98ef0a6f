CONSTANTS
  Threads = {t1, t2, t3}
  Finishers = {f1, f2}
  NoOne = NoOne
  MaxFlips = 2
SPECIFICATION Spec
INVARIANTS
  NoLostWakeup
  PhaseIsCurrent
PROPERTIES
  JoinReturns
