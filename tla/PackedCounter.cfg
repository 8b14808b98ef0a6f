CONSTANTS
  LMod = 8
  RMod = 4
  Amounts <- MCAmounts
SPECIFICATION Spec
INVARIANTS
  NoSilentCorruption
PROPERTY ImplementsPair
