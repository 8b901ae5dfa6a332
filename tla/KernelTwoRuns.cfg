CONSTANTS
  r1 = r1
  r2 = r2
  None = None
  Runs = {r1, r2}
  ItemOf <- OwnScope
  EffectOf <- OwnScope
  MaxAttempts = 1
  MaxPauses = 1
  MaxSettlements = 1
  Reserved = 1
  Worst = 1
  Cap = 2
  Amounts = {2}
SPECIFICATION Spec
SYMMETRY RunSymmetry
INVARIANTS
  OneOutstandingEffect
PROPERTIES
  FencedRepositoryIsQuiet
  HistoryReplays
CHECK_DEADLOCK FALSE
