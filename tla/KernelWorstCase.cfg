CONSTANTS
  r1 = r1
  r2 = r2
  None = None
  Runs = {r1}
  ItemOf <- OneItem
  EffectOf <- OneEffect
  MaxAttempts = 2
  MaxPauses = 1
  MaxSettlements = 2
  Reserved = 1
  Worst = 2
  Cap = 2
  Amounts = {1}
SPECIFICATION Spec
INVARIANT OverCommitIsFenced
CHECK_DEADLOCK FALSE
