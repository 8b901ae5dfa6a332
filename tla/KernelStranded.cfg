CONSTANTS
  r1 = r1
  r2 = r2
  None = None
  Runs = {r1, r2}
  ItemOf <- OwnScope
  EffectOf <- OwnScope
  MaxAttempts = 1
  MaxPauses = 1
  MaxSettlements = 2
  Reserved = 1
  Worst = 1
  Cap = 2
  Amounts = {1}
SPECIFICATION Spec
INVARIANT KnownReceiptReconcilable
CHECK_DEADLOCK FALSE
