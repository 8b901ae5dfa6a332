CONSTANTS
  r1 = r1
  None = None
  Runs = {r1}
  ItemOf <- OneItem
  EffectOf <- OneEffect
  MaxAttempts = 2
  MaxPauses = 1
  MaxSettlements = 2
  Reserved = 1
  Worst = 1
  Cap = 2
  Amounts = {1, 2}
SPECIFICATION StoreSpec
INVARIANTS
  ReceiptIsAdmissible
PROPERTIES
  HistoryReplays
CHECK_DEADLOCK FALSE
