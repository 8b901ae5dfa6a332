CONSTANTS
  Dimensions <- TwoDimensions
  Limits <- CallLimit
  Amounts <- SmallAmounts
  ConcurrencyCap = 2
  MaxEvents = 6
SPECIFICATION Spec
INVARIANTS
  TypeOK
  BudgetHolds
  BudgetConserved
  GrantedIsDurable
  KillIsDurable
  MemoryIsStored
PROPERTY GrantsAreFresh
CHECK_DEADLOCK FALSE
