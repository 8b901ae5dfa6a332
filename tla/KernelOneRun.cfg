CONSTANTS
  r1 = r1
  r2 = r2
  None = None
  Runs = {r1}
  ItemOf <- OneItem
  EffectOf <- OneEffect
  MaxAttempts = 2
  MaxPauses = 2
  MaxSettlements = 2
  Reserved = 1
  Worst = 1
  Cap = 2
  Amounts = {0, 2}
SPECIFICATION Spec
INVARIANTS
  TypeOK
  EffectAtMostOnce
  RetryFollowsSeal
  ExecutedIsOwned
  UnknownEffectStaysOpen
  ValidatingIsAccounted
  OverrunIsFenced
  PausedIsFenced
PROPERTIES
  RoutesReplayable
  TerminalIsFinal
CHECK_DEADLOCK FALSE
