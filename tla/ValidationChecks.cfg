CONSTANTS
  c1 = c1
  c2 = c2
  None = None
  CheckOrder <- TwoChecks
  DependsOn <- InOrder
  GateAtStart <- GatesOpen
  MaxLaunches = 2
  MaxPauses = 0
  MaxSettlements = 3
  MaxFacts = 1
SPECIFICATION Spec
VIEW Essential
INVARIANTS
  TypeOK
  CompletedIsValidated
  AppliedIsCeased
PROPERTIES
  SlotReleaseIsClosed
  ValidationHistoryReplays
CHECK_DEADLOCK FALSE
