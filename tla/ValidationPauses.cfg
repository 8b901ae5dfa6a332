CONSTANTS
  c1 = c1
  c2 = c2
  None = None
  CheckOrder <- OneCheck
  DependsOn <- InOrder
  GateAtStart <- GatesOpen
  MaxLaunches = 2
  MaxPauses = 1
  MaxSettlements = 2
  MaxFacts = 1
SPECIFICATION Spec
VIEW Essential
INVARIANTS
  OneValidatorRuns
  PausedIsQuiet
PROPERTIES
  ValidationHistoryReplays
CHECK_DEADLOCK FALSE
