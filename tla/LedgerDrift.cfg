CONSTANTS
  Dimensions <- TwoDimensions
  Limits <- CallLimit
  Amounts <- SmallAmounts
  ConcurrencyCap = 2
  MaxEvents = 4
SPECIFICATION Spec
INVARIANT DriftStopsReload
CHECK_DEADLOCK FALSE
