SPECIFICATION MeterSpec
CONSTANTS
  MaxTime = 5
  MaxDepth = 4
  Amounts = {1, 2}
INVARIANTS
  NodesFit
PROPERTIES
  IsStopwatch
CHECK_DEADLOCK FALSE
