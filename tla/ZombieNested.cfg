SPECIFICATION NestedSpec
CONSTANTS
  UnrollFactor = 2
  MaxEvents = 4
  MaxIn = 1
  MaxHeld = 1
INVARIANT NestedBindReturns
CHECK_DEADLOCK FALSE
