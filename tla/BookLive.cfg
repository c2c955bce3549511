SPECIFICATION FairBookSpec
CONSTANTS
  Elem = {c1, c2, c3}
  MaxKey = 2
PROPERTIES
  MurderReturns
CHECK_DEADLOCK FALSE
