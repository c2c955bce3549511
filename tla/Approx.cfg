SPECIFICATION ClaimSpec
CONSTANTS
  Elem = {c1, c2}
  MaxKey = 2
PROPERTY ApproxIgnored
CHECK_DEADLOCK FALSE
