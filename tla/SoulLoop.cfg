SPECIFICATION ClaimSpec
CONSTANTS
  Elem = {c1, c2}
  MaxKey = 2
INVARIANT LoopReapsAll
CHECK_DEADLOCK FALSE
