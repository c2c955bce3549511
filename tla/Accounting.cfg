SPECIFICATION AccSpec
CONSTANTS
  MaxPlaces = 4
  MaxDeps = 2
  MaxAgain = 2
INVARIANTS
  CountedOnce
  NeighboursCharged
  ReplayCharged
  NoCostLost
CHECK_DEADLOCK FALSE
