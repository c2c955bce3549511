SPECIFICATION BookSpec
CONSTANTS
  Elem = {c1, c2, c3, c4, c5}
  MaxKey = 2
INVARIANTS
  BookTypeOK
  NeverEmptyHanded
  OneEntry
  TouchHits
PROPERTIES
  CheapestTaken
SYMMETRY AnyElem
CHECK_DEADLOCK FALSE
