SPECIFICATION HeapSpec
CONSTANTS
  Elem = {e1, e2, e3, e4, e5, e6}
  MaxKey = 1
INVARIANTS
  HeapTypeOK
  HeapOrder
  IndexRight
PROPERTIES
  IsQueue
SYMMETRY AnyElem
