SPECIFICATION FairUFSpec
CONSTANTS
  MaxAddr = 3
  MaxData = 5
  MaxCounted = 2
  Price <- PowerOfTwo
INVARIANTS
  ParentBelow
PROPERTIES
  IsCostPartition
  FixupEnds
