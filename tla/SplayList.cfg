SPECIFICATION FairSplaySpec
CONSTANTS
  MaxKey = 4
  Value = {x, y}
INVARIANTS
  SplayTypeOK
  ListInOrder
  LinksAgree
  SearchFinds
PROPERTIES
  IsMap
  CallsReturn
