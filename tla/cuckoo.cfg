CONSTANTS
  Keys = {1, 2, 3, 4, 5}
  Randoms = {6, 7, 8, 9}
  BinCount <- MCBinCount
  MaxRelocations = 6
  Position <- MCPosition
  Vacant = Vacant
SPECIFICATION Spec
INVARIANTS
  TypeOK
  FindExact
  CountersAgree
PROPERTIES
  ImplementsTokenSet
  CallReturns
CHECK_DEADLOCK FALSE
