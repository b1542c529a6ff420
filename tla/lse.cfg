CONSTANTS
  KeywordCount = 7
  Queries = 3
  DMax = 2
  Randoms <- MCRandoms
SPECIFICATION Spec
INVARIANTS
  TypeOK
  LookupsSucceed
  ObjectComplete
PROPERTY Ends
CHECK_DEADLOCK FALSE
