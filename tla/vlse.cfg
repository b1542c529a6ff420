CONSTANTS
  KeywordCount = 7
  Queries = 2
  DMax = 5
  Epoch = 11
  MaxAttempts = 4
  SlotsPerBucket = 4
  MaxFalse = 2
  Capacity <- MCCapacity
SPECIFICATION Spec
INVARIANTS
  TypeOK
  EncryptedOnce
  IndexComplete
  AnswersExact
  RowAccepted
