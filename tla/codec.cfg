CONSTANTS
  Widths = {5, 10}
  BucketCount = 2
  Records <- MCRecords
SPECIFICATION Spec
INVARIANTS
  TypeOK
  ReadsBack
