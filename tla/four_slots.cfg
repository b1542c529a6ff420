CONSTANTS
  a1 = a1
  a2 = a2
  a3 = a3
  a4 = a4
  a5 = a5
  b1 = b1
  b2 = b2
  b3 = b3
  b4 = b4
  b5 = b5
  c1 = c1
  d1 = d1
  d2 = d2
  e1 = e1
  e2 = e2
  Keys = {a1, a2, a3, a4, b1, b2, b3, b4, b5, c1}
  Fingerprints = {1, 2, 3, 4, 5}
  BucketCount = 2
  SlotsPerBucket = 4
  MaxEvictions = 2
  FingerprintOf <- MCFingerprint
  FirstBucket <- MCFirstBucket
  Alternate <- MCAlternate
  DummyFingerprints = {1, 2}
  MaxFailures = 2
SYMMETRY Symmetry
SPECIFICATION Spec
PROPERTIES
  ImplementsIndex
CHECK_DEADLOCK FALSE
