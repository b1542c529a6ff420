CONSTANTS
  Items = {36882}
  LoadPercent = 90
  Fingerprints = {1, 2, 3, 4, 5, 7, 12, 30}
  HashWidth = 32768
  ProperAlternateRange <- MCProperAlternateRange
SPECIFICATION Spec
INVARIANT AlternateInRange
