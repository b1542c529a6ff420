CONSTANTS
  Items = {1, 4, 7, 12, 100, 961, 973, 978, 1000, 3900, 16384, 32768, 37996,
           65536, 131072, 262144}
  LoadPercent = 95
  Fingerprints = {1, 2, 3, 4, 5, 7, 12, 30}
  HashWidth = 32768
  ProperAlternateRange <- MCProperAlternateRange
SPECIFICATION Spec
INVARIANTS
  AlternateInRange
  AlternateReturns
  LayoutFits
