CONSTANTS
  Sizes <- MCSizes
  Rounds = 3
  QuiescenceEnabled = TRUE
  QuiescenceSamples = 3
  PollSeconds = 10
  TimeoutSeconds = 30
  MaxInvocations = 3
SPECIFICATION Spec
INVARIANTS
  FilesAgree
  QuietWhenMeasured
PROPERTY Ends
CHECK_DEADLOCK FALSE
