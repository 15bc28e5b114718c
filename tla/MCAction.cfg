SPECIFICATION Spec
CONSTANTS
  MaxId = 3
  Before = 2
  MaxTries = 2
  Bytes = {"a", "b"}
  NoSum = "none"
  Objects <- MCObjects
INVARIANTS
  TypeOK
  RetryableIsHarmless
  ChangesAreReported
  HiddenStaysOutOfReach
  VerdictIsTrue
PROPERTIES
  Terminates
