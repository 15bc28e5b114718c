SPECIFICATION Spec
CONSTANTS
  MaxFile = 4
  MaxVersion = 2
  Volatile = {3}
  PageSize = 2
  Path <- MCPath
  Preexisting = {"A", "a"}
  Leaf <- MCLeaf
  Above <- MCAbove
  Fold <- MCFold
  UnsafeOn <- MCUnsafeOn
INVARIANTS
  TypeOK
  NoPartialFileLeft
  ReportIsTrue
  OwnFilesNeverInTheWay
  SuccessIsComplete
PROPERTIES
  PosixKeepsFiles
  Terminates
