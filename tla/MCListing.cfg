SPECIFICATION Spec
CONSTANTS
  MaxName = 6
  MaxResults = 3
  Volatile = {2, 4, 6}
  PageSize = 2
  Size <- MCSize
  MaxBytes = 12
  MaxPreview = 2
INVARIANTS
  TypeOK
  AnswerIsTrue
  SummaryIsWholeOrEmpty
PROPERTY Terminates
