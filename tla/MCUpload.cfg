SPECIFICATION Spec
CONSTANTS
  MaxFiles = 4
  MaxConcurrency = 3
  Keys <- MCKeys
INVARIANTS
  TypeOK
  BudgetBounded
  OneWriterPerName
  SuccessIsComplete
PROPERTIES
  Terminates
  ImplementsPromise
