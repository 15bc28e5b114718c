SPECIFICATION Spec
CONSTANTS
  MaxPath = 3
  MaxConcurrency = 2
  MaxScanErrors = 1
  KindsAt <- MCKindsAt
  Volatile = {1}
INVARIANT OrphansGone
