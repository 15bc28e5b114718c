SPECIFICATION Spec
CONSTANTS
  p1 = p1
  p2 = p2
  p3 = p3
  Process <- MCProcess
  Nobody = Nobody
  MaxKills = 1
  Attempts = 2
  DownloadTimeout = 1
  HalfDelay = 1
  LockGrace = 1
  LockOption = 0
INVARIANTS
  TypeOK
  RunsPinned
PROPERTIES
  GivesUpForCause
  Terminates
