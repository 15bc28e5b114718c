SPECIFICATION Spec
CONSTANTS
  Versions <- MCVersions
  PlaceOf <- MCPlaceOf
  Position <- MCPosition
  LastPosition = 5
  HideMarkers = {1}
  Locked = {3}
  Stray = {5}
  Volatile = {1, 4}
  PageSize = 2
  NoVersion = 0
INVARIANTS
  TypeOK
  RemovesOnlyWhatWasAsked
  RemovalsAccountedFor
  SuccessIsComplete
PROPERTIES
  ImplementsPromise
  Terminates
