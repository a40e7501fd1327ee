SPECIFICATION Spec
CONSTANTS
  Ids = {1, 2}
  MaxVersion = 2
  MaxQueue = 2
  MaxEdits = 2
  MayDisconnect = TRUE
  MayLapse = TRUE
  MayGarble = TRUE
  SendsAccount = TRUE
INVARIANTS
  CacheMirrors
  ViewMatches
CHECK_DEADLOCK FALSE
