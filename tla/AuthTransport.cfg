SPECIFICATION FairSpec
CONSTANTS
  get = get
  post = post
  NoOne = NoOne
  Requests <- TwoRequests
  Replayable <- OneGet
  MaxSpoils = 3
  MaxExpires = 1
INVARIANTS
  RevocationIsHidden
  ExpiryIsCovered
  RefreshIsShared
PROPERTY RequestsEnd
CHECK_DEADLOCK FALSE
