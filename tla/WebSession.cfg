SPECIFICATION FairSpec
CONSTANTS
  Users = {u1}
  Platforms <- BrowserAndMobile
  Accounts <- TwoAccounts
  MaxLogins = 2
  MaxIDs = 2
  MaxCrashes = 1
  Spaced = TRUE
INVARIANTS
  OneAccount
  RequestsAgree
PROPERTIES
  PollSucceeds
CHECK_DEADLOCK FALSE
