SPECIFICATION FairSpec
CONSTANTS
  add1 = add1
  add2 = add2
  ignore1 = ignore1
  AddFriendResponse = AddFriendResponse
  SetIgnoreFriendResponse = SetIgnoreFriendResponse
  Base = Base
  None = None
  Calls <- ThreeCalls
  EMsgs <- BothTypes
  TypeOf <- ResponseTypes
  Spacings = {"overlap", "serial", "settled"}
  MayExpire = TRUE
INVARIANTS
  SpacedCallsWork
  ChainIsGrounded
PROPERTIES
  DispatchesAndCallsEnd
CHECK_DEADLOCK FALSE
