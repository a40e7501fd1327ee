SPECIFICATION Spec
CONSTANTS
  add1 = add1
  add2 = add2
  ignore1 = ignore1
  AddFriendResponse = AddFriendResponse
  SetIgnoreFriendResponse = SetIgnoreFriendResponse
  Base = Base
  None = None
  Calls <- ThreeCalls
  EMsgs <- BothTypes
  TypeOf <- ResponseTypes
  Spacings = {"serial"}
  MayExpire = FALSE
INVARIANT NoLostAnswer
CHECK_DEADLOCK FALSE
