------------------------- MODULE MCPacketListeners -------------------------
(* Model-checking instances of PacketListeners: two calls that wait for the *)
(* same type of response (two AddFriends) and one that waits for another.   *)
EXTENDS PacketListeners

CONSTANTS add1, add2, ignore1, AddFriendResponse, SetIgnoreFriendResponse

ThreeCalls == {add1, add2, ignore1}
BothTypes == {AddFriendResponse, SetIgnoreFriendResponse}
ResponseTypes ==
  [c \in ThreeCalls |-> IF c = ignore1 THEN SetIgnoreFriendResponse ELSE AddFriendResponse]
=============================================================================
