-------------------------------- MODULE MCWire --------------------------------
(* Model-checking instance of Wire.                                           *)
EXTENDS Wire

CONSTANTS w1, w2
TwoWriters == {w1, w2}

Chat(n) == Packet("FriendMsgIncoming", <<n>>)
AllKinds == Multi(<<Packet("PersonaState", <<1, 2>>), Multi(<<Chat(3), Unreadable(Chat(4))>>),
                    Packet("FriendsList", <<5>>), Packet("UserNotifications", <<6, -7>>)>>)
Orders == <<AllKinds, Multi(<<Packet("FromGC", <<8>>), Packet("FromGC", <<-9>>), Packet("ItemAnnouncements", <<10>>)>>)>>
Losses == <<Junk, Multi(<<Chat(1), Junk>>), Multi(<<Chat(2), Multi(<<Junk>>), Chat(3)>>)>>
Farewell == <<Multi(<<Chat(1), Packet("LoggedOff", <<>>), Chat(2)>>), Chat(3)>>
SomeScripts == {Orders, Losses, Farewell}

Inside(S) == UNION {ToSet(p.sub) : p \in S}
Sent == UNION {ToSet(s) : s \in SomeScripts}
SomePackets == Sent \cup Inside(Sent) \cup Inside(Inside(Sent))
=============================================================================
