--------------------------------- MODULE Wire ---------------------------------
(***************************************************************************)
(* The transport together with what the read loop makes of the packets it  *)
(* delivers: decodePacket, decodeMulti, and the switch of handlePacket with*)
(* its type-specific handlers, down to the application's callbacks.        *)
(* Abstraction: a packet is its EMsg, whether its body unmarshals, and the *)
(* entries of that body as numbers; a Multi has packets and may be cut.    *)
(***************************************************************************)
EXTENDS Transport

CONSTANTS
  Packets,   \* the packets there are, those inside of others included
  Depth      \* how deep Multis are nested at most

ASSUME PacketsAssumption ==
  /\ \A s \in Scripts : s \in Seq(Packets)
  /\ \A p \in Packets : p.entries \in Seq(Int) /\ p.sub \in Seq(Packets)

VARIABLES
  work,   \* the packets the read loop still has to handle, first one first
  told    \* the callbacks made, in order: <<callback, entry>>

vars == <<link_vars, write_vars, read_vars, srv_vars, work, told>>

Packet(emsg, entries) == [emsg |-> emsg, whole |-> TRUE, entries |-> entries, sub |-> <<>>]
Multi(sub) == [emsg |-> "Multi", whole |-> TRUE, entries |-> <<>>, sub |-> sub]
Unreadable(p) == [p EXCEPT !.whole = FALSE]
Junk == Unreadable(Packet("Junk", <<>>))   \* decodePacket refuses it

Init == TransportInit /\ work = <<>> /\ told = <<>>

\* decodeMulti gives all of its packets, or none if one does not decode.
Decodes(p) == p.whole /\ \A i \in DOMAIN p.sub : p.sub[i] # Junk

\* The loops over the friends, the notifications, the one message.
Calls(name, entries) == [i \in DOMAIN entries |-> <<name, entries[i]>>]
TradeOffers(entries) ==
  FlattenSeq([i \in DOMAIN entries |-> IF entries[i] > 0 THEN <<entries[i]>> ELSE <<>>])

\* The callbacks that the type-specific handlers make for a packet; entries
\* of a GC message are negative when they are of another application than TF2,
\* those of notifications when they are about something else than trade offers.
Handlers(p) ==
  IF ~p.whole THEN <<>>
  ELSE CASE p.emsg = "FriendsList" -> Calls("OnRelationship", p.entries)
         [] p.emsg = "PersonaState" -> Calls("OnPersonaState", p.entries)
         [] p.emsg = "FriendMsgIncoming" -> Calls("OnFriendMessage", p.entries)
         [] p.emsg = "UserNotifications" -> Calls("OnTradeNotification", TradeOffers(p.entries))
         [] p.emsg = "ItemAnnouncements" -> Calls("OnItemNotification", p.entries)
         [] p.emsg = "FromGC" -> Calls(IF p.entries[1] < 0 THEN "OnGCMessage" ELSE "tf2", p.entries)
         [] OTHER -> <<>>

\* OnPacket gets every packet that is not a Multi, after its own handler.
Callbacks(p) == Append(Handlers(p), <<"OnPacket", p.emsg>>)

\* readLoop: the next packet off the connection; one that does not decode is skipped.
NextWorkBug_LoopEnds(p) == <<p>>
NextWork(p) == IF p = Junk THEN <<>> ELSE <<p>>

ReadPacket ==
  /\ hs = "connected" /\ work = <<>>
  /\ Receive("message")
  /\ work' = NextWork(Incoming.body)
  /\ UNCHANGED <<told, link_vars, write_vars, srv_vars>>

\* handlePacket calls itself for the packets of a Multi before it goes on.
UnpackedBug_Last(p, rest) == rest \o p.sub
Unpacked(p, rest) == p.sub \o rest

HandleMulti ==
  /\ work # <<>> /\ Head(work).emsg = "Multi"
  /\ work' = IF Decodes(Head(work)) THEN Unpacked(Head(work), Tail(work)) ELSE Tail(work)
  /\ UNCHANGED <<told, link_vars, write_vars, read_vars, srv_vars>>

HandlePacket ==
  /\ work # <<>> /\ Head(work).emsg \notin {"Multi", "LoggedOff", "Junk"}
  /\ told' = told \o Callbacks(Head(work))
  /\ work' = Tail(work)
  /\ UNCHANGED <<link_vars, write_vars, read_vars, srv_vars>>

\* ClientLoggedOff closes the connection; what came with it in a Multi is still handled.
AfterLogOff == "closed"

HandleLoggedOff ==
  /\ work # <<>> /\ Head(work).emsg = "LoggedOff"
  /\ link' = AfterLogOff
  /\ told' = told \o Callbacks(Head(work))
  /\ work' = Tail(work)
  /\ UNCHANGED <<hs, cipher, useHMAC, conn, write_vars, read_vars, srv_vars>>

-----------------------------------------------------------------------------
Writes(p) == Lock(p) \/ WriteCell(p) \/ Written(p) \/ WriteFails(p)
Handshake == GetRequest \/ Respond \/ ResponseSent \/ GetResult \/ Publish
ReadLoop == ReadPacket \/ HandleMulti \/ HandlePacket \/ HandleLoggedOff
Reads == work = <<>> /\ (ReadCell \/ ReadFails)
Outside == ServerRequests \/ ServerResults \/ ServerSends \/ Stall \/ Break

Next ==
  \/ /\ \/ \E p \in Senders : Writes(p)
        \/ \E w \in Writers : SendPacket(w)
        \/ Leave \/ Handshake \/ Reads \/ Outside
     /\ UNCHANGED <<work, told>>
  \/ ReadLoop

Spec == Init /\ [][Next]_vars

\* What has begun goes on, and a connection that takes nothing is given up at
\* last.  The server and the network owe nothing else.
FairSpec ==
  /\ Spec
  /\ \A p \in Senders : WF_vars(Writes(p) /\ UNCHANGED <<work, told>>)
  /\ WF_vars((Handshake \/ Reads \/ Leave) /\ UNCHANGED <<work, told>>)
  /\ WF_vars(ReadLoop)
  /\ WF_vars(link = "stalled" /\ Break /\ UNCHANGED <<work, told>>)

-----------------------------------------------------------------------------
TypeOK ==
  /\ link \in {"up", "stalled", "broken", "closed"}
  /\ hs \in {"request", "respond", "result", "secured", "connected", "failed"}
  /\ cipher \in Modes /\ useHMAC \in BOOLEAN /\ conn \in BOOLEAN /\ challenge \in BOOLEAN
  /\ mu \in Senders \cup {NoOne}
  /\ \A p \in Senders : (pc[p] = "write") <=> (mu = p)
  /\ pc \in [Senders -> {"idle", "lock", "write", "ok", "err"}]
  /\ readErr \in {"no", "closed", "magic", "decrypt"}
  /\ Len(got) <= 4

\* Whatever goroutines write at once, and wherever the connection breaks, what
\* has gone out is whole frames one after the other, the last perhaps
\* unfinished; and however the network cuts the stream into reads, none takes
\* the middle of a frame for its header.
FramesStayWhole ==
  /\ IsPrefix(toServer, FlattenSeq([i \in DOMAIN begun |-> Cells(begun[i])]))
  /\ readErr # "magic"

\* No packet leaves in clear, and all leave in the mode the server has agreed
\* to, with or without HMAC according to its own request; nor is there, around
\* the change from clear to sealed frames, one that the reader cannot open.
SealedAsAgreed ==
  /\ \A i \in DOMAIN begun : begun[i].what = "packet" => begun[i].mode = CipherFor(challenge)
  /\ readErr # "decrypt"

\* The reference for what the application should be told of a packet: nothing of
\* one that does not decode, of a Multi what it should be told of those inside.
Each(F, w) == FlattenSeq([i \in DOMAIN w |-> F[w[i]]])
Inner(p) == IF p.emsg \in {"Junk", "Multi"} THEN <<>> ELSE Callbacks(p)
Opened(F) == [p \in Packets |->
  IF p.emsg = "Multi" /\ Decodes(p) THEN Each(F, p.sub) ELSE Inner(p)]
Promised[n \in 0..Depth] ==
  IF n = 0 THEN [p \in Packets |-> Inner(p)] ELSE Opened(Promised[n - 1])
Promise == Promised[Depth]
Promises(w) == Each(Promise, w)

\* Nothing is nested deeper than that.
ASSUME DepthAssumption == Depth \in Nat /\ Opened(Promise) = Promise

Ends(p) == <<"OnPacket", "LoggedOff">> \in Range(Promise[p])

\* How many messages may have been read when none is read after a ClientLoggedOff.
Heard == {n \in 0..Len(said) : \A j \in 1..(n - 1) : ~Ends(said[j])}
Expected == Promises(SubSeq(said, 1, CHOOSE n \in Heard : n + 1 \notin Heard))

\* The application is told what the server said, in its order and once, through
\* any nesting of Multi, and nothing of the messages after a ClientLoggedOff.
ToldInOrder == IsPrefix(told, Expected)

\* A message that does not decode, alone or in a Multi, holds nothing up: on a
\* connection that stays up the application is told all the rest.
ToldAll == (said # <<>> /\ script = <<>>) ~> (told = Expected \/ link # "up")

\* Nobody hangs: a Write never keeps its goroutine, not behind others, not when
\* the peer stops reading, not after a failure of whoever held the mutex; and a
\* connection lost during the handshake ends Connect.
WritesAndConnectEnd ==
  /\ \A p \in Senders : pc[p] = "lock" ~> pc[p] \in {"ok", "err"}
  /\ link = "broken" ~> hs \in {"failed", "connected"}
=============================================================================
