--------------------------- MODULE PacketListeners ---------------------------
(***************************************************************************)
(* expectEMsg and awaitPacket: one-shot listeners for a message type, each *)
(* a closure put in front of c.OnPacket that remembers the handler it      *)
(* found there and puts it back when its message comes.  Login, AddFriend  *)
(* and IgnoreFriend wait for their responses this way.  c.OnPacket is read *)
(* and written by the callers and by the read loop without a lock, so each *)
(* read and each write of it is a step.                                    *)
(* Abstraction: a closure is named by the call that made it, Base is the   *)
(* application's own handler, a packet is its type with the call whose     *)
(* request it answers (the wire carries only the type).                    *)
(***************************************************************************)
EXTENDS Integers, FiniteSets

CONSTANTS
  Calls,     \* the invocations of Login, AddFriend and IgnoreFriend
  EMsgs,     \* the types of their responses
  TypeOf,    \* the response type each call waits for
  Base,      \* the handler the application installed
  None,      \* an empty channel, no packet, no result
  Spacings,  \* when the application may start a call: at any time ("overlap"),
             \* after the last one has returned ("serial"), or later still,
             \* when the read loop has also finished its dispatch ("settled")
  MayExpire  \* whether contexts may end before the answer comes

ASSUME CallsAssumption ==
  /\ IsFiniteSet(Calls) /\ Base \notin Calls /\ None \notin Calls /\ Base # None
  /\ TypeOf \in [Calls -> EMsgs]
  /\ Spacings \subseteq {"overlap", "serial", "settled"} /\ MayExpire \in BOOLEAN

VARIABLES
  spacing,   \* which of Spacings the application keeps to
  pc,        \* where each call is
  onPacket,  \* c.OnPacket: the outermost closure, or Base
  prev,      \* the handler each closure captured
  chan,      \* the one-place channel of each closure
  result,    \* the call whose answer this one returned, or None
  asked,     \* requests at the server, not answered yet
  replied,   \* calls whose answer has been dispatched, from its first step
  packet,    \* the packet the read loop dispatches: the call answered, or None
  at,        \* the closure it is in; Base: about to call the application
  restoring, \* it has still to put that closure's captured handler back
  heard      \* packets the application's handler has been given

vars == <<spacing, pc, onPacket, prev, chan, result, asked, replied,
          packet, at, restoring, heard>>

Handlers == Calls \cup {Base}

TypeOK ==
  /\ spacing \in Spacings
  /\ pc \in [Calls -> {"idle", "capture", "install", "send", "await", "returned"}]
  /\ onPacket \in Handlers
  /\ prev \in [Calls -> Handlers]
  /\ chan \in [Calls -> Calls \cup {None}]
  /\ result \in [Calls -> Calls \cup {None}]
  /\ asked \subseteq Calls /\ replied \subseteq Calls
  /\ packet \in Calls \cup {None}
  /\ at \in Handlers
  /\ restoring \in BOOLEAN
  /\ heard \subseteq Calls

Init ==
  /\ spacing \in Spacings
  /\ pc = [c \in Calls |-> "idle"]
  /\ onPacket = Base
  /\ prev = [c \in Calls |-> Base]
  /\ chan = [c \in Calls |-> None]
  /\ result = [c \in Calls |-> None]
  /\ asked = {} /\ replied = {}
  /\ packet = None /\ at = Base /\ restoring = FALSE
  /\ heard = {}

Running(c) == pc[c] \notin {"idle", "returned"}

Begin(c) ==
  /\ pc[c] = "idle"
  /\ spacing # "overlap" => \A d \in Calls : ~Running(d)
  /\ spacing = "settled" => packet = None
  /\ pc' = [pc EXCEPT ![c] = "capture"]
  /\ UNCHANGED <<spacing, onPacket, prev, chan, result, asked, replied, packet, at, restoring, heard>>

\* prev := c.OnPacket
CapturedBug_AtCallTime(c) == c
Captured(c) == onPacket

Capture(c) ==
  /\ pc[c] = "capture"
  /\ prev' = [prev EXCEPT ![c] = Captured(c)]
  /\ pc' = [pc EXCEPT ![c] = "install"]
  /\ UNCHANGED <<spacing, onPacket, chan, result, asked, replied, packet, at, restoring, heard>>

\* c.OnPacket = the closure
InstalledBug_Behind(c) == prev[c]
Installed(c) == c

Install(c) ==
  /\ pc[c] = "install"
  /\ onPacket' = Installed(c)
  /\ pc' = [pc EXCEPT ![c] = "send"]
  /\ UNCHANGED <<spacing, prev, chan, result, asked, replied, packet, at, restoring, heard>>

SendRequest(c) ==
  /\ pc[c] = "send"
  /\ asked' = asked \cup {c}
  /\ pc' = [pc EXCEPT ![c] = "await"]
  /\ UNCHANGED <<spacing, onPacket, prev, chan, result, replied, packet, at, restoring, heard>>

AwaitAnswer(c) ==
  /\ pc[c] = "await" /\ chan[c] # None
  /\ result' = [result EXCEPT ![c] = chan[c]]
  /\ pc' = [pc EXCEPT ![c] = "returned"]
  /\ UNCHANGED <<spacing, onPacket, prev, chan, asked, replied, packet, at, restoring, heard>>

\* The send fails, the context ends or done is closed: the call returns an
\* error and its closure stays where it is.
GivesUp(c) ==
  /\ MayExpire /\ pc[c] \in {"send", "await"}
  /\ pc' = [pc EXCEPT ![c] = "returned"]
  /\ UNCHANGED <<spacing, onPacket, prev, chan, result, asked, replied, packet, at, restoring, heard>>

-----------------------------------------------------------------------------
(* The end of handlePacket on the read loop: c.OnPacket(pkt).              *)

Receive(c) ==
  /\ packet = None /\ c \in asked
  /\ asked' = asked \ {c}
  /\ replied' = replied \cup {c}
  /\ packet' = c
  /\ at' = onPacket
  /\ UNCHANGED <<spacing, pc, onPacket, prev, chan, result, restoring, heard>>

Matches == at # Base /\ TypeOf[at] = TypeOf[packet]

\* A matching closure offers the packet to its channel without blocking.
Offer ==
  /\ packet # None /\ Matches /\ ~restoring
  /\ chan' = IF chan[at] = None THEN [chan EXCEPT ![at] = packet] ELSE chan
  /\ restoring' = TRUE
  /\ UNCHANGED <<spacing, pc, onPacket, prev, result, asked, replied, packet, at, heard>>

\* ... and takes itself off, with c.OnPacket = prev;
\* then, matching or not, a closure calls the handler it captured.
Restored == IF restoring THEN prev[at] ELSE onPacket

NextHandler == prev[at]

Forward ==
  /\ packet # None /\ at # Base /\ (Matches => restoring)
  /\ onPacket' = Restored
  /\ at' = NextHandler
  /\ restoring' = FALSE
  /\ UNCHANGED <<spacing, pc, prev, chan, result, asked, replied, packet, heard>>

\* The application's handler has the packet; the dispatch is over.
CallBase ==
  /\ packet # None /\ at = Base
  /\ heard' = heard \cup {packet}
  /\ packet' = None
  /\ UNCHANGED <<spacing, pc, onPacket, prev, chan, result, asked, replied, at, restoring>>

Runs(c) ==
  Capture(c) \/ Install(c) \/ SendRequest(c) \/ AwaitAnswer(c)

Dispatches == Offer \/ Forward \/ CallBase

Next ==
  \/ \E c \in Calls : Begin(c) \/ Runs(c) \/ GivesUp(c) \/ Receive(c)
  \/ Dispatches

Spec == Init /\ [][Next]_vars

\* Goroutines run; answers need not come.
FairSpec ==
  Spec /\ (\A c \in Calls : WF_vars(Runs(c))) /\ WF_vars(Dispatches)

-----------------------------------------------------------------------------
\* AddFriend "returns the server's response": a call returns the answer to
\* its own request and not the late answer to an earlier one.
OwnAnswer == \A c \in Calls : result[c] \in {None, c}

\* A listener that is installed before the request is sent does not miss the
\* answer: once it is dispatched, the waiting call has a packet.
NoLostAnswer == \A c \in Calls :
  (pc[c] = "await" /\ c \in heard) => chan[c] # None

\* The application spaces its calls out and none of them has been given up.
Undisturbed ==
  spacing = "settled" /\ \A c \in Calls : pc[c] = "returned" => result[c] # None

\* Listeners are one-shot: when no call waits and no packet is on its way, the
\* application's handler is in c.OnPacket.
HookRestored == (packet = None /\ \A c \in Calls : ~Running(c)) => onPacket = Base

\* Undisturbed calls get their own answers and lose none, although the channel
\* is filled before the listener is taken off, and leave the hook as it was.
SpacedCallsWork == Undisturbed => OwnAnswer /\ NoLostAnswer /\ HookRestored

\* The handlers from which Base is reached in at most n captures.
Reach[n \in 0..Cardinality(Calls)] ==
  IF n = 0 THEN {Base}
  ELSE Reach[n - 1] \cup {c \in Calls : prev[c] \in Reach[n - 1]}

\* However calls overlap and expire, the captured handlers lead back to Base:
\* a closure only ever captures one that was there before it, so no closure
\* comes to call itself.
ChainIsGrounded == Reach[Cardinality(Calls)] = Handlers

\* Every dispatch ends at the application's handler, although the callers
\* change c.OnPacket meanwhile, and an undisturbed call whose answer has been
\* dispatched returns.
DispatchesAndCallsEnd ==
  /\ (packet # None) ~> (packet = None)
  /\ \A c \in Calls :
       (spacing = "settled" /\ c \in heard) ~> (pc[c] = "returned" \/ ~Undisturbed)
=============================================================================
