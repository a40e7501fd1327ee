----------------------------- MODULE TF2Session -----------------------------
(***************************************************************************)
(* The TF2 Game Coordinator session: Connect sends a hello and starts a    *)
(* loop that resends it; Welcome and Goodbye come in on the CM client's    *)
(* read loop; Disconnect is called by the application.  The mutex covers   *)
(* single regions only, so a Welcome or a Disconnect may come between the  *)
(* hello and the start of its loop.                                        *)
(* Abstraction: a stop channel is its number in order of creation, 0 is    *)
(* nil; a hello loop is named by the call of Connect that started it.      *)
(* What SOCache, the other half of the package, calls by the same name has *)
(* "Session" before it here.                                               *)
(***************************************************************************)
EXTENDS Integers, FiniteSets

CONSTANTS
  Callers,    \* the calls of Connect
  MaxStops    \* bound: stop channels made

ASSUME SessionBounds == IsFiniteSet(Callers) /\ MaxStops \in Nat

VARIABLES
  pc,         \* where each call of Connect is
  connected,
  helloStop,  \* the stop channel under c.mu, 0 for nil
  made,       \* stop channels made so far
  stopped,    \* stop channels closed
  stop,       \* the channel each hello loop selects on
  running,    \* the hello loops that run
  hellos,     \* whether the coordinator has a hello it may welcome
  panicked    \* a closed channel was closed again

sessionVars == <<pc, connected, helloStop, made, stopped, stop, running, hellos, panicked>>

SessionTypeOK ==
  /\ pc \in [Callers -> {"idle", "hello", "grab", "accepted", "rejected", "failed"}]
  /\ connected \in BOOLEAN /\ hellos \in BOOLEAN /\ panicked \in BOOLEAN
  /\ helloStop \in 0..MaxStops /\ made \in 0..MaxStops
  /\ stopped \subseteq 1..MaxStops
  /\ stop \in [Callers -> 0..MaxStops]
  /\ running \subseteq Callers

SessionInit ==
  /\ pc = [c \in Callers |-> "idle"]
  /\ connected = FALSE /\ hellos = FALSE /\ panicked = FALSE
  /\ helloStop = 0 /\ made = 0 /\ stopped = {}
  /\ stop = [c \in Callers |-> 0] /\ running = {}

Goto(c, l) == pc' = [pc EXCEPT ![c] = l]

-----------------------------------------------------------------------------
(* Connect, sendHello and helloLoop.                                       *)

\* c.helloStop != nil: "tf2: already connecting".
AlreadyConnectingBug_NotAsked == FALSE
AlreadyConnecting == helloStop # 0

ConnectRejected(c) ==
  /\ pc[c] = "idle" /\ AlreadyConnecting
  /\ Goto(c, "rejected")
  /\ UNCHANGED <<connected, helloStop, made, stopped, stop, running, hellos, panicked>>

ConnectBegin(c) ==
  /\ pc[c] = "idle" /\ ~AlreadyConnecting /\ made < MaxStops
  /\ made' = made + 1
  /\ helloStop' = made + 1
  /\ Goto(c, "hello")
  /\ UNCHANGED <<connected, stopped, stop, running, hellos, panicked>>

HelloSent(c) ==
  /\ pc[c] = "hello"
  /\ hellos' = TRUE
  /\ Goto(c, "grab")
  /\ UNCHANGED <<connected, helloStop, made, stopped, stop, running, panicked>>

\* Connect returns the error of the send; helloStop stays set.
HelloFails(c) ==
  /\ pc[c] = "hello"
  /\ Goto(c, "failed")
  /\ UNCHANGED <<connected, helloStop, made, stopped, stop, running, hellos, panicked>>

\* stop := c.helloStop under the mutex; go c.helloLoop(stop, body).
StartLoop(c) ==
  /\ pc[c] = "grab"
  /\ stop' = [stop EXCEPT ![c] = helloStop]
  /\ running' = running \cup {c}
  /\ Goto(c, "accepted")
  /\ UNCHANGED <<connected, helloStop, made, stopped, hellos, panicked>>

\* <-stop; a nil channel is never ready.
LoopStops(c) ==
  /\ c \in running /\ stop[c] \in stopped
  /\ running' = running \ {c}
  /\ UNCHANGED <<pc, connected, helloStop, made, stopped, stop, hellos, panicked>>

LoopResends(c) ==
  /\ c \in running
  /\ hellos' = TRUE
  /\ UNCHANGED <<pc, connected, helloStop, made, stopped, stop, running, panicked>>

LoopFails(c) ==
  /\ c \in running
  /\ running' = running \ {c}
  /\ UNCHANGED <<pc, connected, helloStop, made, stopped, stop, hellos, panicked>>

-----------------------------------------------------------------------------
(* The mutex regions that end the hello phase.                             *)

\* if c.helloStop != nil { close(c.helloStop); c.helloStop = nil }
ClearedBug_KeepsField == helloStop
Cleared == 0

ClosingBug_OnlyForgets(s) == stopped
Closing(s) == IF s = 0 THEN stopped ELSE stopped \cup {s}

CloseHelloStop ==
  /\ stopped' = Closing(helloStop)
  /\ panicked' = (helloStop \in stopped)
  /\ helloStop' = IF helloStop = 0 THEN 0 ELSE Cleared

Welcome ==
  /\ hellos
  /\ hellos' \in BOOLEAN       \* it may answer more hellos, or no more
  /\ connected' = TRUE
  /\ CloseHelloStop
  /\ UNCHANGED <<pc, made, stop, running>>

Goodbye ==
  /\ connected
  /\ connected' = FALSE
  /\ UNCHANGED <<pc, helloStop, made, stopped, stop, running, hellos, panicked>>

SessionDisconnect ==
  /\ connected' = FALSE
  /\ CloseHelloStop
  /\ UNCHANGED <<pc, made, stop, running, hellos>>

-----------------------------------------------------------------------------

Loops(c) == LoopStops(c) \/ LoopResends(c) \/ LoopFails(c)

SessionNext ==
  /\ ~panicked
  /\ \/ \E c \in Callers :
          \/ ConnectRejected(c) \/ ConnectBegin(c)
          \/ HelloSent(c) \/ HelloFails(c) \/ StartLoop(c) \/ Loops(c)
     \/ Welcome \/ Goodbye \/ SessionDisconnect

SessionSpec == SessionInit /\ [][SessionNext]_sessionVars

\* Select picks a ready case at random, so a loop whose stop channel is closed
\* does not resend for ever.
SessionFairSpec == SessionSpec /\ \A c \in Callers : WF_sessionVars(LoopStops(c))

-----------------------------------------------------------------------------
\* Connect, Welcome and Disconnect may interleave in any way: no stop channel
\* is closed twice.
NoDoubleClose == ~panicked

\* A hello loop with a stop channel can still be stopped: the channel is the
\* one the next Welcome or Disconnect closes, unless it is closed already.
LoopStaysReachable == \A c \in running :
  stop[c] # 0 => stop[c] \in stopped \/ stop[c] = helloStop

\* "Resends every 5 seconds until welcome or stop": once a Welcome or a
\* Disconnect has taken the stop channel of a hello loop away, the loop ends.
WelcomeEndsLoops == \A c \in Callers :
  (c \in running /\ stop[c] # 0 /\ helloStop # stop[c]) ~> c \notin running
=============================================================================
