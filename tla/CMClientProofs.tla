---------------------------- MODULE CMClientProofs ----------------------------
(***************************************************************************)
(* The lifecycle of steamclient.Client for any number of connections, done *)
(* channels, callbacks and heartbeats: a client panics exactly on a        *)
(* Disconnect or Reconnect when it is not connected and a Login when it    *)
(* never was, no read loop survives its connection, a connection is        *)
(* reported at most once and only if the server or the network ended it,   *)
(* and session and heartbeats are those of the present connection.         *)
(*                                                                         *)
(* The first three are proved for an application that serialises Connect,  *)
(* Disconnect and Reconnect (Login may run beside them) and connects only  *)
(* a client that is not connected, the others for one that serialises      *)
(* Login too and calls it once it is connected, or too early; without that *)
(* TLC refutes them.                                                       *)
(* Nothing is assumed of when it calls Disconnect and Reconnect.           *)
(***************************************************************************)
EXTENDS CMClient, TLAPS

Serialised ==
  /\ {"Connect", "Disconnect", "Reconnect"} \subseteq LockedOps
  /\ CallsIn["Connect"] \subseteq {"fresh", "closed"}

Critical == ConnectPcs \cup DisconnectPcs \cup ReconnectPcs

\* Whoever is inside Connect, Disconnect or Reconnect holds the mutex.
Exclusive == \A p \in Procs : pc[p] \in Critical => lock = p

\* The bounds leave room for what an operation has still to make.
Headroom == \A p \in Procs :
  /\ pc[p] \in {"dial"} \cup ReconnectPcs => conn < MaxConns
  /\ pc[p] \in {"dial", "start", "recLogout"} => done < MaxDones
  /\ pc[p] \in {"recClose", "recShut", "recWait", "recReset"} => done + 1 < MaxDones
  /\ pc[p] = "start" => conn > 0

\* Login publishes only an acceptance.
GrantInHand == \A p \in Procs : pc[p] = "set" => got[p] > 0

DonesMade == closed \subseteq 1..done

\* Where done may still have to be closed, it can be.
Closing ==
  phase \in Live \/ (phase = "closed" /\ \E p \in Procs : pc[p] = "discClose")
ClosableWhenOpen == Closing /\ ~closeOnce => Closable

\* On a live client Disconnect leaves the live phases first and closes done
\* before it waits, and Reconnect stays in them.
PhaseMarks == \A p \in Procs :
  /\ pc[p] \in ReconnectPcs => phase \in Live \cup {"misused"}
  /\ pc[p] \in DisconnectPcs => phase \in {"closed", "misused"}
  /\ pc[p] \in {"discShut", "discWait", "discReset"} => closeOnce

\* A read loop runs on a live connection, or while Disconnect waits for it.
LoopsHaveOwner == \A k \in Conns : Reading(k) =>
  \/ phase \in Live
  \/ phase = "closed" /\ \E p \in Procs : pc[p] \in {"discClose", "discShut", "discWait"}

\* From the end of a Wait to the new read loop no read loop runs.
NoLoopBetween == \A p \in Procs :
  pc[p] \in ConnectPcs \cup {"discReset", "recReset", "recLogout"} =>
    \A k \in Conns : ~Reading(k)

\* OnDisconnect goroutines are started in order, for connections made so
\* far; a fresh disconnectOnce means the present connection is unreported.
HandlersStarted == \A h \in Handlers : h > fired => pc[h] = "off"
EventsArePast == \A h \in 1..fired : evConn[h] <= conn
StartUnreported == \A p \in Procs :
  pc[p] = "start" => \A h \in 1..fired : evConn[h] # conn
ReaderUnreported == \A k \in Conns :
  Reading(k) /\ ~disconnectOnce => \A h \in 1..fired : evConn[h] # k

Owned == Exclusive /\ Headroom /\ NoLoopBetween /\ HandlersStarted
Closes == DonesMade /\ ClosableWhenOpen /\ PhaseMarks /\ LoopsHaveOwner

\* closeOnce stands for a done that cannot be closed again, and is fresh when
\* a new one is made.
OnceSpent == closeOnce => ~Closable
NewDoneIsOpen == \A p \in Procs :
  pc[p] \in ConnectPcs \cup {"recLogout"} => ~closeOnce

\* A client that is not connected has no done to close, and a closeOnce that
\* would let the next call close it: a misused call is stopped at its close.
Unguarded == ~closeOnce /\ ~Closable
Spent ==
  phase \in {"fresh", "closed"} /\ (\A p \in Procs : pc[p] \notin DisconnectPcs) => Unguarded
Misuse ==
  phase = "misused" => panicked \/
    (Unguarded /\ \E p \in Procs : pc[p] \in {"discClose", "recClose"})
PanicsMisused == panicked => phase = "misused"

Panics == OnceSpent /\ NewDoneIsOpen /\ Spent /\ Misuse /\ PanicsMisused
Reports == EventsArePast /\ StartUnreported /\ ReaderUnreported /\ OneEventPerConnection

Core == Owned /\ Closes /\ Reports /\ LoopsAreCurrent /\ Panics

IInv == TypeOK /\ GrantInHand /\ Core

-----------------------------------------------------------------------------
(* Types.                                                                  *)

\* Facts about the process names that every proof below relies on.
LEMMA ProcFacts ==
  /\ Main \in Procs /\ Handlers \subseteq Procs /\ Free \notin Procs
  /\ \A h \in Handlers : h # Main
  /\ Free \in Int /\ Procs \subseteq Nat
BY BoundsAssumption DEF Main, Procs, Handlers, Free

\* The next stage of a teardown, stage by stage.
LEMMA TeardownFacts ==
  /\ Teardown["discClose"] = "discShut" /\ Teardown["discShut"] = "discWait"
  /\ Teardown["discWait"] = "discReset"
  /\ Teardown["recClose"] = "recShut" /\ Teardown["recShut"] = "recWait"
  /\ Teardown["recWait"] = "recReset"
BY DEF Teardown

\* A group of variables that a step leaves alone keeps its types.
LEMMA FrameType ==
  /\ ClientType /\ UNCHANGED client => ClientType'
  /\ LoopType /\ UNCHANGED loops => LoopType'
  /\ AppType /\ UNCHANGED app => AppType'
  /\ NetType /\ UNCHANGED net => NetType'
  /\ EventType /\ UNCHANGED events => EventType'
<1>1. ClientType /\ UNCHANGED client => ClientType' BY DEF ClientType, client
<1>2. LoopType /\ UNCHANGED loops => LoopType' BY DEF LoopType, loops
<1>3. AppType /\ UNCHANGED app => AppType' BY DEF AppType, app
<1>4. NetType /\ UNCHANGED net => NetType' BY DEF NetType, net
<1>5. EventType /\ UNCHANGED events => EventType' BY DEF EventType, events
<1> QED BY <1>1, <1>2, <1>3, <1>4, <1>5

\* The variables have their types at first.
LEMMA InitType == Init => TypeOK
<1> SUFFICES ASSUME Init PROVE TypeOK
  OBVIOUS
<1> USE BoundsAssumption, ProcFacts DEF Conns, Dones, Beats
<1>1. ClientType
  <2>1. conn \in 0..MaxConns /\ done \in 0..MaxDones /\ closed \subseteq Dones /\ sess \in 0..MaxConns
    BY DEF Init
  <2>2. /\ closeOnce \in BOOLEAN /\ disconnectOnce \in BOOLEAN
        /\ loggedIn \in BOOLEAN /\ panicked \in BOOLEAN
    BY DEF Init
  <2> QED BY <2>1, <2>2 DEF ClientType
<1>2. LoopType BY DEF Init, LoopType
<1>3. AppType
  <2>1. pc \in [Procs -> PcStates] BY DEF Init, PcStates
  <2>2. got \in [Procs -> -1..MaxConns] BY DEF Init
  <2> QED BY <2>1, <2>2 DEF Init, AppType, Phases
<1>4. NetType BY DEF Init, NetType
<1>5. EventType BY DEF Init, EventType
<1> QED BY <1>1, <1>2, <1>3, <1>4, <1>5 DEF TypeOK

\* c.closeOnce.Do(close(done)): afterwards closeOnce is set, and nothing
\* panics if closeOnce was set before or done could be closed.
LEMMA CloseDoneFacts ==
  ASSUME ClientType, CloseDone
  PROVE  /\ closed' \subseteq Dones
         /\ closeOnce' = TRUE /\ panicked' \in BOOLEAN
         /\ closed' \in {closed, closed \cup {done}}
         /\ (closeOnce \/ Closable) /\ ~panicked => ~panicked'
<1>1. CASE closeOnce BY <1>1 DEF ClientType, CloseDone
<1>2. CASE ~closeOnce
  <2>1. closeOnce' = TRUE /\ panicked' = ~Closable BY <1>2 DEF CloseDone
  <2>2. closed' = IF Closable THEN closed \cup {done} ELSE closed BY <1>2 DEF CloseDone
  <2>3. Closable => done \in Dones BY BoundsAssumption DEF Closable, ClientType, Dones
  <2>4. closed' \subseteq Dones BY <2>2, <2>3 DEF ClientType
  <2>5. panicked' \in BOOLEAN BY <2>1
  <2> QED BY <1>2, <2>1, <2>2, <2>4, <2>5
<1> QED BY <1>1, <1>2

\* Once closeOnce is set, done cannot be closed a second time.
LEMMA CloseDoneSpends ==
  ASSUME OnceSpent, CloseDone, UNCHANGED done
  PROVE  OnceSpent'
<1>1. CASE closeOnce BY <1>1 DEF CloseDone, OnceSpent, Closable
<1>2. CASE ~closeOnce
  <2>1. closed' = IF Closable THEN closed \cup {done} ELSE closed BY <1>2 DEF CloseDone
  <2> QED BY <2>1 DEF OnceSpent, Closable
<1> QED BY <1>1, <1>2

\* fireDisconnect: afterwards disconnectOnce is set; an OnDisconnect
\* goroutine has been started at most if it was not set before.
LEMMA FireDisconnectFacts ==
  ASSUME NEW k \in Conns, ClientType, AppType, EventType, FireDisconnect(k)
  PROVE  /\ disconnectOnce' = TRUE /\ loggedIn' \in BOOLEAN /\ EventType'
         /\ \/ UNCHANGED <<pc, fired, evConn>>
            \/ /\ ~disconnectOnce
               /\ fired + 1 \in Handlers /\ fired' = fired + 1
               /\ evConn' = [evConn EXCEPT ![fired + 1] = k]
               /\ pc' = [pc EXCEPT ![fired + 1] = "wake"]
<1>1. CASE disconnectOnce
  <2>1. UNCHANGED <<disconnectOnce, loggedIn, pc, fired, evConn>>
    BY <1>1 DEF FireDisconnect, OnceTaken
  <2> QED BY <1>1, <2>1 DEF ClientType, EventType
<1>2. CASE ~disconnectOnce
  <2>1. disconnectOnce' = TRUE /\ loggedIn' = FALSE
    BY <1>2 DEF FireDisconnect, OnceTaken
  <2>2. CASE ~HasHandler
    <3>1. UNCHANGED <<pc, fired, evConn>> BY <1>2, <2>2 DEF FireDisconnect, OnceTaken
    <3> QED BY <1>2, <2>1, <3>1 DEF EventType
  <2>3. CASE HasHandler
    <3>1. /\ fired < MaxEvents /\ fired' = fired + 1
          /\ evConn' = [evConn EXCEPT ![fired + 1] = k]
          /\ pc' = [pc EXCEPT ![fired + 1] = "wake"]
      BY <1>2, <2>3 DEF FireDisconnect, OnceTaken
    <3>2. fired + 1 \in Handlers
      BY <3>1, BoundsAssumption DEF EventType, Handlers
    <3>3. fired' \in 0..MaxEvents
      BY <3>1, BoundsAssumption DEF EventType
    <3>4. evConn' \in [Handlers -> 0..MaxConns]
      <4>1. k \in 0..MaxConns BY BoundsAssumption DEF Conns
      <4>2. evConn \in [Handlers -> 0..MaxConns] BY DEF EventType
      <4> QED BY <3>1, <4>1, <4>2
    <3> QED BY <1>2, <2>1, <3>1, <3>2, <3>3, <3>4 DEF EventType
  <2> QED BY <2>2, <2>3
<1> QED BY <1>1, <1>2

\* The variables keep their types, operation by operation.
LEMMA NextType == IInv /\ [Next]_vars => TypeOK'
<1> SUFFICES ASSUME IInv, [Next]_vars PROVE TypeOK'
  OBVIOUS
<1> USE BoundsAssumption, ProcFacts DEF PcStates, ConnectPcs, DisconnectPcs, ReconnectPcs,
     LoginPcs, Conns, Dones, Beats, Handlers
<1>0. /\ ClientType /\ LoopType /\ AppType /\ NetType /\ EventType
      /\ GrantInHand /\ Headroom
  BY DEF IInv, TypeOK, Core, Owned
<1>1. ASSUME NEW p \in Procs, Begins(p) PROVE TypeOK'
  <2>1. CASE ConnectBegin(p)
    <3>1. AppType' BY <1>0, <2>1 DEF AppType, ConnectBegin, Acquire, Goto
    <3>2. UNCHANGED <<client, loops, net, events>> BY <2>1 DEF ConnectBegin, client, loops, net, events
    <3> QED BY <1>0, FrameType, <3>1, <3>2 DEF TypeOK
  <2>2. CASE DisconnectBegin(p)
    <3>1. ClientType' BY <1>0, <2>2 DEF ClientType, DisconnectBegin, ClearLogin
    <3>2. AppType' BY <1>0, <2>2 DEF AppType, DisconnectBegin, Acquire, Goto, Turns, Phases
    <3>3. UNCHANGED <<loops, net, events>> BY <2>2 DEF DisconnectBegin, loops, net, events
    <3> QED BY <1>0, FrameType, <3>1, <3>2, <3>3 DEF TypeOK
  <2>3. CASE ReconnectBegin(p)
    <3>1. AppType' BY <1>0, <2>3 DEF AppType, ReconnectBegin, Acquire, Goto, Turns, Phases
    <3>2. UNCHANGED <<client, loops, net, events>> BY <2>3 DEF ReconnectBegin, client, loops, net, events
    <3> QED BY <1>0, FrameType, <3>1, <3>2 DEF TypeOK
  <2>4. CASE LoginBegin(p)
    <3>1. AppType' BY <1>0, <2>4 DEF AppType, LoginBegin, Acquire, Goto
    <3>2. UNCHANGED <<client, loops, net, events>> BY <2>4 DEF LoginBegin, client, loops, net, events
    <3> QED BY <1>0, FrameType, <3>1, <3>2 DEF TypeOK
  <2>5. CASE LoginRefused(p)
    <3>1. AppType' BY <1>0, <2>5 DEF AppType, LoginRefused, Goto
    <3>2. UNCHANGED <<client, loops, net, events>> BY <2>5 DEF LoginRefused, client, loops, net, events
    <3> QED BY <1>0, FrameType, <3>1, <3>2 DEF TypeOK
  <2>7. CASE LoginPanics(p)
    <3>1. (ClientType /\ AppType)' BY <1>0, <2>7 DEF ClientType, AppType, LoginPanics, Phases
    <3>2. UNCHANGED <<loops, net, events>> BY <2>7 DEF LoginPanics, loops, net, events
    <3> QED BY <1>0, FrameType, <3>1, <3>2 DEF TypeOK
  <2>6. CASE HandlerQuits(p)
    <3>1. AppType' BY <1>0, <2>6 DEF AppType, HandlerQuits, Goto
    <3>2. UNCHANGED <<client, loops, net, events>> BY <2>6 DEF HandlerQuits, client, loops, net, events
    <3> QED BY <1>0, FrameType, <3>1, <3>2 DEF TypeOK
  <2> QED BY <1>1, <2>1, <2>2, <2>3, <2>4, <2>5, <2>6, <2>7 DEF Begins
<1>2. ASSUME NEW p \in Procs, DialFails(p) \/ DialWorks(p) \/ StartReadLoop(p) PROVE TypeOK'
  <2>1. CASE DialFails(p)
    <3>1. AppType' BY <1>0, <2>1 DEF AppType, DialFails, Return, Goto
    <3>2. UNCHANGED <<client, loops, net, events>> BY <2>1 DEF DialFails, client, loops, net, events
    <3> QED BY <1>0, FrameType, <3>1, <3>2 DEF TypeOK
  <2>2. CASE DialWorks(p)
    <3>1. ClientType' BY <1>0, <2>2 DEF ClientType, DialWorks, Headroom
    <3>2. AppType' BY <1>0, <2>2 DEF AppType, DialWorks, Goto
    <3>3. NetType' BY <1>0, <2>2 DEF NetType, DialWorks, ClientType
    <3>4. UNCHANGED <<loops, events>> BY <2>2 DEF DialWorks, loops, events
    <3> QED BY <1>0, FrameType, <3>1, <3>2, <3>3, <3>4 DEF TypeOK
  <2>3. CASE StartReadLoop(p)
    <3>1. ClientType' BY <1>0, <2>3 DEF ClientType, StartReadLoop, Headroom
    <3>2. LoopType' BY <1>0, <2>3 DEF LoopType, StartReadLoop
    <3>3. AppType' BY <1>0, <2>3 DEF AppType, StartReadLoop, Return, Goto, Phases
    <3>4. UNCHANGED <<net, events>> BY <2>3 DEF StartReadLoop, net, events
    <3> QED BY <1>0, FrameType, <3>1, <3>2, <3>3, <3>4 DEF TypeOK
  <2> QED BY <1>2, <2>1, <2>2, <2>3
<1>3. ASSUME NEW p \in Procs, TeardownClose(p) \/ TeardownShut(p) \/ TeardownWait(p) PROVE TypeOK'
  <2>1. CASE TeardownClose(p)
    <3>1. ClientType' BY <1>0, <2>1, TeardownFacts, CloseDoneFacts DEF ClientType, TeardownClose
    <3>2. AppType' BY <1>0, <2>1, TeardownFacts, CloseDoneFacts DEF AppType, TeardownClose, Goto
    <3>3. UNCHANGED <<loops, net, events>> BY <2>1 DEF TeardownClose, loops, net, events
    <3> QED BY <1>0, FrameType, <3>1, <3>2, <3>3 DEF TypeOK
  <2>2. CASE TeardownShut(p)
    <3>1. AppType' BY <1>0, <2>2, TeardownFacts DEF AppType, TeardownShut, Goto
    <3>2. NetType' BY <1>0, <2>2, TeardownFacts DEF NetType, TeardownShut, ShutOf
    <3>3. UNCHANGED <<client, loops, events>> BY <2>2 DEF TeardownShut, client, loops, events
    <3> QED BY <1>0, FrameType, <3>1, <3>2, <3>3 DEF TypeOK
  <2>3. CASE TeardownWait(p)
    <3>1. AppType' BY <1>0, <2>3, TeardownFacts DEF AppType, TeardownWait, Goto
    <3>2. UNCHANGED <<client, loops, net, events>> BY <2>3 DEF TeardownWait, client, loops, net, events
    <3> QED BY <1>0, FrameType, <3>1, <3>2 DEF TypeOK
  <2> QED BY <1>3, <2>1, <2>2, <2>3
<1>4. ASSUME NEW p \in Procs, DisconnectReset(p) \/ ReconnectReset(p) \/ ReconnectLogout(p)
      PROVE TypeOK'
  <2>1. CASE DisconnectReset(p)
    <3>1. ClientType' BY <1>0, <2>1 DEF ClientType, DisconnectReset, ResetOnces
    <3>2. AppType' BY <1>0, <2>1 DEF AppType, DisconnectReset, Return, Goto
    <3>3. UNCHANGED <<loops, net, events>> BY <2>1 DEF DisconnectReset, loops, net, events
    <3> QED BY <1>0, FrameType, <3>1, <3>2, <3>3 DEF TypeOK
  <2>2. CASE ReconnectReset(p)
    <3>1. ClientType'
      <4>1. (conn \in 0..MaxConns /\ done \in 0..MaxDones /\ closed \subseteq Dones /\ sess \in 0..MaxConns)'
        BY <1>0, <2>2 DEF ClientType, ReconnectReset, Headroom, ResetOnces, NewDone
      <4>2. (closeOnce \in BOOLEAN /\ disconnectOnce \in BOOLEAN)'
        BY <1>0, <2>2 DEF ClientType, ReconnectReset, Headroom, ResetOnces, NewDone
      <4>3. (loggedIn \in BOOLEAN /\ panicked \in BOOLEAN)'
        BY <1>0, <2>2 DEF ClientType, ReconnectReset, Headroom, ResetOnces, NewDone
      <4> QED BY <4>1, <4>2, <4>3 DEF ClientType
    <3>2. AppType' BY <1>0, <2>2 DEF AppType, ReconnectReset, Goto
    <3>3. UNCHANGED <<loops, net, events>> BY <2>2 DEF ReconnectReset, loops, net, events
    <3> QED BY <1>0, FrameType, <3>1, <3>2, <3>3 DEF TypeOK
  <2>3. CASE ReconnectLogout(p)
    <3>1. ClientType' BY <1>0, <2>3 DEF ClientType, ReconnectLogout, ClearLogin
    <3>2. AppType' BY <1>0, <2>3 DEF AppType, ReconnectLogout, Goto
    <3>3. UNCHANGED <<loops, net, events>> BY <2>3 DEF ReconnectLogout, loops, net, events
    <3> QED BY <1>0, FrameType, <3>1, <3>2, <3>3 DEF TypeOK
  <2> QED BY <1>4, <2>1, <2>2, <2>3
<1>5. ASSUME NEW p \in Procs,
             \/ SendLogon(p) \/ SendLogonFails(p) \/ AwaitEnter(p) \/ AwaitAccepted(p)
             \/ AwaitDenied(p) \/ AwaitDropped(p) \/ AwaitExpired(p)
      PROVE TypeOK'
  <2>1. CASE SendLogon(p)
    <3>1. AppType' BY <1>0, <2>1 DEF AppType, SendLogon, Goto
    <3>2. NetType' BY <1>0, <2>1 DEF NetType, SendLogon
    <3>3. UNCHANGED <<client, loops, events>> BY <2>1 DEF SendLogon, client, loops, events
    <3> QED BY <1>0, FrameType, <3>1, <3>2, <3>3 DEF TypeOK
  <2>2. CASE SendLogonFails(p)
    <3>1. AppType' BY <1>0, <2>2 DEF AppType, SendLogonFails, Return, Goto
    <3>2. UNCHANGED <<client, loops, net, events>> BY <2>2 DEF SendLogonFails, client, loops, net, events
    <3> QED BY <1>0, FrameType, <3>1, <3>2 DEF TypeOK
  <2>3. CASE AwaitEnter(p)
    <3>1. AppType' BY <1>0, <2>3 DEF AppType, AwaitEnter, ClientType, Goto
    <3>2. UNCHANGED <<client, loops, net, events>> BY <2>3 DEF AwaitEnter, client, loops, net, events
    <3> QED BY <1>0, FrameType, <3>1, <3>2 DEF TypeOK
  <2>4. CASE AwaitAccepted(p)
    <3>1. AppType' BY <1>0, <2>4 DEF AppType, AwaitAccepted, Goto
    <3>2. UNCHANGED <<client, loops, net, events>> BY <2>4 DEF AwaitAccepted, client, loops, net, events
    <3> QED BY <1>0, FrameType, <3>1, <3>2 DEF TypeOK
  <2>5. CASE LoginFails(p)
    <3>1. AppType' BY <1>0, <2>5 DEF AppType, LoginFails, Return, Goto
    <3>2. UNCHANGED <<client, loops, net, events>> BY <2>5 DEF LoginFails, client, loops, net, events
    <3> QED BY <1>0, FrameType, <3>1, <3>2 DEF TypeOK
  <2> QED BY <1>5, <2>1, <2>2, <2>3, <2>4, <2>5 DEF AwaitDenied, AwaitDropped, AwaitExpired
<1>6. ASSUME NEW p \in Procs, PublishSession(p) \/ StartHeartbeat(p) PROVE TypeOK'
  <2>1. CASE PublishSession(p)
    <3>1. ClientType' BY <1>0, <2>1 DEF ClientType, PublishSession, AppType, GrantInHand
    <3>2. AppType' BY <1>0, <2>1 DEF AppType, PublishSession, Goto
    <3>3. UNCHANGED <<loops, net, events>> BY <2>1 DEF PublishSession, loops, net, events
    <3> QED BY <1>0, FrameType, <3>1, <3>2, <3>3 DEF TypeOK
  <2>2. CASE StartHeartbeat(p)
    <3>1. LoopType' BY <1>0, <2>2 DEF LoopType, StartHeartbeat
    <3>2. AppType' BY <1>0, <2>2 DEF AppType, StartHeartbeat, Return, Goto, Phases
    <3>3. UNCHANGED <<client, net, events>> BY <2>2 DEF StartHeartbeat, client, net, events
    <3> QED BY <1>0, FrameType, <3>1, <3>2, <3>3 DEF TypeOK
  <2> QED BY <1>6, <2>1, <2>2
<1>7. ASSUME NEW i \in Beats, Beat(i) PROVE TypeOK'
  <2>1. CASE BeatEnter(i)
    <3>1. LoopType' BY <1>0, <2>1 DEF LoopType, BeatEnter, ClientType
    <3>2. UNCHANGED <<client, app, net, events>> BY <2>1 DEF BeatEnter, client, app, net, events
    <3> QED BY <1>0, FrameType, <3>1, <3>2 DEF TypeOK
  <2>2. CASE BeatStops(i)
    <3>1. LoopType' BY <1>0, <2>2 DEF LoopType, BeatStops
    <3>2. UNCHANGED <<client, app, net, events>> BY <2>2 DEF BeatStops, client, app, net, events
    <3> QED BY <1>0, FrameType, <3>1, <3>2 DEF TypeOK
  <2>3. CASE BeatSends(i)
    <3>1. LoopType' BY <1>0, <2>3 DEF LoopType, BeatSends
    <3>2. UNCHANGED <<client, app, net, events>> BY <2>3 DEF BeatSends, client, app, net, events
    <3> QED BY <1>0, FrameType, <3>1, <3>2 DEF TypeOK
  <2>4. CASE BeatFails(i)
    <3>1. LoopType' BY <1>0, <2>4 DEF LoopType, BeatFails, ClientType
    <3>2. UNCHANGED <<client, app, net, events>> BY <2>4 DEF BeatFails, client, app, net, events
    <3> QED BY <1>0, FrameType, <3>1, <3>2 DEF TypeOK
  <2>5. CASE BeatShuts(i)
    <3>1. LoopType' BY <1>0, <2>5 DEF LoopType, BeatShuts
    <3>2. NetType' BY <1>0, <2>5 DEF NetType, BeatShuts, ShutOf
    <3>3. UNCHANGED <<client, app, events>> BY <2>5 DEF BeatShuts, client, app, events
    <3> QED BY <1>0, FrameType, <3>1, <3>2, <3>3 DEF TypeOK
  <2> QED BY <1>7, <2>1, <2>2, <2>3, <2>4, <2>5 DEF Beat
<1>8. ASSUME NEW k \in Conns, Unwinds(k) PROVE TypeOK'
  <2>1. CASE LoggedOffClose(k)
    <3>1. ClientType' BY <1>0, <2>1, CloseDoneFacts DEF ClientType, LoggedOffClose
    <3>2. LoopType' BY <1>0, <2>1, CloseDoneFacts DEF LoopType, LoggedOffClose
    <3>3. UNCHANGED <<app, net, events>> BY <2>1 DEF LoggedOffClose, app, net, events
    <3> QED BY <1>0, FrameType, <3>1, <3>2, <3>3 DEF TypeOK
  <2>2. CASE LoggedOffShut(k)
    <3>1. LoopType' BY <1>0, <2>2 DEF LoopType, LoggedOffShut
    <3>2. NetType' BY <1>0, <2>2 DEF NetType, LoggedOffShut, ShutOf
    <3>3. UNCHANGED <<client, app, events>> BY <2>2 DEF LoggedOffShut, client, app, events
    <3> QED BY <1>0, FrameType, <3>1, <3>2, <3>3 DEF TypeOK
  <2>3. CASE ReadFails(k)
    <3>1. LoopType' BY <1>0, <2>3 DEF LoopType, ReadFails
    <3>2. UNCHANGED <<client, app, net, events>> BY <2>3 DEF ReadFails, client, app, net, events
    <3> QED BY <1>0, FrameType, <3>1, <3>2 DEF TypeOK
  <2>4. CASE CheckDone(k)
    <3>1. LoopType' BY <1>0, <2>4 DEF LoopType, CheckDone
    <3>2. UNCHANGED <<client, app, net, events>> BY <2>4 DEF CheckDone, client, app, net, events
    <3> QED BY <1>0, FrameType, <3>1, <3>2 DEF TypeOK
  <2>5. CASE ReportDrop(k)
    <3>1. ClientType' BY <1>0, <2>5, FireDisconnectFacts DEF ClientType, ReportDrop
    <3>2. LoopType' BY <1>0, <2>5, FireDisconnectFacts DEF LoopType, ReportDrop
    <3>3. AppType' BY <1>0, <2>5, FireDisconnectFacts DEF AppType, ReportDrop, EventType
    <3>4. NetType' BY <1>0, <2>5, FireDisconnectFacts DEF NetType, ReportDrop, net
    <3>5. EventType' BY <1>0, <2>5, FireDisconnectFacts DEF ReportDrop
    <3> QED BY <1>0, FrameType, <3>1, <3>2, <3>3, <3>4, <3>5 DEF TypeOK
  <2> QED BY <1>8, <2>1, <2>2, <2>3, <2>4, <2>5 DEF Unwinds
<1>9. ASSUME NEW k \in Conns, Serves(k) PROVE TypeOK'
  <2>1. CASE \E verdict \in {-1, k} : ReadLogonResponse(k, verdict)
    <3>1. AppType' BY <1>0, <2>1 DEF AppType, ReadLogonResponse
    <3>2. NetType' BY <1>0, <2>1 DEF NetType, ReadLogonResponse
    <3>3. UNCHANGED <<client, loops, events>> BY <2>1 DEF ReadLogonResponse, client, loops, events
    <3> QED BY <1>0, FrameType, <3>1, <3>2, <3>3 DEF TypeOK
  <2>2. CASE ReadLoggedOff(k)
    <3>1. ClientType' BY <1>0, <2>2, FireDisconnectFacts DEF ClientType, ReadLoggedOff
    <3>2. LoopType' BY <1>0, <2>2, FireDisconnectFacts DEF LoopType, ReadLoggedOff
    <3>3. AppType' BY <1>0, <2>2, FireDisconnectFacts DEF AppType, ReadLoggedOff, EventType
    <3>4. NetType' BY <1>0, <2>2, FireDisconnectFacts DEF NetType, ReadLoggedOff
    <3>5. EventType' BY <1>0, <2>2, FireDisconnectFacts DEF ReadLoggedOff
    <3> QED BY <1>0, FrameType, <3>1, <3>2, <3>3, <3>4, <3>5 DEF TypeOK
  <2>3. CASE Breaks(k)
    <3>1. NetType' BY <1>0, <2>3 DEF NetType, Breaks
    <3>2. UNCHANGED <<client, loops, app, events>> BY <2>3 DEF Breaks, client, loops, app, events
    <3> QED BY <1>0, FrameType, <3>1, <3>2 DEF TypeOK
  <2>4. CASE Stalls(k)
    <3>1. NetType' BY <1>0, <2>4 DEF NetType, Stalls
    <3>2. UNCHANGED <<client, loops, app, events>> BY <2>4 DEF Stalls, client, loops, app, events
    <3> QED BY <1>0, FrameType, <3>1, <3>2 DEF TypeOK
  <2> QED BY <1>9, <2>1, <2>2, <2>3, <2>4 DEF Serves
<1>10. CASE UNCHANGED vars
  BY <1>0, <1>10, FrameType DEF TypeOK, vars
<1> QED
  BY <1>1, <1>2, <1>3, <1>4, <1>5, <1>6, <1>7, <1>8, <1>9, <1>10 DEF Next, Proceeds

-----------------------------------------------------------------------------
(* What Login may publish.                                                 *)

\* Only AwaitAccepted leads to the publishing step, and nothing takes the
\* acceptance back before it is published.
LEMMA NextGrant == IInv /\ [Next]_vars => GrantInHand'
<1> SUFFICES ASSUME IInv, [Next]_vars PROVE GrantInHand'
  OBVIOUS
<1>0. ClientType /\ AppType /\ EventType /\ GrantInHand BY DEF IInv, TypeOK
<1>1. ASSUME NEW p \in Procs, NEW l, l # "set", pc' = [pc EXCEPT ![p] = l],
             \A q \in Procs : q # p => got'[q] = got[q]
      PROVE  GrantInHand'
  BY <1>0, <1>1 DEF GrantInHand, AppType
<1>2. ASSUME UNCHANGED <<pc, got>> PROVE GrantInHand'
  BY <1>0, <1>2 DEF GrantInHand
<1>3. ASSUME NEW p \in Procs, Begins(p) PROVE GrantInHand'
  <2>3. CASE LoginPanics(p) BY <1>2, <2>3 DEF LoginPanics
  <2> SUFFICES ASSUME ~LoginPanics(p) PROVE GrantInHand' BY <2>3
  <2>1. \E l \in {"dial", "discClose", "recClose", "logon", "idle", "end"} :
          pc' = [pc EXCEPT ![p] = l]
    BY <1>3 DEF Begins, ConnectBegin, DisconnectBegin, ReconnectBegin, LoginBegin,
                LoginRefused, HandlerQuits, Goto
  <2>2. \A q \in Procs : q # p => got'[q] = got[q]
    BY <1>0, <1>3 DEF Begins, ConnectBegin, DisconnectBegin, ReconnectBegin, LoginBegin,
                LoginRefused, HandlerQuits, AppType
  <2> QED BY <1>1, <2>1, <2>2
<1>4. ASSUME NEW p \in Procs,
             \/ DialFails(p) \/ DialWorks(p) \/ StartReadLoop(p) \/ DisconnectReset(p)
             \/ ReconnectReset(p) \/ ReconnectLogout(p)
      PROVE GrantInHand'
  <2>1. \E l \in {"idle", "wake", "start", "linked", "end", "recLogout", "dial"} :
          pc' = [pc EXCEPT ![p] = l]
    BY <1>4 DEF DialFails, DialWorks, StartReadLoop, DisconnectReset, ReconnectReset,
                ReconnectLogout, Return, Goto
  <2>2. UNCHANGED got
    BY <1>4 DEF DialFails, DialWorks, StartReadLoop, DisconnectReset, ReconnectReset,
                ReconnectLogout
  <2> QED BY <1>1, <2>1, <2>2
<1>5. ASSUME NEW p \in Procs, TeardownClose(p) \/ TeardownShut(p) \/ TeardownWait(p)
      PROVE GrantInHand'
  <2>1. Teardown[pc[p]] # "set" /\ pc' = [pc EXCEPT ![p] = Teardown[pc[p]]]
    BY <1>5, TeardownFacts DEF TeardownClose, TeardownShut, TeardownWait, Goto
  <2>2. UNCHANGED got BY <1>5 DEF TeardownClose, TeardownShut, TeardownWait
  <2> QED BY <1>1, <2>1, <2>2
<1>6. ASSUME NEW p \in Procs,
             \/ SendLogon(p) \/ SendLogonFails(p) \/ AwaitEnter(p) \/ LoginFails(p)
             \/ PublishSession(p) \/ StartHeartbeat(p)
      PROVE GrantInHand'
  <2>1. \E l \in {"select", "idle", "end", "await", "beat"} : pc' = [pc EXCEPT ![p] = l]
    BY <1>6 DEF SendLogon, SendLogonFails, AwaitEnter, LoginFails, PublishSession,
                StartHeartbeat, Return, Goto
  <2>2. \A q \in Procs : q # p => got'[q] = got[q]
    BY <1>0, <1>6 DEF SendLogon, SendLogonFails, AwaitEnter, LoginFails, PublishSession,
                StartHeartbeat, AppType
  <2> QED BY <1>1, <2>1, <2>2
<1>7. ASSUME NEW p \in Procs, AwaitAccepted(p) PROVE GrantInHand'
  BY <1>0, <1>7 DEF AwaitAccepted, Granted, Goto, GrantInHand, AppType
<1>8. ASSUME NEW i \in Beats, Beat(i) PROVE GrantInHand'
  <2>1. UNCHANGED app
    BY <1>8 DEF Beat, BeatEnter, BeatStops, BeatSends, BeatFails, BeatShuts
  <2> QED BY <1>2, <2>1 DEF app
<1>9. ASSUME NEW k \in Conns, ReportDrop(k) \/ ReadLoggedOff(k) PROVE GrantInHand'
  <2>1. FireDisconnect(k) /\ UNCHANGED got BY <1>9 DEF ReportDrop, ReadLoggedOff
  <2>2. fired + 1 \in Handlers => fired + 1 \in Procs BY ProcFacts
  <2> QED BY <1>0, <1>1, <1>2, <2>1, <2>2, FireDisconnectFacts
<1>10. ASSUME NEW k \in Conns,
              LoggedOffClose(k) \/ LoggedOffShut(k) \/ ReadFails(k) \/ CheckDone(k)
       PROVE GrantInHand'
  <2>1. UNCHANGED app
    BY <1>10 DEF LoggedOffClose, LoggedOffShut, ReadFails, CheckDone
  <2> QED BY <1>2, <2>1 DEF app
<1>11. ASSUME NEW k \in Conns, NEW verdict \in {-1, k}, ReadLogonResponse(k, verdict)
       PROVE GrantInHand'
  BY <1>0, <1>11 DEF ReadLogonResponse, GrantInHand, AppType
<1>12. ASSUME NEW k \in Conns, Breaks(k) \/ Stalls(k) PROVE GrantInHand'
  BY <1>2, <1>12 DEF Breaks, Stalls, app
<1>13. CASE UNCHANGED vars BY <1>2, <1>13 DEF vars, app
<1> QED
  BY <1>3, <1>4, <1>5, <1>6, <1>7, <1>8, <1>9, <1>10, <1>11, <1>12, <1>13
  DEF Next, Proceeds, Unwinds, Serves, AwaitDenied, AwaitDropped, AwaitExpired

-----------------------------------------------------------------------------
(* The steps that open and close nothing.                                  *)

\* A step that leaves done, its closing and every operation that tears down
\* or connects as they are.
LEMMA PanicsFrame ==
  ASSUME Panics, UNCHANGED <<done, closed, closeOnce, panicked>>,
         phase' = phase \/ (phase \in Live /\ phase' \in Live),
         \A q \in Procs : pc[q] \in Critical \/ pc'[q] \in Critical => pc'[q] = pc[q]
  PROVE  Panics'
<1>1. (OnceSpent /\ NewDoneIsOpen)'
  BY DEF Panics, OnceSpent, Closable, NewDoneIsOpen, Critical, ReconnectPcs
<1>2. Spent'
  BY DEF Panics, Spent, Unguarded, Closable, Critical, Live
<1>3. (Misuse /\ PanicsMisused)'
  BY DEF Panics, Misuse, PanicsMisused, Unguarded, Closable, Critical, DisconnectPcs,
         ReconnectPcs, Live
<1> QED BY <1>1, <1>2, <1>3 DEF Panics

\* A step of a goroutine that is, and stays, outside Connect, Disconnect and
\* Reconnect keeps the invariant.
LEMMA AsideStep ==
  ASSUME IInv, NEW p \in Procs, NEW l \in PcStates,
         pc[p] \notin Critical, pc[p] # "off", l \notin Critical,
         pc' = [pc EXCEPT ![p] = l],
         lock' = lock \/ lock = p \/ lock = Free,
         phase' = phase \/ (phase \in Live /\ phase' \in Live),
         UNCHANGED <<conn, done, closed, closeOnce, disconnectOnce, panicked,
                     rl, fired, evConn>>
  PROVE  Core'
<1>0. AppType /\ Core BY DEF IInv, TypeOK
<1>1. \A q \in Procs : pc'[q] = pc[q] \/ (q = p /\ pc'[q] = l)
  BY <1>0 DEF AppType
<1>2. \A q \in Procs : pc'[q] \in Critical => pc[q] = pc'[q]
  BY <1>1
<1>3. \A q \in Procs : pc[q] \in Critical => pc'[q] = pc[q]
  BY <1>1, <1>0 DEF AppType
<1>4. Exclusive'
  BY <1>0, <1>2, ProcFacts DEF Core, Owned, Exclusive
<1>5. (Headroom /\ NoLoopBetween)'
  BY <1>0, <1>2 DEF Core, Owned, Headroom, NoLoopBetween, Reading, Critical, ConnectPcs,
                    DisconnectPcs, ReconnectPcs
<1>6. HandlersStarted'
  BY <1>0, <1>1, ProcFacts DEF Core, Owned, HandlersStarted
<1>7. (DonesMade /\ LoopsAreCurrent)'
  BY <1>0 DEF Core, Closes, DonesMade, LoopsAreCurrent, Reading
<1>8. ClosableWhenOpen'
  BY <1>0, <1>2 DEF Core, Closes, ClosableWhenOpen, Closing, Closable, Critical, DisconnectPcs,
                    Live
<1>9. PhaseMarks'
  BY <1>0, <1>2 DEF Core, Closes, PhaseMarks, Critical, DisconnectPcs, ReconnectPcs, Live
<1>10. LoopsHaveOwner'
  BY <1>0, <1>3 DEF Core, Closes, LoopsHaveOwner, Reading, Critical, DisconnectPcs, Live
<1>11. Reports'
  BY <1>0, <1>2 DEF Core, Reports, EventsArePast, StartUnreported, ReaderUnreported,
                    OneEventPerConnection, Reading, Critical, ConnectPcs
<1>12. Panics' BY <1>0, <1>2, <1>3, PanicsFrame DEF Core
<1> QED
  BY <1>4, <1>5, <1>6, <1>7, <1>8, <1>9, <1>10, <1>11, <1>12 DEF Core, Owned, Closes

\* So does a step of a loop or the network that neither closes nor reports.
LEMMA LoopStep ==
  ASSUME IInv,
         \A k \in Conns : Reading(k)' => Reading(k),
         UNCHANGED <<conn, done, closed, closeOnce, disconnectOnce, panicked,
                     pc, lock, phase, fired, evConn>>
  PROVE  Core'
<1>0. Core BY DEF IInv
<1>1. Owned'
  BY <1>0 DEF Core, Owned, Exclusive, Headroom, NoLoopBetween, HandlersStarted
<1>2. (DonesMade /\ ClosableWhenOpen /\ PhaseMarks)'
  BY <1>0 DEF Core, Closes, DonesMade, ClosableWhenOpen, Closing, Closable, PhaseMarks
<1>3. LoopsHaveOwner' BY <1>0 DEF Core, Closes, LoopsHaveOwner
<1>4. Reports'
  BY <1>0 DEF Core, Reports, EventsArePast, StartUnreported, ReaderUnreported,
              OneEventPerConnection
<1>5. LoopsAreCurrent' BY <1>0 DEF Core, LoopsAreCurrent
<1>6. Panics' BY <1>0, PanicsFrame DEF Core
<1> QED BY <1>1, <1>2, <1>3, <1>4, <1>5, <1>6 DEF Core, Closes

\* A read loop that may close done finds it closable: it runs on a live
\* connection or beside a Disconnect, which closes done before it waits.
\* On a client that is misused there is no read loop.
LEMMA LoopMayClose ==
  ASSUME IInv, NEW k \in Conns, Reading(k)
  PROVE  (closeOnce \/ Closable) /\ phase # "misused"
<1>1. CASE phase \in Live
  BY <1>1 DEF IInv, Core, Closes, ClosableWhenOpen, Closing, Live
<1>2. CASE phase = "closed" /\ \E p \in Procs : pc[p] \in {"discClose", "discShut", "discWait"}
  BY <1>2 DEF IInv, Core, Closes, ClosableWhenOpen, Closing, PhaseMarks
<1> QED BY <1>1, <1>2 DEF IInv, Core, Closes, LoopsHaveOwner

\* The handling of ClientLoggedOff closes done.
LEMMA LoopCloses ==
  ASSUME IInv, ~panicked, NEW k \in Conns, LoggedOffClose(k)
  PROVE  Core'
<1>0. /\ ClientType /\ LoopType /\ Core /\ Reading(k) /\ CloseDone
      /\ UNCHANGED <<conn, done, disconnectOnce, pc, lock, phase, fired, evConn>>
  BY DEF IInv, TypeOK, LoggedOffClose, Reading, app, events
<1>1. closeOnce' /\ ~panicked'
  BY <1>0, CloseDoneFacts, LoopMayClose
<1>2. \A j \in Conns : Reading(j)' => Reading(j)
  BY <1>0 DEF LoggedOffClose, LoopType, Reading
<1>3. Owned'
  BY <1>0, <1>2 DEF Core, Owned, Exclusive, Headroom, NoLoopBetween, HandlersStarted
<1>4. DonesMade'
  <2>1. closed' = closed \/ (closed' = closed \cup {done} /\ Closable)
    BY <1>0 DEF CloseDone
  <2>2. Closable => done \in 1..done BY <1>0 DEF Closable, ClientType
  <2> QED BY <1>0, <2>1, <2>2 DEF Core, Closes, DonesMade
<1>5. (ClosableWhenOpen /\ PhaseMarks)'
  BY <1>0, <1>1 DEF Core, Closes, ClosableWhenOpen, PhaseMarks
<1>6. LoopsHaveOwner' BY <1>0, <1>2 DEF Core, Closes, LoopsHaveOwner
<1>7. Reports'
  BY <1>0, <1>2 DEF Core, Reports, EventsArePast, StartUnreported, ReaderUnreported,
                    OneEventPerConnection
<1>8. LoopsAreCurrent' BY <1>0, <1>2 DEF Core, LoopsAreCurrent
<1>9. Panics'
  <2>1. OnceSpent' BY <1>0, CloseDoneSpends DEF Core, Panics
  <2>2. phase # "misused" /\ (phase \in Live \/ \E q \in Procs : pc[q] \in DisconnectPcs)
    BY <1>0, LoopMayClose DEF Core, Closes, LoopsHaveOwner, DisconnectPcs
  <2>3. NewDoneIsOpen'
    BY <1>0 DEF Core, Owned, NoLoopBetween, NewDoneIsOpen
  <2>4. (Spent /\ Misuse /\ PanicsMisused)'
    BY <1>0, <1>1, <2>2 DEF Spent, Misuse, PanicsMisused, Live
  <2> QED BY <2>1, <2>3, <2>4 DEF Panics
<1> QED BY <1>3, <1>4, <1>5, <1>6, <1>7, <1>8, <1>9 DEF Core, Closes

\* A read loop reports the end of its connection, which is the current one
\* and, disconnectOnce being fresh, was not reported before.
LEMMA LoopReports ==
  ASSUME IInv, NEW k \in Conns, ReportDrop(k) \/ ReadLoggedOff(k) PROVE Core'
<1>0. /\ ClientType /\ LoopType /\ AppType /\ EventType /\ Core
      /\ Reading(k) /\ FireDisconnect(k)
      /\ UNCHANGED <<conn, done, closed, closeOnce, panicked, lock, phase>>
  BY DEF IInv, TypeOK, ReportDrop, ReadLoggedOff, Reading
<1>1. \A j \in Conns : Reading(j)' => Reading(j)
  BY <1>0 DEF ReportDrop, ReadLoggedOff, LoopType, Reading
<1>2. \A j \in Conns : Reading(j) => j = k
  BY <1>0 DEF Core, LoopsAreCurrent
<1>3. k = conn BY <1>0 DEF Core, LoopsAreCurrent
<1>4. CASE UNCHANGED <<pc, fired, evConn>>
  <2>1. Owned'
    BY <1>0, <1>1, <1>4 DEF Core, Owned, Exclusive, Headroom, NoLoopBetween, HandlersStarted
  <2>2. (DonesMade /\ ClosableWhenOpen /\ PhaseMarks)'
    BY <1>0, <1>4 DEF Core, Closes, DonesMade, ClosableWhenOpen, Closing, Closable,
                      PhaseMarks
  <2>3. LoopsHaveOwner' BY <1>0, <1>1, <1>4 DEF Core, Closes, LoopsHaveOwner
  <2>4. disconnectOnce' BY <1>0, FireDisconnectFacts
  <2>5. Reports'
    BY <1>0, <1>4, <2>4 DEF Core, Reports, EventsArePast, StartUnreported, ReaderUnreported,
                      OneEventPerConnection
  <2>6. LoopsAreCurrent' BY <1>0, <1>1 DEF Core, LoopsAreCurrent
  <2>7. Panics' BY <1>0, <1>4, PanicsFrame DEF Core
  <2> QED BY <2>1, <2>2, <2>3, <2>5, <2>6, <2>7 DEF Core, Closes
<1>5. ASSUME ~disconnectOnce, fired + 1 \in Handlers, fired' = fired + 1,
             evConn' = [evConn EXCEPT ![fired + 1] = k],
             pc' = [pc EXCEPT ![fired + 1] = "wake"]
      PROVE  Core'
  <2> DEFINE n == fired + 1
  <2>a. fired \in Nat /\ n \in Nat /\ n > fired BY <1>0 DEF EventType
  <2>b. disconnectOnce' = TRUE BY <1>0, FireDisconnectFacts
  <2>c. pc[n] = "off" BY <1>0, <1>5, <2>a DEF Core, Owned, HandlersStarted
  <2>0. /\ n \in Procs /\ pc[n] = "off" /\ disconnectOnce' = TRUE
        /\ fired \in Nat /\ n \in Nat
    BY <1>5, <2>a, <2>b, <2>c, ProcFacts
  <2>1. \A q \in Procs : pc'[q] = pc[q] \/ (q = n /\ pc[q] = "off" /\ pc'[q] = "wake")
    BY <1>0, <1>5, <2>0 DEF AppType
  <2>2. \A q \in Procs : pc'[q] \in Critical <=> pc[q] \in Critical
    BY <2>1 DEF Critical, ConnectPcs, DisconnectPcs, ReconnectPcs
  <2>3. \A q \in Procs : pc[q] \in Critical \/ pc'[q] \in Critical => pc'[q] = pc[q]
    BY <2>1 DEF Critical, ConnectPcs, DisconnectPcs, ReconnectPcs
  <2>4. (Exclusive /\ Headroom)'
    BY <1>0, <2>3 DEF Core, Owned, Exclusive, Headroom, Critical, ConnectPcs, DisconnectPcs,
                      ReconnectPcs
  <2>5. NoLoopBetween'
    BY <1>0, <1>1, <2>3 DEF Core, Owned, NoLoopBetween, Critical, ConnectPcs, DisconnectPcs,
                      ReconnectPcs
  <2>6. HandlersStarted'
    BY <1>0, <1>5, <2>0, <2>1, ProcFacts DEF Core, Owned, HandlersStarted, Handlers
  <2>7. (DonesMade /\ ClosableWhenOpen /\ PhaseMarks)'
    BY <1>0, <2>3 DEF Core, Closes, DonesMade, ClosableWhenOpen, Closing, Closable,
                      PhaseMarks, Critical, DisconnectPcs, ReconnectPcs
  <2>8. LoopsHaveOwner'
    BY <1>0, <1>1, <2>3 DEF Core, Closes, LoopsHaveOwner, Critical, DisconnectPcs
  <2>9. \A h \in 1..fired' : h \in Handlers /\ (h = n \/ h \in 1..fired)
    BY <1>5, <2>0, BoundsAssumption DEF Handlers
  <2>10. \A h \in 1..fired' : evConn'[h] = IF h = n THEN k ELSE evConn[h]
    BY <1>0, <1>5, <2>9 DEF EventType
  <2>11. \A h \in 1..fired : evConn[h] # k
    BY <1>0, <1>5 DEF Core, Reports, ReaderUnreported
  <2>12. EventsArePast'
    BY <1>0, <1>3, <2>9, <2>10 DEF Core, Reports, EventsArePast, ClientType
  <2>13. StartUnreported'
    BY <1>0, <2>3 DEF Core, Owned, NoLoopBetween, StartUnreported, Critical, ConnectPcs
  <2>14. ReaderUnreported' BY <2>0 DEF ReaderUnreported
  <2>15. OneEventPerConnection'
    BY <1>0, <2>9, <2>10, <2>11 DEF Core, Reports, OneEventPerConnection
  <2>16. LoopsAreCurrent' BY <1>0, <1>1 DEF Core, LoopsAreCurrent
  <2>17. Panics' BY <1>0, <2>3, PanicsFrame DEF Core
  <2> QED
    BY <2>4, <2>5, <2>6, <2>7, <2>8, <2>12, <2>13, <2>14, <2>15, <2>16, <2>17
    DEF Core, Owned, Closes, Reports
<1> QED BY <1>0, <1>4, <1>5, FireDisconnectFacts

-----------------------------------------------------------------------------
(* The steps of Connect, Disconnect and Reconnect.                         *)

\* Two goroutines are never inside them, so such a step leaves the others
\* outside; what remains to be shown is about the goroutine that moves.
LEMMA CriticalStep ==
  ASSUME IInv, NEW p \in Procs, NEW l \in PcStates,
         pc[p] \in Critical \/ lock = Free, pc[p] # "off",
         pc' = [pc EXCEPT ![p] = l],
         l \in Critical => lock' = p,
         UNCHANGED <<fired, evConn>>
  PROVE  /\ \A q \in Procs : pc[q] \in Critical => q = p
         /\ \A q \in Procs : pc'[q] \in Critical => q = p
         /\ pc'[p] = l
         /\ Exclusive' /\ HandlersStarted'
<1>0. AppType /\ Core BY DEF IInv, TypeOK
<1>1. \A q \in Procs : pc[q] \in Critical => q = p
  BY <1>0, ProcFacts DEF Core, Owned, Exclusive
<1>2. pc'[p] = l /\ \A q \in Procs : q # p => pc'[q] = pc[q]
  BY <1>0 DEF AppType
<1>3. \A q \in Procs : pc'[q] \in Critical => q = p BY <1>1, <1>2
<1>4. Exclusive' BY <1>2, <1>3 DEF Exclusive
<1>5. HandlersStarted'
  BY <1>0, <1>2, ProcFacts DEF Core, Owned, HandlersStarted
<1> QED BY <1>1, <1>2, <1>3, <1>4, <1>5

\* No loop reads while nobody is inside and the client is not live.
LEMMA NoneReading ==
  ASSUME IInv, lock = Free \/ (\E p \in Procs : pc[p] \in ConnectPcs), phase \notin Live
  PROVE  \A k \in Conns : ~Reading(k)
<1>0. Core BY DEF IInv
<1>1. CASE lock = Free
  BY <1>0, <1>1, ProcFacts DEF Core, Owned, Exclusive, Closes, LoopsHaveOwner, Critical,
                               DisconnectPcs
<1>2. CASE \E p \in Procs : pc[p] \in ConnectPcs
  BY <1>0, <1>2 DEF Core, Owned, NoLoopBetween
<1> QED BY <1>1, <1>2

\* An operation begins: the mutex was free.
LEMMA BeginsInside ==
  ASSUME IInv, Serialised, ~panicked, NEW p \in Procs,
         ConnectBegin(p) \/ DisconnectBegin(p) \/ ReconnectBegin(p)
  PROVE  Core'
<1>0. /\ ClientType /\ Core /\ lock = Free /\ lock' = p /\ pc[p] # "off"
      /\ UNCHANGED <<conn, done, closed, closeOnce, disconnectOnce, panicked, rl, fired, evConn>>
  BY DEF IInv, TypeOK, Serialised, ConnectBegin, DisconnectBegin, ReconnectBegin, Acquire,
         Calls, client, loops, events
<1>a. /\ \A q \in Procs : pc[q] \notin Critical
      /\ phase \notin Live => Unguarded /\ phase \in {"fresh", "closed"}
  <2>1. \A q \in Procs : pc[q] \notin Critical
    BY <1>0, ProcFacts DEF Core, Owned, Exclusive
  <2>2. phase \in Phases BY DEF IInv, TypeOK, AppType
  <2>3. phase # "misused"
    BY <1>0, <2>1 DEF Core, Panics, Misuse, Critical, DisconnectPcs, ReconnectPcs
  <2> QED BY <1>0, <2>1, <2>2, <2>3 DEF Phases, Live, Core, Panics, Spent, Critical
<1>b. Unguarded => Unguarded' BY <1>0 DEF Unguarded, Closable
<1>c. OnceSpent' /\ PanicsMisused'
  BY <1>0 DEF Core, Panics, OnceSpent, Closable, PanicsMisused
<1>1. CASE ConnectBegin(p)
  <2>1. pc' = [pc EXCEPT ![p] = "dial"] /\ "dial" \in PcStates
    BY <1>1 DEF ConnectBegin, Goto, PcStates, ConnectPcs
  <2>2. /\ \A q \in Procs : pc[q] \notin Critical \/ q = p
        /\ \A q \in Procs : pc'[q] \in Critical => q = p
        /\ pc'[p] = "dial" /\ Exclusive' /\ HandlersStarted'
    BY <1>0, <2>1, CriticalStep
  <2>3. /\ phase \notin Live /\ UNCHANGED phase /\ conn < MaxConns /\ done < MaxDones
    BY <1>1 DEF ConnectBegin, Calls, Serialised, Live
  <2>4. \A k \in Conns : ~Reading(k)' BY <1>0, <2>3, NoneReading DEF Reading
  <2>5. Owned'
    BY <1>0, <2>2, <2>3, <2>4
    DEF Owned, Headroom, NoLoopBetween, Critical, ConnectPcs, DisconnectPcs, ReconnectPcs
  <2>6. Closes'
    BY <1>0, <2>2, <2>3, <2>4
    DEF Core, Closes, DonesMade, ClosableWhenOpen, Closing, Closable, PhaseMarks,
        LoopsHaveOwner, Critical, ConnectPcs, DisconnectPcs, ReconnectPcs
  <2>7. Reports'
    BY <1>0, <2>2, <2>4 DEF Core, Reports, EventsArePast, StartUnreported, ReaderUnreported,
                            OneEventPerConnection, Critical, ConnectPcs
  <2>8. LoopsAreCurrent' BY <1>0, <2>4 DEF Core, LoopsAreCurrent
  <2>9. Panics'
    BY <1>0, <1>a, <1>b, <1>c, <2>2, <2>3
    DEF Panics, NewDoneIsOpen, Spent, Misuse, Unguarded, Critical, ConnectPcs, ReconnectPcs
  <2> QED BY <2>5, <2>6, <2>7, <2>8, <2>9 DEF Core
<1>2. CASE DisconnectBegin(p)
  <2>1. pc' = [pc EXCEPT ![p] = "discClose"] /\ "discClose" \in PcStates
    BY <1>2 DEF DisconnectBegin, Goto, PcStates, DisconnectPcs
  <2>2. /\ \A q \in Procs : pc'[q] \in Critical => q = p
        /\ pc'[p] = "discClose" /\ Exclusive' /\ HandlersStarted'
    BY <1>0, <2>1, CriticalStep
  <2>3. phase' = IF phase \in Live THEN "closed" ELSE "misused" BY <1>2 DEF DisconnectBegin, Turns
  <2>4. \A k \in Conns : Reading(k)' <=> Reading(k) BY <1>0 DEF Reading
  <2>5. Owned'
    BY <1>0, <2>2
    DEF Owned, Headroom, NoLoopBetween, Critical, ConnectPcs, DisconnectPcs, ReconnectPcs
  <2>a. phase \notin Live => \A k \in Conns : ~Reading(k) BY <1>0, NoneReading
  <2>6. Closes'
    <3>1. (DonesMade /\ ClosableWhenOpen /\ PhaseMarks)'
      BY <1>0, <2>2, <2>3
      DEF Core, Closes, DonesMade, ClosableWhenOpen, Closing, Closable, PhaseMarks, Live,
          Critical, ConnectPcs, DisconnectPcs, ReconnectPcs
    <3>2. LoopsHaveOwner' BY <2>2, <2>3, <2>4, <2>a DEF LoopsHaveOwner, Live
    <3> QED BY <3>1, <3>2 DEF Closes
  <2>7. Reports'
    BY <1>0, <2>2, <2>4 DEF Core, Reports, EventsArePast, StartUnreported, ReaderUnreported,
                            OneEventPerConnection, Critical, ConnectPcs
  <2>8. LoopsAreCurrent' BY <1>0, <2>4 DEF Core, LoopsAreCurrent
  <2>9. Panics'
    BY <1>0, <1>a, <1>b, <1>c, <2>2, <2>3
    DEF Panics, NewDoneIsOpen, Spent, Misuse, Critical, ConnectPcs, DisconnectPcs, ReconnectPcs
  <2> QED BY <2>5, <2>6, <2>7, <2>8, <2>9 DEF Core
<1>3. CASE ReconnectBegin(p)
  <2>1. pc' = [pc EXCEPT ![p] = "recClose"] /\ "recClose" \in PcStates
    BY <1>3 DEF ReconnectBegin, Goto, PcStates, ReconnectPcs
  <2>2. /\ \A q \in Procs : pc'[q] \in Critical => q = p
        /\ pc'[p] = "recClose" /\ Exclusive' /\ HandlersStarted'
    BY <1>0, <2>1, CriticalStep
  <2>3. /\ phase' = IF phase \in Live THEN "broken" ELSE "misused"
        /\ conn < MaxConns /\ done + 1 < MaxDones
    BY <1>3 DEF ReconnectBegin, Turns
  <2>4. \A k \in Conns : Reading(k)' <=> Reading(k) BY <1>0 DEF Reading
  <2>5. Owned'
    BY <1>0, <2>2, <2>3
    DEF Owned, Headroom, NoLoopBetween, Critical, ConnectPcs, DisconnectPcs, ReconnectPcs
  <2>a. phase \notin Live => \A k \in Conns : ~Reading(k) BY <1>0, NoneReading
  <2>6. Closes'
    <3>1. (DonesMade /\ ClosableWhenOpen /\ PhaseMarks)'
      BY <1>0, <2>2, <2>3
      DEF Core, Closes, DonesMade, ClosableWhenOpen, Closing, Closable, PhaseMarks, Live,
          Critical, ConnectPcs, DisconnectPcs, ReconnectPcs
    <3>2. LoopsHaveOwner' BY <2>2, <2>3, <2>4, <2>a DEF LoopsHaveOwner, Live
    <3> QED BY <3>1, <3>2 DEF Closes
  <2>7. Reports'
    BY <1>0, <2>2, <2>4 DEF Core, Reports, EventsArePast, StartUnreported, ReaderUnreported,
                            OneEventPerConnection, Critical, ConnectPcs
  <2>8. LoopsAreCurrent' BY <1>0, <2>4 DEF Core, LoopsAreCurrent
  <2>9. Panics'
    BY <1>0, <1>a, <1>b, <1>c, <2>2, <2>3
    DEF Panics, NewDoneIsOpen, Spent, Misuse, Critical, ConnectPcs, DisconnectPcs, ReconnectPcs
  <2> QED BY <2>5, <2>6, <2>7, <2>8, <2>9 DEF Core
<1> QED BY <1>1, <1>2, <1>3

\* Connect goes on: no loop reads until the new one is started, on a
\* connection and a done channel that are new.
LEMMA ConnectsInside ==
  ASSUME IInv, ~panicked, NEW p \in Procs, DialFails(p) \/ DialWorks(p) \/ StartReadLoop(p)
  PROVE  Core'
<1>0. /\ ClientType /\ AppType /\ Core /\ pc[p] \in ConnectPcs
      /\ pc[p] \in Critical /\ pc[p] # "off"
      /\ UNCHANGED <<closed, closeOnce, disconnectOnce, panicked, fired, evConn>>
  BY DEF IInv, TypeOK, DialFails, DialWorks, StartReadLoop, client, events, ConnectPcs, Critical
<1>1. \A k \in Conns : ~Reading(k) BY <1>0 DEF Core, Owned, NoLoopBetween
<1>a. ~closeOnce BY <1>0 DEF Core, Panics, NewDoneIsOpen
<1>b. \A q \in Procs : pc[q] \notin {"discClose", "recClose"} \cup DisconnectPcs
  BY <1>0 DEF Core, Owned, Exclusive, Critical, ConnectPcs, DisconnectPcs, ReconnectPcs
<1>c. phase # "misused" BY <1>0, <1>b DEF Core, Panics, Misuse
<1>2. CASE DialFails(p)
  <2>1. PICK l \in {"idle", "wake"} : pc' = [pc EXCEPT ![p] = l]
    BY <1>2 DEF DialFails, Return, Goto
  <2>2. l \in PcStates /\ l \notin Critical
    BY DEF PcStates, Critical, ConnectPcs, DisconnectPcs, ReconnectPcs
  <2>3. /\ \A q \in Procs : pc[q] \in Critical => q = p
        /\ \A q \in Procs : pc'[q] \in Critical => q = p
        /\ pc'[p] = l /\ Exclusive' /\ HandlersStarted'
    BY <1>0, <2>1, <2>2, CriticalStep
  <2>4. UNCHANGED <<conn, done, rl, phase>> /\ \A k \in Conns : ~Reading(k)'
    BY <1>1, <1>2 DEF DialFails, client, loops, Reading
  <2>5. \A q \in Procs : pc'[q] \notin Critical BY <2>2, <2>3
  <2>6. Owned' BY <2>3, <2>5 DEF Core, Owned, Headroom, NoLoopBetween, Critical, ConnectPcs, DisconnectPcs, ReconnectPcs
  <2>7. Closes'
    BY <1>0, <2>4, <2>5
    DEF Core, Closes, DonesMade, ClosableWhenOpen, Closing, Closable, PhaseMarks,
        LoopsHaveOwner, Critical, ConnectPcs, DisconnectPcs, ReconnectPcs
  <2>8. Reports'
    BY <1>0, <2>4, <2>5
    DEF Core, Reports, EventsArePast, StartUnreported, ReaderUnreported,
        OneEventPerConnection, Critical, ConnectPcs, DisconnectPcs, ReconnectPcs
  <2>9. LoopsAreCurrent' BY <1>0, <2>4 DEF Core, LoopsAreCurrent
  <2>10. Panics'
    BY <1>0, <1>a, <1>b, <1>c, <2>4 DEF Core, Panics, OnceSpent, NewDoneIsOpen, Spent, Unguarded,
      Closable, Misuse, PanicsMisused
  <2> QED BY <2>6, <2>7, <2>8, <2>9, <2>10 DEF Core
<1>3. CASE DialWorks(p)
  <2>1. /\ pc[p] = "dial" /\ pc' = [pc EXCEPT ![p] = "start"] /\ "start" \in PcStates
        /\ lock' = lock /\ conn' = conn + 1 /\ UNCHANGED <<done, rl, phase>>
    BY <1>3 DEF DialWorks, Goto, PcStates, ConnectPcs, loops
  <2>2. lock' = p BY <1>0, <2>1 DEF Core, Owned, Exclusive
  <2>3. /\ \A q \in Procs : pc[q] \in Critical => q = p
        /\ \A q \in Procs : pc'[q] \in Critical => q = p
        /\ pc'[p] = "start" /\ Exclusive' /\ HandlersStarted'
    BY <1>0, <2>1, <2>2, CriticalStep
  <2>4. \A k \in Conns : ~Reading(k)' BY <1>1, <2>1 DEF Reading
  <2>5. conn \in Nat /\ done < MaxDones BY <1>0, <2>1 DEF ClientType, Core, Owned, Headroom
  <2>6. Owned'
    BY <2>1, <2>3, <2>4, <2>5 DEF Core, Owned, Headroom, NoLoopBetween, Critical, ConnectPcs, DisconnectPcs, ReconnectPcs
  <2>7. Closes'
    BY <1>0, <2>1, <2>3, <2>4
    DEF Core, Closes, DonesMade, ClosableWhenOpen, Closing, Closable, PhaseMarks,
        LoopsHaveOwner, Critical, ConnectPcs, DisconnectPcs, ReconnectPcs
  <2>8. \A h \in 1..fired : evConn[h] <= conn BY <1>0 DEF Core, Reports, EventsArePast
  <2>9. EventType BY DEF IInv, TypeOK
  <2>10. \A h \in 1..fired : evConn[h] \in Nat
    BY <2>9, BoundsAssumption DEF EventType, Handlers
  <2>11. (EventsArePast /\ StartUnreported)'
    BY <1>0, <2>1, <2>5, <2>8, <2>10 DEF EventsArePast, StartUnreported
  <2>12. (ReaderUnreported /\ OneEventPerConnection)'
    BY <1>0, <2>4 DEF Core, Reports, ReaderUnreported, OneEventPerConnection
  <2>13. LoopsAreCurrent' BY <1>0, <2>4 DEF Core, LoopsAreCurrent
  <2>14. Panics'
    BY <1>0, <1>a, <1>b, <1>c, <2>1 DEF Core, Panics, OnceSpent, NewDoneIsOpen, Spent, Unguarded,
      Closable, Misuse, PanicsMisused
  <2> QED BY <2>6, <2>7, <2>11, <2>12, <2>13, <2>14 DEF Core, Reports
<1>4. CASE StartReadLoop(p)
  <2>1. PICK l \in {"idle", "linked"} : pc' = [pc EXCEPT ![p] = l]
    BY <1>4 DEF StartReadLoop, Return, Goto
  <2>2. l \in PcStates /\ l \notin Critical
    BY DEF PcStates, Critical, ConnectPcs, DisconnectPcs, ReconnectPcs
  <2>3. /\ \A q \in Procs : pc'[q] \in Critical => q = p
        /\ pc'[p] = l /\ Exclusive' /\ HandlersStarted'
    BY <1>0, <2>1, <2>2, CriticalStep
  <2>4. /\ pc[p] = "start" /\ done' = done + 1 /\ conn' = conn
        /\ rl' = [rl EXCEPT ![conn] = "read"] /\ phase' = "linked" /\ phase' \in Live
    BY <1>4 DEF StartReadLoop, Live
  <2>5. \A k \in Conns : Reading(k)' => k = conn
    <3>1. LoopType BY DEF IInv, TypeOK
    <3> QED BY <1>1, <2>4, <3>1 DEF Reading, LoopType
  <2>6. \A q \in Procs : pc'[q] \notin Critical BY <2>2, <2>3
  <2>7. Owned' BY <2>3, <2>6 DEF Core, Owned, Headroom, NoLoopBetween, Critical, ConnectPcs, DisconnectPcs, ReconnectPcs
  <2>8. done \in Nat /\ closed \subseteq 1..done
    BY <1>0 DEF ClientType, Core, Closes, DonesMade
  <2>9. (DonesMade /\ ClosableWhenOpen)'
    BY <1>0, <2>4, <2>8 DEF DonesMade, ClosableWhenOpen, Closable
  <2>10. (PhaseMarks /\ LoopsHaveOwner)'
    BY <2>4, <2>6 DEF PhaseMarks, LoopsHaveOwner, Critical, DisconnectPcs
  <2>11. \A h \in 1..fired : evConn[h] # conn
    BY <1>0, <2>4 DEF Core, Reports, StartUnreported
  <2>12. Reports'
    BY <1>0, <2>4, <2>5, <2>6, <2>11
    DEF Core, Reports, EventsArePast, StartUnreported, ReaderUnreported,
        OneEventPerConnection, Critical, ConnectPcs, DisconnectPcs, ReconnectPcs
  <2>13. LoopsAreCurrent' BY <2>4, <2>5 DEF LoopsAreCurrent
  <2>14. Panics'
    BY <1>0, <1>a, <2>4 DEF Panics, OnceSpent, NewDoneIsOpen, Spent, Misuse, PanicsMisused
  <2> QED BY <2>7, <2>9, <2>10, <2>12, <2>13, <2>14 DEF Core, Closes
<1> QED BY <1>2, <1>3, <1>4

\* A teardown closes done, shuts the connection and waits for the loops.
LEMMA TearsDownInside ==
  ASSUME IInv, ~panicked, NEW p \in Procs,
         TeardownClose(p) \/ TeardownShut(p) \/ TeardownWait(p)
  PROVE  Core'
<1> DEFINE l == Teardown[pc[p]]
<1>0. /\ ClientType /\ Core /\ pc' = [pc EXCEPT ![p] = l] /\ lock' = lock
      /\ pc[p] \in {"discClose", "recClose", "discShut", "recShut", "discWait", "recWait"}
      /\ UNCHANGED <<conn, done, disconnectOnce, rl, phase, fired, evConn>>
  BY DEF IInv, TypeOK, TeardownClose, TeardownShut, TeardownWait, Goto, client, loops, events
<1>1. /\ l \in {"discShut", "recShut", "discWait", "recWait", "discReset", "recReset"}
      /\ l \in PcStates /\ pc[p] \in Critical /\ pc[p] # "off"
  BY <1>0, TeardownFacts DEF PcStates, DisconnectPcs, ReconnectPcs, Critical
<1>2. lock' = p BY <1>0, <1>1 DEF Core, Owned, Exclusive
<1>3. /\ \A q \in Procs : pc[q] \in Critical => q = p
      /\ \A q \in Procs : pc'[q] \in Critical => q = p
      /\ pc'[p] = l /\ Exclusive' /\ HandlersStarted'
  BY <1>0, <1>1, <1>2, CriticalStep
<1>4. \A k \in Conns : Reading(k)' <=> Reading(k) BY <1>0 DEF Reading
<1> HIDE DEF l
<1>5. /\ pc[p] \in ReconnectPcs <=> l \in ReconnectPcs
      /\ pc[p] \in DisconnectPcs <=> l \in DisconnectPcs
  BY <1>0, TeardownFacts DEF l, DisconnectPcs, ReconnectPcs
<1>6. Headroom'
  BY <1>0, <1>1, <1>3, <1>5 DEF Core, Owned, Headroom, Critical, ConnectPcs, DisconnectPcs,
                            ReconnectPcs
<1>7. Reports'
  BY <1>0, <1>1, <1>3, <1>4
  DEF Core, Reports, EventsArePast, StartUnreported, ReaderUnreported,
        OneEventPerConnection, Critical, ConnectPcs, DisconnectPcs, ReconnectPcs
<1>8. LoopsAreCurrent' BY <1>0, <1>4 DEF Core, LoopsAreCurrent
<1>9. (\A q \in Procs : pc[q] \in ReconnectPcs => phase \in Live \cup {"misused"})
      /\ (\A q \in Procs : pc[q] \in DisconnectPcs => phase \in {"closed", "misused"})
  BY <1>0 DEF Core, Closes, PhaseMarks
<1>10. CASE TeardownClose(p)
  <2>1. CloseDone /\ pc[p] \in {"discClose", "recClose"} /\ l \in {"discShut", "recShut"}
    BY <1>10, TeardownFacts DEF TeardownClose, l
  <2>2. closeOnce' BY <1>0, <2>1, CloseDoneFacts
  <2>3. Panics'
    <3>1. OnceSpent' BY <1>0, <2>1, CloseDoneSpends DEF Core, Panics
    <3>2. NewDoneIsOpen'
      BY <1>3, <2>1 DEF NewDoneIsOpen, Critical, ConnectPcs, DisconnectPcs, ReconnectPcs
    <3>3. CASE phase # "misused"
      <4>1. closeOnce \/ Closable
        BY <1>0, <1>9, <2>1, <3>3 DEF Core, Closes, ClosableWhenOpen, Closing, ReconnectPcs,
                                     DisconnectPcs
      <4>2. ~panicked' BY <1>0, <2>1, <4>1, CloseDoneFacts
      <4>3. Spent'
        BY <1>0, <1>3, <1>5, <1>9, <2>1, <3>3 DEF Spent, Live, DisconnectPcs, ReconnectPcs
      <4> QED BY <1>0, <3>1, <3>2, <3>3, <4>2, <4>3 DEF Panics, Misuse, PanicsMisused
    <3>4. CASE phase = "misused"
      <4>1. Unguarded BY <1>0, <3>4 DEF Core, Panics, Misuse
      <4>2. panicked' BY <2>1, <4>1 DEF CloseDone, Unguarded
      <4> QED BY <1>0, <3>1, <3>2, <3>4, <4>2 DEF Panics, Spent, Misuse, PanicsMisused
    <3> QED BY <3>3, <3>4
  <2>4. DonesMade'
    <3>1. closed' = closed \/ (closed' = closed \cup {done} /\ Closable)
      BY <2>1 DEF CloseDone
    <3>2. Closable => done \in 1..done BY <1>0 DEF Closable, ClientType
    <3> QED BY <1>0, <3>1, <3>2 DEF Core, Closes, DonesMade
  <2>5. (ClosableWhenOpen /\ PhaseMarks)'
    BY <1>0, <1>3, <1>5, <1>9, <2>2 DEF ClosableWhenOpen, PhaseMarks, Critical, DisconnectPcs,
                                 ReconnectPcs
  <2>6. LoopsHaveOwner'
    BY <1>0, <1>3, <1>4, <1>5, <1>9, <2>1
    DEF Core, Closes, LoopsHaveOwner, Critical, DisconnectPcs, ReconnectPcs
  <2>7. NoLoopBetween'
    BY <1>3, <2>1 DEF NoLoopBetween, Critical, ConnectPcs, DisconnectPcs, ReconnectPcs
  <2> QED BY <1>3, <1>6, <1>7, <1>8, <2>3, <2>4, <2>5, <2>6, <2>7 DEF Core, Owned, Closes
<1>11. CASE TeardownShut(p) \/ TeardownWait(p)
  <2>1. UNCHANGED <<closed, closeOnce, panicked>>
    BY <1>11 DEF TeardownShut, TeardownWait, client
  <2>2. pc[p] # "discClose" /\ l \notin {"discClose", "discShut"}
    BY <1>11, TeardownFacts DEF TeardownShut, TeardownWait, l
  <2>a. pc[p] \notin {"discClose", "recClose"}
    BY <1>11 DEF TeardownShut, TeardownWait
  <2>b. phase # "misused"
    BY <1>0, <1>3, <2>a DEF Core, Panics, Misuse, Critical, DisconnectPcs, ReconnectPcs
  <2>c. Panics'
    <3>1. (OnceSpent /\ NewDoneIsOpen)'
      BY <1>0, <1>1, <1>3, <2>1 DEF Core, Panics, OnceSpent, Closable, NewDoneIsOpen, Critical,
                                    ConnectPcs, DisconnectPcs, ReconnectPcs
    <3>2. Spent'
      BY <1>0, <1>3, <1>5, <1>9, <2>b DEF Spent, Live, DisconnectPcs, ReconnectPcs
    <3> QED BY <1>0, <2>1, <2>b, <3>1, <3>2 DEF Panics, Misuse, PanicsMisused
  <2>3. DonesMade' /\ Panics' BY <1>0, <2>1, <2>c DEF Core, Closes, DonesMade
  <2>4. ClosableWhenOpen'
    BY <1>0, <1>3, <2>1, <2>2 DEF Core, Closes, ClosableWhenOpen, Closing, Closable, Critical,
                                  DisconnectPcs
  <2>5. PhaseMarks'
    <3>1. /\ l = "discWait" => pc[p] = "discShut"
          /\ l = "discReset" => pc[p] = "discWait"
      BY <1>0, TeardownFacts DEF l
    <3> QED
      BY <1>0, <1>3, <1>5, <1>9, <2>1, <2>2, <3>1 DEF Core, Closes, PhaseMarks, Critical
  <2>6. CASE TeardownShut(p)
    <3>1. l \in {"discWait", "recWait"} /\ pc[p] \in {"discShut", "recShut"}
      BY <2>6, TeardownFacts DEF TeardownShut, l
    <3>2. LoopsHaveOwner'
      BY <1>0, <1>3, <1>4, <1>5, <1>9, <3>1
      DEF Core, Closes, LoopsHaveOwner, Critical, DisconnectPcs, ReconnectPcs
    <3>3. NoLoopBetween'
      BY <1>3, <3>1 DEF NoLoopBetween, Critical, ConnectPcs, DisconnectPcs, ReconnectPcs
    <3> QED BY <1>3, <1>6, <1>7, <1>8, <2>3, <2>4, <2>5, <3>2, <3>3 DEF Core, Owned, Closes
  <2>7. CASE TeardownWait(p)
    <3>1. \A k \in Conns : ~Reading(k)' BY <1>4, <2>7 DEF TeardownWait, Quiet
    <3> QED
      BY <1>3, <1>6, <1>7, <1>8, <2>3, <2>4, <2>5, <3>1
      DEF Core, Owned, Closes, LoopsHaveOwner, NoLoopBetween
  <2> QED BY <1>11, <2>6, <2>7
<1> QED BY <1>10, <1>11

\* The primitives are replaced while no loop reads: Reconnect makes a new
\* done as well, Disconnect leaves its closed one to a client that is not live.
LEMMA ResetsInside ==
  ASSUME IInv, ~panicked, NEW p \in Procs,
         DisconnectReset(p) \/ ReconnectReset(p) \/ ReconnectLogout(p)
  PROVE  Core'
<1>0. /\ ClientType /\ Core /\ pc[p] \in {"discReset", "recReset", "recLogout"}
      /\ UNCHANGED <<conn, closed, panicked, rl, phase, fired, evConn>>
  BY DEF IInv, TypeOK, DisconnectReset, ReconnectReset, ReconnectLogout, loops, events
<1>1. pc[p] \in Critical /\ pc[p] # "off"
  BY <1>0 DEF Critical, DisconnectPcs, ReconnectPcs
<1>2. (\A k \in Conns : ~Reading(k)) /\ (\A k \in Conns : ~Reading(k)')
  <2>1. \A k \in Conns : ~Reading(k) BY <1>0 DEF Core, Owned, NoLoopBetween
  <2> QED BY <1>0, <2>1 DEF Reading
<1>3. (EventsArePast /\ ReaderUnreported /\ OneEventPerConnection /\ LoopsAreCurrent)'
  BY <1>0, <1>2 DEF Core, Reports, EventsArePast, ReaderUnreported, OneEventPerConnection,
                    LoopsAreCurrent
<1>a. /\ \A q \in Procs : pc[q] \in Critical => q = p
      /\ phase # "misused"
  <2>1. \A q \in Procs : pc[q] \in Critical => q = p
    BY <1>0, <1>1, ProcFacts DEF Core, Owned, Exclusive
  <2> QED
    BY <1>0, <2>1 DEF Core, Panics, Misuse, Critical, DisconnectPcs, ReconnectPcs
<1>b. (Misuse /\ PanicsMisused)' BY <1>0, <1>a DEF Misuse, PanicsMisused
<1>4. LoopsHaveOwner' BY <1>2 DEF LoopsHaveOwner
<1>5. CASE DisconnectReset(p)
  <2>1. PICK l \in {"idle", "end"} : pc' = [pc EXCEPT ![p] = l]
    BY <1>5 DEF DisconnectReset, Return, Goto
  <2>2. l \in PcStates /\ l \notin Critical
    BY DEF PcStates, Critical, ConnectPcs, DisconnectPcs, ReconnectPcs
  <2>3. /\ \A q \in Procs : pc'[q] \in Critical => q = p
        /\ pc'[p] = l /\ Exclusive' /\ HandlersStarted'
    BY <1>0, <1>1, <2>1, <2>2, CriticalStep
  <2>4. \A q \in Procs : pc'[q] \notin Critical BY <2>2, <2>3
  <2>5. Owned' BY <2>3, <2>4 DEF Core, Owned, Headroom, NoLoopBetween, Critical, ConnectPcs, DisconnectPcs, ReconnectPcs
  <2>6. phase' = "closed" /\ done' = done
    BY <1>0, <1>5, <1>a DEF DisconnectReset, Core, Closes, PhaseMarks, DisconnectPcs
  <2>7. (DonesMade /\ ClosableWhenOpen /\ PhaseMarks)'
    BY <1>0, <2>4, <2>6
    DEF Core, Closes, DonesMade, ClosableWhenOpen, Closing, PhaseMarks, Live,
        Critical, DisconnectPcs, ReconnectPcs
  <2>8. StartUnreported' BY <2>4 DEF StartUnreported, Critical, ConnectPcs
  <2>9. ~closeOnce' /\ ~Closable'
    <3>1. closeOnce BY <1>0, <1>5 DEF DisconnectReset, Core, Closes, PhaseMarks
    <3>2. ~Closable BY <1>0, <3>1 DEF Core, Panics, OnceSpent
    <3> QED BY <1>0, <1>5, <2>6, <3>2 DEF DisconnectReset, ResetOnces, Closable
  <2>10. Panics' BY <1>b, <2>9 DEF Panics, OnceSpent, NewDoneIsOpen, Spent, Unguarded
  <2> QED BY <1>3, <1>4, <2>5, <2>7, <2>8, <2>10 DEF Core, Closes, Reports
<1>6. CASE ReconnectReset(p)
  <2>1. /\ pc[p] = "recReset" /\ pc' = [pc EXCEPT ![p] = "recLogout"]
        /\ "recLogout" \in PcStates /\ lock' = lock /\ done' = done + 1
    BY <1>6 DEF ReconnectReset, Goto, NewDone, PcStates, ReconnectPcs
  <2>2. lock' = p BY <1>0, <1>1, <2>1 DEF Core, Owned, Exclusive
  <2>3. /\ \A q \in Procs : pc'[q] \in Critical => q = p
        /\ pc'[p] = "recLogout" /\ Exclusive' /\ HandlersStarted'
    BY <1>0, <1>1, <2>1, <2>2, CriticalStep
  <2>4. Owned'
    BY <1>0, <1>2, <2>1, <2>3 DEF Core, Owned, Headroom, NoLoopBetween, Critical, ConnectPcs, DisconnectPcs, ReconnectPcs
  <2>5. done \in Nat /\ closed \subseteq 1..done
    BY <1>0 DEF ClientType, Core, Closes, DonesMade
  <2>6. (DonesMade /\ ClosableWhenOpen)'
    BY <1>0, <2>1, <2>5 DEF DonesMade, ClosableWhenOpen, Closable
  <2>7. phase \in Live BY <1>0, <1>a, <2>1 DEF Core, Closes, PhaseMarks, ReconnectPcs
  <2>8. PhaseMarks'
    BY <1>0, <2>3, <2>7 DEF PhaseMarks, Critical, DisconnectPcs, ReconnectPcs
  <2>9. StartUnreported' BY <2>3 DEF StartUnreported, Critical, ConnectPcs
  <2>10. ~closeOnce' BY <1>6 DEF ReconnectReset, ResetOnces
  <2>11. Panics'
    BY <1>0, <1>b, <2>7, <2>10 DEF Panics, OnceSpent, NewDoneIsOpen, Spent, Live
  <2> QED BY <1>3, <1>4, <2>4, <2>6, <2>8, <2>9, <2>11 DEF Core, Closes, Reports
<1>7. CASE ReconnectLogout(p)
  <2>1. /\ pc[p] = "recLogout" /\ pc' = [pc EXCEPT ![p] = "dial"] /\ "dial" \in PcStates
        /\ lock' = lock /\ UNCHANGED <<done, closeOnce>>
    BY <1>7 DEF ReconnectLogout, Goto, PcStates, ConnectPcs
  <2>2. lock' = p BY <1>0, <1>1, <2>1 DEF Core, Owned, Exclusive
  <2>3. /\ \A q \in Procs : pc'[q] \in Critical => q = p
        /\ pc'[p] = "dial" /\ Exclusive' /\ HandlersStarted'
    BY <1>0, <1>1, <2>1, <2>2, CriticalStep
  <2>4. Owned'
    BY <1>0, <1>2, <2>1, <2>3 DEF Core, Owned, Headroom, NoLoopBetween, Critical, ConnectPcs, DisconnectPcs, ReconnectPcs
  <2>5. (DonesMade /\ ClosableWhenOpen /\ PhaseMarks)'
    BY <1>0, <2>1, <2>3
    DEF Core, Closes, DonesMade, ClosableWhenOpen, Closing, Closable, PhaseMarks,
        LoopsHaveOwner, Critical, ConnectPcs, DisconnectPcs, ReconnectPcs
  <2>6. StartUnreported' BY <2>3 DEF StartUnreported, Critical, ConnectPcs
  <2>7. phase \in Live /\ ~closeOnce
    BY <1>0, <1>a, <2>1 DEF Core, Closes, PhaseMarks, ReconnectPcs, Panics, NewDoneIsOpen
  <2>8. Panics'
    BY <1>0, <1>b, <2>1, <2>7 DEF Panics, OnceSpent, NewDoneIsOpen, Spent, Live
  <2> QED BY <1>3, <1>4, <2>4, <2>5, <2>6, <2>8 DEF Core, Closes, Reports
<1> QED BY <1>5, <1>6, <1>7

-----------------------------------------------------------------------------
(* The theorems.                                                           *)

\* The invariant holds of a new Client.
LEMMA InitIInv == Init => IInv
<1> SUFFICES ASSUME Init PROVE IInv
  OBVIOUS
<1>1. TypeOK BY InitType
<1>2. \A p \in Procs : pc[p] \in {"idle", "off"} BY DEF Init
<1>3. \A k \in Conns : ~Reading(k) BY DEF Init, Reading
<1>4. GrantInHand BY <1>2 DEF GrantInHand
<1>5. \A p \in Procs : pc[p] \notin Critical \cup ConnectPcs \cup ReconnectPcs
  BY <1>2 DEF Critical, ConnectPcs, DisconnectPcs, ReconnectPcs
<1>6. (Exclusive /\ Headroom /\ NoLoopBetween)
  BY <1>3, <1>5
  DEF Exclusive, Headroom, NoLoopBetween, Critical, ConnectPcs, DisconnectPcs, ReconnectPcs
<1>7. HandlersStarted BY ProcFacts DEF Init, HandlersStarted
<1>8. Closes
  BY <1>3, <1>5
  DEF Init, Closes, DonesMade, ClosableWhenOpen, Closing, PhaseMarks, LoopsHaveOwner, Live,
      Critical, DisconnectPcs, ReconnectPcs
<1>9. Reports
  BY DEF Init, Reports, EventsArePast, StartUnreported, ReaderUnreported, OneEventPerConnection
<1>10. LoopsAreCurrent BY <1>3 DEF LoopsAreCurrent
<1>11. Panics
  BY DEF Init, Panics, OnceSpent, NewDoneIsOpen, Spent, Unguarded, Closable, Misuse, PanicsMisused
<1> QED BY <1>1, <1>4, <1>6, <1>7, <1>8, <1>9, <1>10, <1>11 DEF IInv, Core, Owned

\* A Login that panics finds a client without a connection, so no read loop.
LEMMA PanicsAtLogin == ASSUME IInv, NEW p \in Procs, LoginPanics(p) PROVE Core'
<1>0. /\ Core /\ panicked' /\ phase' = "misused" /\ conn = 0
      /\ UNCHANGED <<conn, done, closed, closeOnce, disconnectOnce, rl, pc, lock, fired, evConn>>
  BY DEF IInv, LoginPanics, loops, events
<1>1. \A k \in Conns : ~Reading(k) /\ ~Reading(k)'
  <2>1. \A k \in Conns : ~Reading(k) BY <1>0 DEF Core, LoopsAreCurrent, Conns
  <2> QED BY <1>0, <2>1 DEF Reading
<1>2. Owned' BY <1>0, <1>1 DEF Core, Owned, Exclusive, Headroom, NoLoopBetween, HandlersStarted
<1>3. Closes'
  BY <1>0, <1>1 DEF Core, Closes, DonesMade, ClosableWhenOpen, Closing, PhaseMarks,
                    LoopsHaveOwner, Live
<1>4. (Reports /\ LoopsAreCurrent)'
  BY <1>0, <1>1 DEF Core, Reports, EventsArePast, StartUnreported, ReaderUnreported,
                    OneEventPerConnection, LoopsAreCurrent
<1>5. Panics'
  BY <1>0 DEF Core, Panics, OnceSpent, Closable, NewDoneIsOpen, Spent, Misuse, PanicsMisused
<1> QED BY <1>2, <1>3, <1>4, <1>5 DEF Core

\* Every step keeps the core of the invariant.
LEMMA NextCore == ASSUME Serialised, IInv, [Next]_vars PROVE Core'
<1>0. ClientType /\ LoopType /\ AppType BY DEF IInv, TypeOK
<1> DEFINE Still == UNCHANGED <<conn, done, closed, closeOnce, disconnectOnce, panicked,
                                rl, fired, evConn>>
<1>1. ASSUME NEW p \in Procs,
             \/ LoginBegin(p) \/ LoginRefused(p) \/ HandlerQuits(p)
             \/ SendLogon(p) \/ SendLogonFails(p) \/ AwaitEnter(p) \/ AwaitAccepted(p)
             \/ AwaitDenied(p) \/ AwaitDropped(p) \/ AwaitExpired(p)
             \/ PublishSession(p) \/ StartHeartbeat(p)
      PROVE Core'
  <2>1. \E l \in {"logon", "idle", "end", "select", "await", "set", "beat"} :
          pc' = [pc EXCEPT ![p] = l]
    BY <1>1 DEF LoginBegin, LoginRefused, HandlerQuits, SendLogon, SendLogonFails, AwaitEnter,
                AwaitAccepted, AwaitDenied, AwaitDropped, AwaitExpired, LoginFails,
                PublishSession, StartHeartbeat, Return, Goto
  <2>2. pc[p] \in {"idle", "wake", "linked"} \cup LoginPcs
    BY <1>1 DEF LoginBegin, LoginRefused, HandlerQuits, SendLogon, SendLogonFails, AwaitEnter,
                AwaitAccepted, AwaitDenied, AwaitDropped, AwaitExpired,
                PublishSession, StartHeartbeat, Calls, LoginPcs
  <2>3. lock' = lock \/ lock = p \/ lock = Free
    BY <1>1 DEF LoginBegin, LoginRefused, HandlerQuits, SendLogon, SendLogonFails, AwaitEnter,
                AwaitAccepted, AwaitDenied, AwaitDropped, AwaitExpired, LoginFails,
                PublishSession, StartHeartbeat, Return, Acquire
  <2>4. phase' = phase \/ (phase \in Live /\ phase' \in Live)
    BY <1>1 DEF LoginBegin, LoginRefused, HandlerQuits, SendLogon, SendLogonFails, AwaitEnter,
                AwaitAccepted, AwaitDenied, AwaitDropped, AwaitExpired, LoginFails,
                PublishSession, StartHeartbeat, Live
  <2>5. Still
    BY <1>1 DEF LoginBegin, LoginRefused, HandlerQuits, SendLogon, SendLogonFails, AwaitEnter,
                AwaitAccepted, AwaitDenied, AwaitDropped, AwaitExpired, LoginFails,
                PublishSession, StartHeartbeat, client, loops, events
  <2>6. pc[p] \notin Critical /\ pc[p] # "off"
    BY <2>2 DEF LoginPcs, Critical, ConnectPcs, DisconnectPcs, ReconnectPcs
  <2>7. {"logon", "idle", "end", "select", "await", "set", "beat"} \subseteq PcStates \ Critical
    BY DEF PcStates, LoginPcs, Critical, ConnectPcs, DisconnectPcs, ReconnectPcs
  <2> QED BY <2>1, <2>3, <2>4, <2>5, <2>6, <2>7, AsideStep
<1>2. ASSUME NEW i \in Beats, Beat(i) PROVE Core'
  <2>1. Still /\ UNCHANGED <<pc, lock, phase>>
    BY <1>2 DEF Beat, BeatEnter, BeatStops, BeatSends, BeatFails, BeatShuts, client, app, events
  <2>2. \A k \in Conns : Reading(k)' => Reading(k) BY <2>1 DEF Reading
  <2> QED BY <2>1, <2>2, LoopStep
<1>3. ASSUME NEW k \in Conns, LoggedOffShut(k) \/ ReadFails(k) \/ CheckDone(k) PROVE Core'
  <2>1. UNCHANGED <<conn, done, closed, closeOnce, disconnectOnce, panicked,
                    pc, lock, phase, fired, evConn>>
    BY <1>3 DEF LoggedOffShut, ReadFails, CheckDone, client, app, events
  <2>2. \A j \in Conns : Reading(j)' => Reading(j)
    BY <1>0, <1>3 DEF LoggedOffShut, ReadFails, CheckDone, LoopType, Reading
  <2> QED BY <2>1, <2>2, LoopStep
<1>4. ASSUME NEW k \in Conns,
             \/ \E verdict \in {-1, k} : ReadLogonResponse(k, verdict)
             \/ Breaks(k) \/ Stalls(k)
      PROVE Core'
  <2>1. Still /\ UNCHANGED <<pc, lock, phase>>
    BY <1>4 DEF ReadLogonResponse, Breaks, Stalls, client, loops, app, events
  <2>2. \A j \in Conns : Reading(j)' => Reading(j) BY <2>1 DEF Reading
  <2> QED BY <2>1, <2>2, LoopStep
<1>5. CASE UNCHANGED vars
  <2>1. Still /\ UNCHANGED <<pc, lock, phase>> BY <1>5 DEF vars, client, loops, app, events
  <2>2. \A j \in Conns : Reading(j)' => Reading(j) BY <2>1 DEF Reading
  <2> QED BY <2>1, <2>2, LoopStep
<1> QED
  BY <1>1, <1>2, <1>3, <1>4, <1>5, LoopCloses, LoopReports, BeginsInside, PanicsAtLogin,
     ConnectsInside, TearsDownInside, ResetsInside
  DEF Next, Begins, Proceeds, Unwinds, Serves

\* Every state of a client whose application serialises Connect, Disconnect
\* and Reconnect satisfies the inductive invariant.
THEOREM Invariance == ASSUME Serialised PROVE Spec => []IInv
<1>1. IInv /\ [Next]_vars => IInv' BY NextType, NextGrant, NextCore DEF IInv
<1> QED BY InitIInv, <1>1, PTL DEF Spec

\* The variables keep their types, whatever the bounds.
THEOREM TypeCorrect == ASSUME Serialised PROVE Spec => []TypeOK
<1>1. IInv => TypeOK BY DEF IInv
<1> QED BY <1>1, Invariance, PTL

\* A client panics exactly on a Disconnect or a Reconnect when it is not
\* connected, or a Login when it never was, however the server, the network,
\* the callbacks and concurrent Logins interleave with them.
THEOREM PanicIsMisuse == ASSUME Serialised PROVE Spec => []OnlyMisusePanics
<1>1. IInv => OnlyMisusePanics
  BY DEF IInv, Core, Panics, Misuse, PanicsMisused, OnlyMisusePanics
<1> QED BY <1>1, Invariance, PTL

\* A read loop never outlives the connection it was started for.
THEOREM LoopsStayCurrent == ASSUME Serialised PROVE Spec => []LoopsAreCurrent
<1>1. IInv => LoopsAreCurrent BY DEF IInv, Core
<1> QED BY <1>1, Invariance, PTL

\* OnDisconnect runs at most once for each connection.
THEOREM ReportedOnce == ASSUME Serialised PROVE Spec => []OneEventPerConnection
<1>1. IInv => OneEventPerConnection BY DEF IInv, Core, Reports
<1> QED BY <1>1, Invariance, PTL

-----------------------------------------------------------------------------
(* Login under the same mutex.  An application that serialises Login too    *)
(* gets more: the session is that of the present connection, a heartbeat   *)
(* only closes the connection it failed on, and OnDisconnect never tells   *)
(* of a connection the client ended itself.                                *)

Sequential ==
  /\ Ops \subseteq LockedOps
  /\ CallsIn["Connect"] \subseteq {"fresh", "closed"}
  /\ CallsIn["Login"] \subseteq {"fresh", "linked"}

Inside == Critical \cup LoginPcs
Up == {"linked", "online"}
Tearing == {"discClose", "discShut", "discWait", "recClose", "recShut", "recWait"}

\* Login holds the mutex and finds the connection as it was linked.
LoginHolds == \A p \in Procs : pc[p] \in LoginPcs => lock = p /\ phase = "linked"

StagePhases == \A p \in Procs :
  /\ pc[p] \in ReconnectPcs => phase \in {"broken", "misused"}
  /\ pc[p] \in ConnectPcs => phase \notin Up

\* A heartbeat runs on a connection that is up, or a teardown waits for it.
BeatsHaveOwner == \A i \in Beats :
  Beating(i) => \/ phase \in Up
                \/ phase # "misused" /\ \E p \in Procs : pc[p] \in Tearing

Dialled ==
  /\ phase \notin {"fresh", "misused"} => conn > 0
  /\ phase = "fresh" => conn = 0 \/ \E p \in Procs : pc[p] = "start"

Order == LoginHolds /\ StagePhases /\ BeatsHaveOwner /\ Dialled

\* loggedIn is cleared before the connection changes, and a Login under way
\* can only be granted by the present server.
LoggedOutBetween == loggedIn =>
  phase \in Live /\ \A p \in Procs : pc[p] \notin ConnectPcs
GotCurrent == \A p \in Procs : pc[p] \in LoginPcs => got[p] \in {-1, 0, conn}

Session == LoggedOutBetween /\ GotCurrent /\ SessionIsCurrent

\* Sequential is the stronger assumption.
LEMMA SequentialSerialises == Sequential => Serialised
BY DEF Sequential, Serialised, Ops

\* A goroutine that moves inside an operation, or enters one, is the only
\* one inside, and holds the mutex as long as it stays there.
LEMMA Alone ==
  ASSUME Sequential, IInv, Order, NEW p \in Procs,
         Begins(p) \/ Proceeds(p) \/ AwaitExpired(p), ~HandlerQuits(p)
  PROVE  /\ \A q \in Procs : q # p => pc'[q] = pc[q] /\ pc[q] \notin Inside
         /\ pc[p] # "off"
<1>0. AppType /\ Exclusive /\ LoginHolds /\ Ops \subseteq LockedOps
  BY DEF IInv, TypeOK, Core, Owned, Order, Sequential
<1>1. \A q \in Procs : pc[q] \in Inside => lock = q
  BY <1>0 DEF Inside, Exclusive, LoginHolds
<1>2. /\ \E l : pc' = [pc EXCEPT ![p] = l]
      /\ pc[p] # "off"
      /\ pc[p] \in Inside \/ lock = Free
  <2>1. CASE ConnectBegin(p) \/ DisconnectBegin(p) \/ ReconnectBegin(p) \/ LoginBegin(p)
    BY <1>0, <2>1 DEF ConnectBegin, DisconnectBegin, ReconnectBegin, LoginBegin, Acquire, Goto,
                      Ops, Calls
  <2>2. CASE LoginRefused(p)
    BY <1>0, <2>2 DEF LoginRefused, Goto, Ops, Calls
  <2>7. CASE LoginPanics(p)
    <3>1. pc' = [pc EXCEPT ![p] = pc[p]] BY <1>0, <2>7 DEF LoginPanics, AppType
    <3> QED BY <1>0, <2>7, <3>1 DEF LoginPanics, Ops, Calls
  <2>3. CASE DialFails(p) \/ DialWorks(p) \/ StartReadLoop(p)
    BY <2>3 DEF DialFails, DialWorks, StartReadLoop, Return, Goto, Inside, Critical, ConnectPcs
  <2>4. CASE TeardownClose(p) \/ TeardownShut(p) \/ TeardownWait(p)
    BY <2>4 DEF TeardownClose, TeardownShut, TeardownWait, Goto, Inside, Critical,
                DisconnectPcs, ReconnectPcs
  <2>5. CASE DisconnectReset(p) \/ ReconnectReset(p) \/ ReconnectLogout(p)
    BY <2>5 DEF DisconnectReset, ReconnectReset, ReconnectLogout, Return, Goto, Inside,
                Critical, DisconnectPcs, ReconnectPcs
  <2>6. CASE \/ SendLogon(p) \/ SendLogonFails(p) \/ AwaitEnter(p) \/ AwaitAccepted(p)
             \/ AwaitDenied(p) \/ AwaitDropped(p) \/ AwaitExpired(p)
             \/ PublishSession(p) \/ StartHeartbeat(p)
    BY <2>6 DEF SendLogon, SendLogonFails, AwaitEnter, AwaitAccepted, AwaitDenied,
                AwaitDropped, AwaitExpired, LoginFails, PublishSession, StartHeartbeat,
                Return, Goto, Inside, LoginPcs
  <2> QED BY <2>1, <2>2, <2>3, <2>4, <2>5, <2>6, <2>7 DEF Begins, Proceeds
<1>3. \A q \in Procs : q # p => pc[q] \notin Inside BY <1>1, <1>2, ProcFacts
<1> QED BY <1>0, <1>2, <1>3 DEF AppType

\* No heartbeat runs between the Wait of a teardown and the next connection.
LEMMA NoneBeating ==
  ASSUME IInv, Order, NEW p \in Procs,
         pc[p] \in ConnectPcs \cup {"discReset", "recReset", "recLogout"}
  PROVE  \A i \in Beats : ~Beating(i)
<1>0. Exclusive /\ PhaseMarks /\ StagePhases /\ BeatsHaveOwner
  BY DEF IInv, Core, Owned, Closes, Order
<1>1. \A q \in Procs : pc[q] \in Tearing => q = p
  BY <1>0, ProcFacts DEF Exclusive, Tearing, Critical, ConnectPcs, DisconnectPcs, ReconnectPcs
<1>2. pc[p] \notin Tearing BY DEF Tearing, ConnectPcs
<1>3. phase \notin Up
  BY <1>0 DEF PhaseMarks, StagePhases, DisconnectPcs, ReconnectPcs, Up
<1> QED BY <1>0, <1>1, <1>2, <1>3 DEF BeatsHaveOwner

\* A step of a loop or the network, which moves no goroutine of the
\* application but an OnDisconnect goroutine that it starts.
LEMMA LoopsMove ==
  ASSUME IInv,
         \/ \E i \in Beats : Beat(i)
         \/ \E k \in Conns : Unwinds(k) \/ Serves(k)
         \/ UNCHANGED vars
  PROVE  /\ UNCHANGED <<conn, done, sess, phase, lock>>
         /\ \A q \in Procs : pc'[q] = pc[q] \/ (pc[q] = "off" /\ pc'[q] = "wake")
         /\ \A i \in Beats : Beating(i)' => Beating(i)
         /\ \A k \in Conns : Reading(k)' => Reading(k)
         /\ loggedIn' => loggedIn
<1>0. ClientType /\ LoopType /\ AppType /\ EventType /\ HandlersStarted
  BY DEF IInv, TypeOK, Core, Owned
<1>1. ASSUME NEW i \in Beats, Beat(i)
      PROVE  UNCHANGED <<client, rl, app>> /\ \A j \in Beats : Beating(j)' => Beating(j)
  <2>1. UNCHANGED <<client, rl, app>> \/ BeatShuts(i)
    BY <1>1 DEF Beat, BeatEnter, BeatStops, BeatSends, BeatFails
  <2>2. UNCHANGED <<client, rl, app>> BY <2>1 DEF BeatShuts
  <2>3. hb[i] # "off" /\ \E s : hb' = [hb EXCEPT ![i] = s]
    BY <1>1 DEF Beat, BeatEnter, BeatStops, BeatSends, BeatFails, BeatShuts
  <2>4. \A j \in Beats : j # i => hb'[j] = hb[j] BY <1>0, <2>3 DEF LoopType
  <2> QED BY <2>2, <2>3, <2>4 DEF Beating
<1>2. ASSUME NEW k \in Conns, ReportDrop(k) \/ ReadLoggedOff(k)
      PROVE  /\ UNCHANGED <<conn, done, sess, phase, lock, hb>> /\ (loggedIn' => loggedIn)
             /\ \A q \in Procs : pc'[q] = pc[q] \/ (pc[q] = "off" /\ pc'[q] = "wake")
             /\ \A j \in Conns : Reading(j)' => Reading(j)
  <2>1. /\ FireDisconnect(k) /\ UNCHANGED <<conn, done, sess, phase, lock, hb>>
        /\ Reading(k) /\ \E s : rl' = [rl EXCEPT ![k] = s]
    BY <1>2 DEF ReportDrop, ReadLoggedOff, Reading
  <2>2. loggedIn' => loggedIn BY <2>1 DEF FireDisconnect
  <2>3. \A j \in Conns : j # k => rl'[j] = rl[j] BY <1>0, <2>1 DEF LoopType
  <2>4. fired + 1 \in Handlers => pc[fired + 1] = "off"
    BY <1>0 DEF EventType, HandlersStarted
  <2>5. \A q \in Procs : pc'[q] = pc[q] \/ (pc[q] = "off" /\ pc'[q] = "wake")
    BY <1>0, <2>1, <2>4, FireDisconnectFacts DEF AppType
  <2> QED BY <2>1, <2>2, <2>3, <2>5 DEF Reading
<1>3. ASSUME NEW k \in Conns,
             LoggedOffClose(k) \/ LoggedOffShut(k) \/ ReadFails(k) \/ CheckDone(k)
      PROVE  /\ UNCHANGED <<conn, done, sess, phase, lock, pc, hb, loggedIn>>
             /\ \A j \in Conns : Reading(j)' => Reading(j)
  <2>1. Reading(k) /\ \E s : rl' = [rl EXCEPT ![k] = s]
    BY <1>3 DEF LoggedOffClose, LoggedOffShut, ReadFails, CheckDone, Reading
  <2>2. \A j \in Conns : j # k => rl'[j] = rl[j] BY <1>0, <2>1 DEF LoopType
  <2>3. UNCHANGED <<conn, done, sess, phase, lock, pc, hb, loggedIn>>
    BY <1>3 DEF LoggedOffClose, LoggedOffShut, ReadFails, CheckDone, client, app
  <2> QED BY <2>1, <2>2, <2>3 DEF Reading
<1>4. ASSUME NEW k \in Conns,
             \/ \E verdict \in {-1, k} : ReadLogonResponse(k, verdict)
             \/ Breaks(k) \/ Stalls(k)
      PROVE UNCHANGED <<client, loops, pc, lock, phase>>
  BY <1>4 DEF ReadLogonResponse, Breaks, Stalls, app
<1>5. CASE UNCHANGED vars BY <1>5 DEF vars, client, loops, app, Reading, Beating
<1> QED
  BY <1>1, <1>2, <1>3, <1>4, <1>5
  DEF Unwinds, Serves, client, loops, app, Reading, Beating

\* The goroutines of the application keep to their phases and the heartbeats
\* to their owners.
LEMMA NextOrder == ASSUME Sequential, IInv, Order, [Next]_vars PROVE Order'
<1>0. /\ ClientType /\ LoopType /\ AppType /\ PhaseMarks /\ Exclusive
      /\ LoginHolds /\ StagePhases /\ BeatsHaveOwner /\ Dialled
  BY DEF IInv, TypeOK, Core, Owned, Closes, Order
<1> USE DEF Inside, Critical, ConnectPcs, DisconnectPcs, ReconnectPcs, LoginPcs, Tearing, Up
<1>1. ASSUME \/ \E i \in Beats : Beat(i)
             \/ \E k \in Conns : Unwinds(k) \/ Serves(k)
             \/ UNCHANGED vars
      PROVE  Order'
  <2>1. /\ UNCHANGED <<conn, phase, lock>>
        /\ \A q \in Procs : pc'[q] = pc[q] \/ (pc[q] = "off" /\ pc'[q] = "wake")
        /\ \A i \in Beats : Beating(i)' => Beating(i)
    BY <1>1, LoopsMove
  <2>2. (LoginHolds /\ StagePhases)' BY <1>0, <2>1 DEF LoginHolds, StagePhases
  <2>3. BeatsHaveOwner' BY <1>0, <2>1 DEF BeatsHaveOwner
  <2>4. Dialled' BY <1>0, <2>1 DEF Dialled
  <2> QED BY <2>2, <2>3, <2>4 DEF Order
<1>2. ASSUME NEW p \in Procs, Begins(p) \/ Proceeds(p) \/ AwaitExpired(p) PROVE Order'
  <2>1. CASE HandlerQuits(p)
    <3>1. /\ pc[p] \in {"wake", "linked"} /\ pc' = [pc EXCEPT ![p] = "end"]
          /\ UNCHANGED <<conn, phase, lock, hb>>
      BY <2>1 DEF HandlerQuits, Goto, client, loops
    <3>2. \A q \in Procs : pc'[q] = pc[q] \/ (pc[q] \in {"wake", "linked"} /\ pc'[q] = "end")
      BY <1>0, <3>1 DEF AppType
    <3>3. (LoginHolds /\ StagePhases)' BY <1>0, <3>1, <3>2 DEF LoginHolds, StagePhases
    <3>4. BeatsHaveOwner' BY <1>0, <3>1, <3>2 DEF BeatsHaveOwner, Beating
    <3>5. Dialled' BY <1>0, <3>1 DEF Dialled
    <3> QED BY <3>3, <3>4, <3>5 DEF Order
  <2>2. CASE ~HandlerQuits(p)
    <3>1. /\ \A q \in Procs : q # p => pc'[q] = pc[q] /\ pc[q] \notin Inside
          /\ \A q \in Procs : q # p => pc'[q] \notin Inside
      BY <1>2, <2>2, Alone
    <3>2. ASSUME pc'[p] \in LoginPcs => lock' = p /\ phase' = "linked",
                 pc'[p] \in ReconnectPcs => phase' \in {"broken", "misused"},
                 pc'[p] \in ConnectPcs => phase' \notin Up,
                 phase' \notin {"fresh", "misused"} => conn' > 0,
                 phase' = "fresh" => conn' = 0 \/ pc'[p] = "start",
                 \A i \in Beats : Beating(i)' =>
                   phase' \in Up \/ (phase' # "misused" /\ pc'[p] \in Tearing)
          PROVE  Order'
      BY <3>1, <3>2 DEF Order, LoginHolds, StagePhases, BeatsHaveOwner, Dialled
    <3>3. \A i \in Beats :
            Beating(i) => phase \in Up \/ (phase # "misused" /\ pc[p] \in Tearing)
      BY <1>0, <3>1 DEF BeatsHaveOwner
    <3>a. phase = "fresh" => conn = 0 \/ pc[p] = "start" BY <1>0, <3>1 DEF Dialled
    <3>b. pc[p] \in DisconnectPcs \cup ReconnectPcs \cup LoginPcs => phase # "fresh"
      BY <1>0 DEF PhaseMarks, LoginHolds, Live
    <3> HIDE DEF Inside, Tearing
    <3>18. CASE LoginPanics(p)
      <4>1. phase = "fresh" /\ pc[p] \in {"idle", "linked"}
        BY <1>0, <3>18 DEF LoginPanics, Calls, Sequential, Dialled
      <4>2. \A i \in Beats : ~Beating(i) BY <3>3, <4>1 DEF Tearing
      <4> QED
        BY <1>0, <3>2, <3>18, <4>1, <4>2 DEF LoginPanics, loops, Beating
    <3>4. CASE ConnectBegin(p)
      BY <1>0, <3>2, <3>3, <3>4, <3>a
      DEF ConnectBegin, Calls, Goto, client, loops, AppType, Dialled, Beating, Tearing,
          Sequential
    <3>5. CASE DisconnectBegin(p)
      BY <1>0, <3>2, <3>3, <3>5
      DEF DisconnectBegin, Calls, Turns, Goto, loops, AppType, Dialled, Live, Beating, Tearing
    <3>6. CASE ReconnectBegin(p)
      BY <1>0, <3>2, <3>3, <3>6
      DEF ReconnectBegin, Calls, Turns, Goto, client, loops, AppType, Dialled, Live, Beating,
          Tearing
    <3>7. CASE LoginBegin(p)
      <4>1. phase = "linked"
        BY <1>0, <3>7, <3>a DEF LoginBegin, Calls, Sequential
      <4> QED
        BY <1>0, <3>2, <3>7, <4>1
        DEF LoginBegin, Goto, client, AppType, Dialled, Sequential, Ops, Acquire
    <3>8. CASE LoginRefused(p)
      BY <1>0, <3>2, <3>3, <3>8, <3>a
      DEF LoginRefused, Calls, Goto, client, loops, AppType, Dialled, Beating, Tearing
    <3>9. CASE DialFails(p)
      <4>1. \A i \in Beats : ~Beating(i) BY <1>0, <3>9, NoneBeating DEF DialFails
      <4> QED
        BY <1>0, <3>2, <3>9, <3>a, <4>1
        DEF DialFails, Return, Goto, client, loops, AppType, Dialled, Beating
    <3>10. CASE DialWorks(p)
      <4>1. \A i \in Beats : ~Beating(i) BY <1>0, <3>10, NoneBeating DEF DialWorks
      <4>2. conn' > 0 BY <1>0, <3>10 DEF DialWorks, ClientType
      <4> QED
        BY <1>0, <3>2, <3>10, <4>1, <4>2
        DEF DialWorks, Goto, loops, AppType, StagePhases, Beating
    <3>11. CASE StartReadLoop(p)
      <4>1. conn > 0 BY <3>11 DEF StartReadLoop, IInv, Core, Owned, Headroom
      <4> QED
        BY <1>0, <3>2, <3>11, <4>1 DEF StartReadLoop, Return, Goto, AppType
    <3>12. CASE TeardownClose(p) \/ TeardownShut(p)
      <4>1. /\ pc[p] \in {"discClose", "recClose", "discShut", "recShut"}
            /\ pc' = [pc EXCEPT ![p] = Teardown[pc[p]]]
            /\ UNCHANGED <<conn, phase, hb>>
        BY <3>12 DEF TeardownClose, TeardownShut, Goto, client, loops
      <4>2. /\ pc'[p] = Teardown[pc[p]]
            /\ pc'[p] \in Tearing /\ (pc'[p] \in ReconnectPcs => pc[p] \in ReconnectPcs)
        BY <1>0, <4>1, TeardownFacts DEF AppType, Tearing
      <4> QED
        BY <1>0, <3>2, <3>3, <3>b, <4>1, <4>2 DEF StagePhases, Dialled, Beating, Tearing, Up
    <3>13. CASE TeardownWait(p)
      <4>1. /\ pc[p] \in {"discWait", "recWait"}
            /\ pc' = [pc EXCEPT ![p] = Teardown[pc[p]]]
            /\ UNCHANGED <<conn, phase, hb>> /\ \A i \in Beats : ~Beating(i)
        BY <3>13 DEF TeardownWait, Goto, client, loops, Quiet
      <4>2. /\ pc'[p] \in {"discReset", "recReset"}
            /\ (pc'[p] \in ReconnectPcs => pc[p] \in ReconnectPcs)
        BY <1>0, <4>1, TeardownFacts DEF AppType
      <4> QED
        BY <1>0, <3>2, <3>b, <4>1, <4>2 DEF StagePhases, Dialled, Beating
    <3>14. CASE DisconnectReset(p) \/ ReconnectReset(p) \/ ReconnectLogout(p)
      <4>1. \A i \in Beats : ~Beating(i)
        BY <1>0, <3>14, NoneBeating DEF DisconnectReset, ReconnectReset, ReconnectLogout
      <4> QED
        BY <1>0, <3>2, <3>14, <3>b, <4>1
        DEF DisconnectReset, ReconnectReset, ReconnectLogout, Return, Goto, loops, AppType,
            StagePhases, Dialled, Beating
    <3>15. CASE SendLogon(p) \/ AwaitEnter(p) \/ AwaitAccepted(p) \/ PublishSession(p)
      <4>1. /\ pc[p] \in LoginPcs /\ pc'[p] \in LoginPcs
            /\ UNCHANGED <<conn, phase, lock>>
        BY <1>0, <3>15
        DEF SendLogon, AwaitEnter, AwaitAccepted, PublishSession, Goto, client, AppType
      <4> QED BY <1>0, <3>2, <4>1 DEF LoginHolds, Dialled
    <3>16. CASE \/ SendLogonFails(p) \/ AwaitDenied(p) \/ AwaitDropped(p) \/ AwaitExpired(p)
      <4>1. /\ pc[p] \in LoginPcs /\ pc'[p] \in {"idle", "end"}
            /\ UNCHANGED <<conn, phase>>
        BY <1>0, <3>16
        DEF SendLogonFails, AwaitDenied, AwaitDropped, AwaitExpired, LoginFails, Return, Goto,
            client, AppType
      <4> QED BY <1>0, <3>2, <4>1 DEF LoginHolds, Dialled
    <3>17. CASE StartHeartbeat(p)
      <4>1. /\ pc[p] \in LoginPcs /\ pc'[p] \in {"idle", "end"} /\ phase = "linked"
            /\ phase' = "online" /\ UNCHANGED conn
        BY <1>0, <3>17 DEF StartHeartbeat, Return, Goto, client, AppType, LoginHolds
      <4> QED BY <1>0, <3>2, <4>1 DEF Dialled
    <3> QED
      BY <1>2, <2>2, <3>4, <3>5, <3>6, <3>7, <3>8, <3>9, <3>10, <3>11, <3>12, <3>13, <3>14,
         <3>15, <3>16, <3>17, <3>18
      DEF Begins, Proceeds
  <2> QED BY <2>1, <2>2
<1> QED BY <1>1, <1>2 DEF Next

\* The session follows the connection: a step of Session's goroutines keeps
\* loggedIn, sess and conn in agreement.
LEMMA NextSession ==
  ASSUME Sequential, IInv, Order, Session, [Next]_vars PROVE Session'
<1>0. /\ ClientType /\ LoopType /\ AppType /\ PhaseMarks /\ Exclusive /\ LoopsAreCurrent
      /\ GrantInHand /\ LoginHolds /\ StagePhases
      /\ LoggedOutBetween /\ GotCurrent /\ SessionIsCurrent
  BY DEF IInv, TypeOK, Core, Owned, Closes, Order, Session
<1>1. ASSUME UNCHANGED <<conn, sess, phase, lock>>, loggedIn' => loggedIn,
             \A q \in Procs : pc'[q] = pc[q] \/ (pc[q] = "off" /\ pc'[q] = "wake"),
             \A q \in Procs : got'[q] \in {got[q], -1, conn}
      PROVE  Session'
  <2>1. LoggedOutBetween' BY <1>0, <1>1 DEF LoggedOutBetween, ConnectPcs
  <2>2. GotCurrent' BY <1>0, <1>1 DEF GotCurrent, LoginPcs
  <2> QED BY <1>0, <1>1, <2>1, <2>2 DEF Session, SessionIsCurrent
<1>2. ASSUME \/ \E i \in Beats : Beat(i)
             \/ \E k \in Conns : Unwinds(k) \/ Serves(k)
             \/ UNCHANGED vars
      PROVE  Session'
  <2>1. /\ UNCHANGED <<conn, sess, phase, lock>> /\ (loggedIn' => loggedIn)
        /\ \A q \in Procs : pc'[q] = pc[q] \/ (pc[q] = "off" /\ pc'[q] = "wake")
    BY <1>2, LoopsMove
  <2>2. ASSUME NEW k \in Conns, NEW verdict \in {-1, k}, ReadLogonResponse(k, verdict)
        PROVE \A q \in Procs : got'[q] \in {got[q], -1, conn}
    <3>1. k = conn BY <1>0, <2>2 DEF ReadLogonResponse, LoopsAreCurrent, Reading
    <3> QED BY <2>2, <3>1 DEF ReadLogonResponse
  <2>3. CASE UNCHANGED got BY <1>1, <2>1, <2>3
  <2>4. ASSUME NEW k \in Conns, Unwinds(k) \/ ReadLoggedOff(k) \/ Breaks(k) \/ Stalls(k)
        PROVE UNCHANGED got
    BY <2>4 DEF Unwinds, LoggedOffClose, LoggedOffShut, ReadFails, CheckDone, ReportDrop,
                ReadLoggedOff, Breaks, Stalls, app
  <2>5. ASSUME NEW i \in Beats, Beat(i) PROVE UNCHANGED got
    BY <2>5 DEF Beat, BeatEnter, BeatStops, BeatSends, BeatFails, BeatShuts, app
  <2>6. UNCHANGED vars => UNCHANGED got BY DEF vars, app
  <2> QED BY <1>1, <1>2, <2>1, <2>2, <2>3, <2>4, <2>5, <2>6 DEF Serves
<1>3. ASSUME NEW p \in Procs, Begins(p) \/ Proceeds(p) \/ AwaitExpired(p) PROVE Session'
  <2>1. CASE HandlerQuits(p)
    <3>1. /\ pc' = [pc EXCEPT ![p] = "end"] /\ UNCHANGED <<conn, sess, loggedIn, phase, got>>
      BY <2>1 DEF HandlerQuits, Goto, client
    <3>2. \A q \in Procs : pc'[q] = pc[q] \/ pc'[q] = "end" BY <1>0, <3>1 DEF AppType
    <3>3. LoggedOutBetween' BY <1>0, <3>1, <3>2 DEF LoggedOutBetween, ConnectPcs
    <3>4. GotCurrent' BY <1>0, <3>1, <3>2 DEF GotCurrent, LoginPcs
    <3> QED BY <1>0, <3>1, <3>3, <3>4 DEF Session, SessionIsCurrent
  <2>2. CASE ~HandlerQuits(p)
    <3>1. \A q \in Procs : q # p => pc'[q] = pc[q] /\ pc'[q] \notin Inside
      BY <1>3, <2>2, Alone
    <3>2. ASSUME loggedIn' => phase' \in Live /\ pc'[p] \notin ConnectPcs /\ sess' = conn',
                 pc'[p] \in LoginPcs => got'[p] \in {-1, 0, conn'}
          PROVE  Session'
      <4>1. LoggedOutBetween' BY <3>1, <3>2 DEF LoggedOutBetween, Inside, Critical
      <4>2. GotCurrent' BY <3>1, <3>2 DEF GotCurrent, Inside
      <4> QED BY <3>2, <4>1, <4>2 DEF Session, SessionIsCurrent
    <3> USE DEF ConnectPcs, DisconnectPcs, ReconnectPcs, LoginPcs, Live
    <3>3. CASE ConnectBegin(p)
      BY <1>0, <3>2, <3>3
      DEF ConnectBegin, Calls, Sequential, Goto, client, AppType, LoggedOutBetween
    <3>4. CASE DisconnectBegin(p)
      BY <1>0, <3>2, <3>4 DEF DisconnectBegin, Goto, ClearLogin, AppType
    <3>5. CASE ReconnectBegin(p)
      BY <1>0, <3>2, <3>5
      DEF ReconnectBegin, Turns, Goto, client, AppType, LoggedOutBetween, SessionIsCurrent
    <3>15. CASE LoginPanics(p)
      BY <1>0, <3>2, <3>15
      DEF LoginPanics, Calls, Sequential, LoggedOutBetween, Order, Dialled
    <3>6. CASE LoginBegin(p) \/ LoginRefused(p)
      BY <1>0, <3>2, <3>6
      DEF LoginBegin, LoginRefused, Goto, client, AppType, LoggedOutBetween, SessionIsCurrent
    <3>7. CASE DialFails(p) \/ DialWorks(p) \/ StartReadLoop(p)
      <4>1. ~loggedIn' /\ pc'[p] \notin LoginPcs
        BY <1>0, <3>7
        DEF DialFails, DialWorks, StartReadLoop, Return, Goto, client, AppType, LoggedOutBetween
      <4> QED BY <3>2, <4>1
    <3>8. CASE TeardownClose(p) \/ TeardownShut(p) \/ TeardownWait(p)
      <4>1. /\ pc[p] \in {"discClose", "recClose", "discShut", "recShut", "discWait", "recWait"}
            /\ pc' = [pc EXCEPT ![p] = Teardown[pc[p]]]
            /\ UNCHANGED <<conn, sess, loggedIn, phase>>
        BY <3>8 DEF TeardownClose, TeardownShut, TeardownWait, Goto, client
      <4>2. pc'[p] \notin LoginPcs \cup ConnectPcs
        BY <1>0, <4>1, TeardownFacts DEF AppType
      <4> QED BY <1>0, <3>2, <4>1, <4>2 DEF LoggedOutBetween, SessionIsCurrent
    <3>9. CASE DisconnectReset(p) \/ ReconnectReset(p)
      BY <1>0, <3>2, <3>9
      DEF DisconnectReset, ReconnectReset, Return, Goto, AppType, LoggedOutBetween,
          SessionIsCurrent
    <3>10. CASE ReconnectLogout(p)
      BY <1>0, <3>2, <3>10 DEF ReconnectLogout, ClearLogin, Goto, AppType
    <3>11. CASE SendLogon(p) \/ AwaitEnter(p) \/ AwaitAccepted(p)
      BY <1>0, <3>2, <3>11
      DEF SendLogon, AwaitEnter, AwaitAccepted, Goto, client, AppType, GotCurrent,
          LoggedOutBetween, SessionIsCurrent
    <3>12. CASE SendLogonFails(p) \/ LoginFails(p)
      BY <1>0, <3>2, <3>12
      DEF SendLogonFails, LoginFails, Return, Goto, client, AppType, LoggedOutBetween,
          SessionIsCurrent
    <3>13. CASE PublishSession(p)
      <4>1. pc[p] = "set" /\ pc'[p] = "beat" /\ phase' = "linked"
            /\ UNCHANGED <<got, conn>> /\ sess' = got[p]
        BY <1>0, <3>13 DEF PublishSession, Goto, AppType, LoginHolds
      <4>2. got[p] = conn
        BY <1>0, <4>1 DEF GrantInHand, GotCurrent
      <4> QED BY <3>2, <4>1, <4>2
    <3>14. CASE StartHeartbeat(p)
      BY <1>0, <3>2, <3>14
      DEF StartHeartbeat, Return, Goto, client, AppType, LoggedOutBetween, SessionIsCurrent
    <3> QED
      BY <1>3, <2>2, <3>3, <3>4, <3>5, <3>6, <3>7, <3>8, <3>9, <3>10, <3>11, <3>12, <3>13, <3>14,
         <3>15
      DEF Begins, Proceeds, AwaitDenied, AwaitDropped, AwaitExpired
  <2> QED BY <2>1, <2>2
<1> QED BY <1>2, <1>3 DEF Next

\* closeOnce stands for a done that is closed, and is fresh again before a
\* new connection gets its done.
OnceMeansClosed == closeOnce => done \in closed
OnceIsFresh == closeOnce =>
  /\ phase \in Live \/ \E p \in Procs : pc[p] \in DisconnectPcs
  /\ \A p \in Procs : pc[p] \notin ConnectPcs \cup {"recLogout"}
TornDown == \A p \in Procs :
  pc[p] \in {"discShut", "discWait", "recShut", "recWait"} => closeOnce

OnceKept == OnceMeansClosed /\ OnceIsFresh /\ TornDown
Once == ~panicked => OnceKept

\* closeOnce and done change together, or done is new and closeOnce fresh.
LEMMA NextOnce == ASSUME Sequential, IInv, Order, Once, [Next]_vars PROVE Once'
<1> SUFFICES ASSUME ~panicked' PROVE OnceKept'
  BY DEF Once
<1>p. ~panicked BY DEF Next, vars, client
<1>0. /\ ClientType /\ LoopType /\ AppType /\ PhaseMarks /\ NoLoopBetween
      /\ LoopsHaveOwner /\ StagePhases /\ OnceMeansClosed /\ OnceIsFresh /\ TornDown
  BY <1>p DEF IInv, TypeOK, Core, Owned, Closes, Order, Once, OnceKept
<1>2. ASSUME CloseDone, UNCHANGED done PROVE closeOnce' /\ OnceMeansClosed'
  <2>1. CASE closeOnce
    BY <1>0, <1>2, <2>1 DEF CloseDone, OnceMeansClosed
  <2>2. CASE ~closeOnce
    <3>1. closeOnce' = TRUE /\ panicked' = ~Closable BY <1>2, <2>2 DEF CloseDone
    <3>2. Closable BY <3>1
    <3>3. closed' = closed \cup {done} BY <1>2, <2>2, <3>2 DEF CloseDone
    <3> QED BY <1>2, <3>1, <3>3 DEF OnceMeansClosed
  <2> QED BY <2>1, <2>2
<1>3. ASSUME \/ \E i \in Beats : Beat(i)
             \/ \E k \in Conns : Unwinds(k) \/ Serves(k)
             \/ UNCHANGED vars
      PROVE  OnceKept'
  <2>1. /\ UNCHANGED <<done, phase>>
        /\ \A q \in Procs : pc'[q] = pc[q] \/ (pc[q] = "off" /\ pc'[q] = "wake")
    BY <1>3, LoopsMove
  <2>2. TornDown /\ (closeOnce => closeOnce') => TornDown' BY <2>1 DEF TornDown
  <2>3. ASSUME UNCHANGED <<closed, closeOnce>> PROVE OnceKept'
    <3>1. OnceMeansClosed' BY <1>0, <2>1, <2>3 DEF OnceMeansClosed
    <3>2. OnceIsFresh'
      BY <1>0, <2>1, <2>3 DEF OnceIsFresh, ConnectPcs, DisconnectPcs
    <3> QED BY <1>0, <2>2, <2>3, <3>1, <3>2 DEF OnceKept
  <2>4. ASSUME NEW k \in Conns, LoggedOffClose(k) PROVE OnceKept'
    <3>1. CloseDone /\ Reading(k) BY <2>4 DEF LoggedOffClose, Reading
    <3>2. OnceMeansClosed' /\ closeOnce' BY <1>2, <2>1, <3>1
    <3>3. OnceIsFresh'
      BY <1>0, <2>1, <3>1
      DEF LoopsHaveOwner, NoLoopBetween, OnceIsFresh, ConnectPcs, DisconnectPcs
    <3> QED BY <1>0, <2>2, <3>2, <3>3 DEF OnceKept
  <2>5. ASSUME NEW k \in Conns, Unwinds(k) \/ Serves(k), ~LoggedOffClose(k)
        PROVE UNCHANGED <<closed, closeOnce>>
    BY <2>5 DEF Unwinds, Serves, LoggedOffShut, ReadFails, CheckDone, ReportDrop,
                ReadLogonResponse, ReadLoggedOff, Breaks, Stalls, client
  <2>6. ASSUME NEW i \in Beats, Beat(i) PROVE UNCHANGED <<closed, closeOnce>>
    BY <2>6 DEF Beat, BeatEnter, BeatStops, BeatSends, BeatFails, BeatShuts, client
  <2>7. UNCHANGED vars => UNCHANGED <<closed, closeOnce>> BY DEF vars, client
  <2> QED BY <1>3, <2>3, <2>4, <2>5, <2>6, <2>7
<1>4. ASSUME NEW p \in Procs, Begins(p) \/ Proceeds(p) \/ AwaitExpired(p) PROVE OnceKept'
  <2>1. CASE HandlerQuits(p)
    <3>1. /\ pc[p] \in {"wake", "linked"} /\ pc' = [pc EXCEPT ![p] = "end"]
          /\ UNCHANGED <<done, closed, closeOnce, phase>>
      BY <2>1 DEF HandlerQuits, Goto, client
    <3>2. \A q \in Procs : pc'[q] = pc[q] \/ (pc[q] \in {"wake", "linked"} /\ pc'[q] = "end")
      BY <1>0, <3>1 DEF AppType
    <3>3. OnceMeansClosed' BY <1>0, <3>1 DEF OnceMeansClosed
    <3>4. OnceIsFresh' BY <1>0, <3>1, <3>2 DEF OnceIsFresh, ConnectPcs, DisconnectPcs
    <3>5. TornDown' BY <1>0, <3>1, <3>2 DEF TornDown
    <3> QED BY <3>3, <3>4, <3>5 DEF OnceKept
  <2>2. CASE ~HandlerQuits(p)
    <3>1. /\ \A q \in Procs : q # p => pc'[q] = pc[q] /\ pc[q] \notin Inside
          /\ \A q \in Procs : q # p => pc'[q] \notin Inside
      BY <1>4, <2>2, Alone
    <3>2. closeOnce => phase \in Live \/ pc[p] \in DisconnectPcs
      BY <1>0, <3>1 DEF OnceIsFresh, Inside, Critical
    <3>3. ASSUME closeOnce' => /\ done' \in closed'
                               /\ phase' \in Live \/ pc'[p] \in DisconnectPcs
                               /\ pc'[p] \notin ConnectPcs \cup {"recLogout"},
                 pc'[p] \in {"discShut", "discWait", "recShut", "recWait"} => closeOnce'
          PROVE  OnceKept'
      BY <3>1, <3>3 DEF OnceKept, OnceMeansClosed, OnceIsFresh, TornDown, Inside, Critical,
                        ConnectPcs, DisconnectPcs, ReconnectPcs
    <3> USE DEF ConnectPcs, DisconnectPcs, Live
    <3>4. CASE ConnectBegin(p)
      BY <1>0, <3>2, <3>3, <3>4
      DEF ConnectBegin, Calls, Sequential, Goto, client, AppType, OnceMeansClosed
    <3>5. CASE DisconnectBegin(p) \/ ReconnectBegin(p)
      BY <1>0, <3>2, <3>3, <3>5
      DEF DisconnectBegin, ReconnectBegin, Calls, Turns, Goto, client, AppType, OnceMeansClosed
    <3>12. CASE LoginPanics(p)
      <4>1. phase = "fresh" BY <3>12 DEF LoginPanics, Calls, Sequential, Order, Dialled
      <4> QED BY <1>0, <3>2, <3>3, <3>12, <4>1 DEF LoginPanics, Calls
    <3>6. CASE \/ LoginBegin(p) \/ LoginRefused(p) \/ SendLogon(p) \/ SendLogonFails(p)
               \/ AwaitEnter(p) \/ AwaitAccepted(p) \/ AwaitDenied(p) \/ AwaitDropped(p)
               \/ AwaitExpired(p) \/ PublishSession(p) \/ StartHeartbeat(p)
      <4>1. /\ pc'[p] \in {"logon", "idle", "end", "select", "await", "set", "beat"}
            /\ UNCHANGED <<done, closed, closeOnce>>
            /\ phase' = phase \/ phase' = "online"
        BY <1>0, <3>6
        DEF LoginBegin, LoginRefused, SendLogon, SendLogonFails, AwaitEnter, AwaitAccepted,
            AwaitDenied, AwaitDropped, AwaitExpired, LoginFails, PublishSession,
            StartHeartbeat, Return, Goto, client, AppType
      <4>2. pc[p] \notin DisconnectPcs
        BY <3>6
        DEF LoginBegin, LoginRefused, SendLogon, SendLogonFails, AwaitEnter, AwaitAccepted,
            AwaitDenied, AwaitDropped, AwaitExpired, PublishSession, StartHeartbeat, Calls
      <4> QED BY <1>0, <3>2, <3>3, <4>1, <4>2 DEF OnceMeansClosed
    <3>7. CASE DialFails(p) \/ DialWorks(p) \/ StartReadLoop(p)
      <4>1. ~closeOnce /\ UNCHANGED closeOnce
        BY <1>0, <3>7 DEF DialFails, DialWorks, StartReadLoop, client, OnceIsFresh
      <4>2. pc'[p] \notin {"discShut", "discWait", "recShut", "recWait"}
        BY <1>0, <3>7 DEF DialFails, DialWorks, StartReadLoop, Return, Goto, AppType
      <4> QED BY <3>3, <4>1, <4>2
    <3>8. CASE TeardownClose(p)
      <4>1. /\ pc[p] \in {"discClose", "recClose"} /\ pc' = [pc EXCEPT ![p] = Teardown[pc[p]]]
            /\ closeOnce' /\ OnceMeansClosed' /\ UNCHANGED <<done, phase>>
        BY <1>2, <3>8 DEF TeardownClose, Goto
      <4>2. /\ pc'[p] \in {"discShut", "recShut"}
            /\ pc'[p] \in DisconnectPcs <=> pc[p] \in DisconnectPcs
        BY <1>0, <4>1, TeardownFacts DEF AppType
      <4>3. phase \in Live \/ pc[p] \in DisconnectPcs
        <5>1. CASE phase = "misused"
          <6>1. Unguarded BY <1>4, <5>1, <1>p DEF IInv, Core, Panics, Misuse
          <6> QED BY <3>8, <6>1 DEF TeardownClose, CloseDone, Unguarded
        <5>2. CASE phase # "misused"
          BY <1>0, <4>1, <5>2 DEF PhaseMarks, ReconnectPcs
        <5> QED BY <5>1, <5>2
      <4> QED BY <3>3, <4>1, <4>2, <4>3 DEF OnceMeansClosed
    <3>9. CASE TeardownShut(p) \/ TeardownWait(p)
      <4>1. /\ pc[p] \in {"discShut", "recShut", "discWait", "recWait"}
            /\ pc' = [pc EXCEPT ![p] = Teardown[pc[p]]]
            /\ UNCHANGED <<done, closed, closeOnce, phase>>
        BY <3>9 DEF TeardownShut, TeardownWait, Goto, client
      <4>2. /\ pc'[p] \in {"discWait", "recWait", "discReset", "recReset"}
            /\ pc'[p] \in DisconnectPcs <=> pc[p] \in DisconnectPcs
        BY <1>0, <4>1, TeardownFacts DEF AppType
      <4>3. closeOnce BY <1>0, <4>1 DEF TornDown
      <4> QED BY <1>0, <3>2, <3>3, <4>1, <4>2, <4>3 DEF OnceMeansClosed
    <3>10. CASE DisconnectReset(p) \/ ReconnectReset(p)
      BY <1>0, <3>3, <3>10
      DEF DisconnectReset, ReconnectReset, ResetOnces, Return, Goto, AppType
    <3>11. CASE ReconnectLogout(p)
      <4>1. ~closeOnce /\ UNCHANGED closeOnce
        BY <1>0, <3>11 DEF ReconnectLogout, OnceIsFresh
      <4> QED BY <1>0, <3>3, <3>11, <4>1 DEF ReconnectLogout, Goto, AppType
    <3> QED
      BY <1>4, <2>2, <3>4, <3>5, <3>6, <3>7, <3>8, <3>9, <3>10, <3>11, <3>12
      DEF Begins, Proceeds
  <2> QED BY <2>1, <2>2
<1> QED BY <1>3, <1>4 DEF Next

\* Whatever ends a connection is on record: the server or the network did it,
\* which makes it one of faults, or the client closed done before it.
FaultsShow == \A k \in Conns : cs[k] \in {"stalled", "dropped"} => k \in faults
ReadersFailFor == \A k \in Conns :
  /\ rl[k] = "failed" => cs[k] \in {"dropped", "shut"}
  /\ rl[k] \in {"offClose", "offShut", "report"} => k \in faults
Alive ==
  \/ phase \in Up \/ \E p \in Procs : pc[p] = "start"
  \/ \E k \in Conns : Reading(k)
  \/ \E i \in Beats : Beating(i)
ShutHasCause ==
  conn > 0 /\ cs[conn] = "shut" /\ Alive => conn \in faults \/ done \in closed
StartOpen == \A p \in Procs : pc[p] = "start" => cs[conn] # "shut"
BeatBroke == \A i \in Beats : hb[i] = "close" =>
  hbConn[i] = conn /\ conn > 0 /\ cs[conn] \in {"stalled", "dropped", "shut"}

Causes ==
  /\ FaultsShow /\ ReadersFailFor /\ ShutHasCause /\ StartOpen /\ BeatBroke
  /\ NoPhantomEvent

\* A step that breaks, shuts, dials and reports nothing.
LEMMA CausesFrame ==
  ASSUME Causes, UNCHANGED <<conn, done, cs, fired, evConn>>,
         closed \subseteq closed', faults \subseteq faults', Alive' => Alive,
         \A k \in Conns : rl'[k] \in {"failed", "offClose", "offShut", "report"} => rl'[k] = rl[k],
         \A q \in Procs : pc'[q] = "start" => pc[q] = "start",
         \A i \in Beats : hb'[i] = "close" => hb[i] = "close" /\ hbConn'[i] = hbConn[i]
  PROVE  Causes'
<1>1. FaultsShow' BY DEF Causes, FaultsShow
<1>2. ReadersFailFor' BY DEF Causes, ReadersFailFor
<1>3. ShutHasCause' BY DEF Causes, ShutHasCause
<1>4. StartOpen' BY DEF Causes, StartOpen
<1>5. BeatBroke' BY DEF Causes, BeatBroke
<1>6. NoPhantomEvent' BY DEF Causes, NoPhantomEvent
<1> QED BY <1>1, <1>2, <1>3, <1>4, <1>5, <1>6 DEF Causes

\* Where a heartbeat runs, there is a connection.
LEMMA BeatingDialled == ASSUME IInv, Order, NEW i \in Beats, Beating(i) PROVE conn \in Conns
<1>1. phase \notin {"fresh", "misused"}
  BY DEF Order, BeatsHaveOwner, StagePhases, Up, Tearing, IInv, Core, Closes, PhaseMarks,
         DisconnectPcs, ReconnectPcs
<1>2. conn \in 0..MaxConns /\ conn > 0 BY <1>1 DEF Order, Dialled, IInv, TypeOK, ClientType
<1> QED BY <1>2, BoundsAssumption DEF Conns

\* The heartbeats and the network.
LEMMA BeatsCause ==
  ASSUME IInv, Order, Causes,
         \/ \E i \in Beats : Beat(i)
         \/ \E k \in Conns : Breaks(k) \/ Stalls(k)
  PROVE  Causes'
<1>0. ClientType /\ LoopType /\ NetType /\ FaultsShow /\ StartOpen /\ BeatBroke /\ ShutHasCause
  BY DEF IInv, TypeOK, Causes
<1>1. ASSUME NEW i \in Beats, BeatEnter(i) \/ BeatStops(i) \/ BeatSends(i) PROVE Causes'
  <2>1. /\ UNCHANGED <<client, rl, hbConn, app, net, events>>
        /\ Beating(i) /\ \E s \in {"select", "loop", "off"} : hb' = [hb EXCEPT ![i] = s]
    BY <1>1 DEF BeatEnter, BeatStops, BeatSends, Beating
  <2>2. \A j \in Beats : (hb'[j] = "close" => hb[j] = "close") /\ (Beating(j)' => Beating(j))
    BY <1>0, <2>1 DEF LoopType, Beating
  <2>3. Alive' => Alive BY <2>1, <2>2 DEF Alive, app, Reading
  <2>4. /\ UNCHANGED <<conn, done, closed, cs, faults, fired, evConn, rl, pc, hbConn>>
    BY <2>1 DEF client, app, net, events
  <2> QED BY <2>2, <2>3, <2>4, CausesFrame
<1>2. ASSUME NEW i \in Beats, BeatFails(i) PROVE Causes'
  <2>1. /\ UNCHANGED <<conn, done, closed, cs, faults, fired, evConn, rl, pc, phase>>
        /\ Beating(i) /\ WriteBreaks(conn)
        /\ hb' = [hb EXCEPT ![i] = "close"] /\ hbConn' = [hbConn EXCEPT ![i] = conn]
    BY <1>2 DEF BeatFails, client, app, net, events, Beating
  <2>2. conn \in Conns BY <2>1, BeatingDialled
  <2>3. BeatBroke'
    BY <1>0, <2>1, <2>2 DEF BeatBroke, LoopType, WriteBreaks, Conns
  <2>4. Alive BY <2>1 DEF Alive
  <2>5. (FaultsShow /\ ReadersFailFor /\ StartOpen /\ NoPhantomEvent)'
    BY <2>1 DEF Causes, FaultsShow, ReadersFailFor, StartOpen, NoPhantomEvent
  <2>6. ShutHasCause' BY <1>0, <2>1, <2>4 DEF ShutHasCause
  <2> QED BY <2>3, <2>5, <2>6 DEF Causes
<1>3. ASSUME NEW i \in Beats, BeatShuts(i) PROVE Causes'
  <2>1. /\ UNCHANGED <<conn, done, closed, faults, fired, evConn, rl, pc, phase>>
        /\ hb[i] = "close" /\ cs' = ShutOf(conn)
        /\ hb' = [hb EXCEPT ![i] = "off"] /\ hbConn' = [hbConn EXCEPT ![i] = 0]
    BY <1>3 DEF BeatShuts, client, app, events
  <2>2. Beating(i) /\ conn \in Conns BY <2>1, BeatingDialled DEF Beating
  <2>3. cs' = [cs EXCEPT ![conn] = "shut"] /\ cs'[conn] = "shut"
    BY <1>0, <2>1, <2>2 DEF ShutOf, NetType, Conns
  <2>4. \A k \in Conns : k # conn => cs'[k] = cs[k] BY <1>0, <2>3 DEF NetType
  <2>5. conn \in faults \/ done \in closed
    <3>1. cs[conn] \in {"stalled", "dropped", "shut"} BY <1>0, <2>1 DEF BeatBroke
    <3> QED BY <1>0, <2>2, <3>1 DEF FaultsShow, ShutHasCause, Alive, Conns
  <2>6. ShutHasCause' BY <2>1, <2>5 DEF ShutHasCause
  <2>7. FaultsShow' BY <1>0, <2>1, <2>3, <2>4 DEF FaultsShow
  <2>8. ReadersFailFor' BY <2>1, <2>3, <2>4 DEF Causes, ReadersFailFor
  <2>9. StartOpen' BY <2>1, <2>2, NoneBeating DEF StartOpen, ConnectPcs
  <2>10. BeatBroke' BY <1>0, <2>1, <2>3 DEF BeatBroke, LoopType
  <2>11. NoPhantomEvent' BY <2>1 DEF Causes, NoPhantomEvent
  <2> QED BY <2>6, <2>7, <2>8, <2>9, <2>10, <2>11 DEF Causes
<1>4. ASSUME NEW k \in Conns, Breaks(k) \/ Stalls(k) PROVE Causes'
  <2>1. /\ UNCHANGED <<conn, done, closed, fired, evConn, rl, hb, hbConn, pc, phase>>
        /\ faults' = faults \cup {k} /\ cs[k] \in {"open", "stalled"}
        /\ \E s \in {"stalled", "dropped"} : cs' = [cs EXCEPT ![k] = s]
    BY <1>4 DEF Breaks, Stalls, client, loops, app, events
  <2>2. \A j \in Conns : j # k => cs'[j] = cs[j] BY <1>0, <2>1 DEF NetType
  <2>3. cs'[k] \in {"stalled", "dropped"} /\ k \in faults' BY <1>0, <2>1 DEF NetType
  <2>4. FaultsShow' BY <1>0, <2>1, <2>2, <2>3 DEF FaultsShow
  <2>5. ReadersFailFor' BY <2>1, <2>2, <2>3 DEF Causes, ReadersFailFor
  <2>6. Alive' => Alive BY <2>1 DEF Alive, Reading, Beating
  <2>7. conn > 0 => conn \in Conns BY <1>0, BoundsAssumption DEF ClientType, Conns
  <2>8. ShutHasCause' BY <1>0, <2>1, <2>2, <2>3, <2>6, <2>7 DEF ShutHasCause
  <2>9. StartOpen'
    <3>1. \A p \in Procs : pc[p] = "start" => conn \in Conns
      BY <2>7 DEF IInv, Core, Owned, Headroom
    <3> QED BY <1>0, <2>1, <2>2, <2>3, <3>1 DEF StartOpen
  <2>10. BeatBroke' BY <1>0, <2>1, <2>2, <2>3, <2>7 DEF BeatBroke
  <2>11. NoPhantomEvent' BY <2>1 DEF Causes, NoPhantomEvent
  <2> QED BY <2>4, <2>5, <2>8, <2>9, <2>10, <2>11 DEF Causes
<1> QED BY <1>1, <1>2, <1>3, <1>4 DEF Beat

\* The read loops: what they report is on record.
LEMMA LoopsCause ==
  ASSUME IInv, Order, Causes, NEW k \in Conns,
         Unwinds(k) \/ ReadLoggedOff(k) \/ \E verdict \in {-1, k} : ReadLogonResponse(k, verdict)
  PROVE  Causes'
<1>0. /\ ClientType /\ LoopType /\ AppType /\ NetType /\ EventType
      /\ LoopsAreCurrent /\ NoLoopBetween
      /\ FaultsShow /\ ReadersFailFor /\ StartOpen /\ BeatBroke /\ ShutHasCause /\ NoPhantomEvent
  BY DEF IInv, TypeOK, Core, Owned, Causes
<1>1. Reading(k) => k = conn /\ Alive /\ \A p \in Procs : pc[p] # "start"
  BY <1>0 DEF LoopsAreCurrent, NoLoopBetween, Alive, ConnectPcs
<1>2. Alive' => Alive
  <2>1. /\ UNCHANGED phase /\ \A j \in Conns : Reading(j)' => Reading(j)
        /\ \A i \in Beats : Beating(i)' => Beating(i)
        /\ \A q \in Procs : pc'[q] = pc[q] \/ (pc[q] = "off" /\ pc'[q] = "wake")
    BY LoopsMove DEF Serves
  <2> QED BY <2>1 DEF Alive
<1>3. CASE LoggedOffClose(k)
  <2>1. /\ UNCHANGED <<conn, done, cs, faults, fired, evConn, hb, hbConn, pc>>
        /\ rl[k] = "offClose" /\ rl' = [rl EXCEPT ![k] = "offShut"] /\ closed \subseteq closed'
    BY <1>3 DEF LoggedOffClose, CloseDone, app, net, events
  <2>2. ReadersFailFor' BY <1>0, <2>1 DEF ReadersFailFor, LoopType
  <2>3. (FaultsShow /\ StartOpen /\ BeatBroke /\ NoPhantomEvent)'
    BY <1>0, <2>1 DEF FaultsShow, StartOpen, BeatBroke, NoPhantomEvent
  <2>4. ShutHasCause' BY <1>0, <1>2, <2>1 DEF ShutHasCause
  <2> QED BY <2>2, <2>3, <2>4 DEF Causes
<1>4. CASE LoggedOffShut(k)
  <2>1. /\ UNCHANGED <<conn, done, closed, faults, fired, evConn, hb, hbConn, pc>>
        /\ rl[k] = "offShut" /\ rl' = [rl EXCEPT ![k] = "read"] /\ cs' = ShutOf(conn)
        /\ Reading(k)
    BY <1>4 DEF LoggedOffShut, client, app, events, Reading
  <2>2. k \in faults /\ k = conn BY <1>0, <1>1, <2>1 DEF ReadersFailFor
  <2>3. cs' = [cs EXCEPT ![k] = "shut"] BY <2>1, <2>2 DEF ShutOf, Conns
  <2>4. cs'[k] = "shut" /\ \A j \in Conns : j # k => cs'[j] = cs[j]
    BY <1>0, <2>3 DEF NetType
  <2>5. FaultsShow' BY <1>0, <2>1, <2>4 DEF FaultsShow
  <2>6. ReadersFailFor' BY <1>0, <2>1, <2>4 DEF ReadersFailFor, LoopType
  <2>7. ShutHasCause' BY <2>1, <2>2 DEF ShutHasCause
  <2>8. StartOpen' BY <1>1, <2>1 DEF StartOpen
  <2>9. BeatBroke' BY <1>0, <2>1, <2>2, <2>4 DEF BeatBroke
  <2>10. NoPhantomEvent' BY <1>0, <2>1 DEF NoPhantomEvent
  <2> QED BY <2>5, <2>6, <2>7, <2>8, <2>9, <2>10 DEF Causes
<1>5. CASE ReadFails(k) \/ CheckDone(k)
  <2>1. /\ UNCHANGED <<conn, done, closed, cs, faults, fired, evConn, hb, hbConn, pc>>
        /\ Reading(k)
    BY <1>5 DEF ReadFails, CheckDone, client, app, net, events, Reading
  <2>2. ReadersFailFor'
    <3>1. CASE ReadFails(k)
      BY <1>0, <2>1, <3>1 DEF ReadFails, ReadersFailFor, LoopType
    <3>2. CASE CheckDone(k)
      <4>1. cs[k] \in {"dropped", "shut"} BY <1>0, <3>2 DEF CheckDone, ReadersFailFor
      <4>2. ~Expected => k \in faults
        BY <1>0, <1>1, <2>1, <4>1 DEF FaultsShow, ShutHasCause, Expected, Conns
      <4> QED BY <1>0, <2>1, <3>2, <4>2 DEF CheckDone, ReadersFailFor, LoopType
    <3> QED BY <1>5, <3>1, <3>2
  <2>3. (FaultsShow /\ StartOpen /\ BeatBroke /\ NoPhantomEvent)'
    BY <1>0, <2>1 DEF FaultsShow, StartOpen, BeatBroke, NoPhantomEvent
  <2>4. ShutHasCause' BY <1>0, <1>2, <2>1 DEF ShutHasCause
  <2> QED BY <2>2, <2>3, <2>4 DEF Causes
<1>6. CASE ReportDrop(k) \/ ReadLoggedOff(k)
  <2>1. /\ FireDisconnect(k) /\ UNCHANGED <<conn, done, closed, cs, hb, hbConn, phase>>
        /\ Reading(k) /\ k \in faults' /\ faults \subseteq faults'
        /\ \E s \in {"exited", "offClose"} : rl' = [rl EXCEPT ![k] = s]
    BY <1>0, <1>6 DEF ReportDrop, ReadLoggedOff, net, Reading, ReadersFailFor
  <2>2. ReadersFailFor' BY <1>0, <2>1 DEF ReadersFailFor, LoopType
  <2>3. FaultsShow' /\ BeatBroke' BY <1>0, <2>1 DEF FaultsShow, BeatBroke
  <2>4. ShutHasCause' BY <1>0, <1>2, <2>1 DEF ShutHasCause
  <2>5. StartOpen'
    <3>1. \A q \in Procs : pc'[q] = pc[q] \/ pc'[q] = "wake" BY <1>6, LoopsMove DEF Unwinds, Serves
    <3> QED BY <1>1, <2>1, <3>1 DEF StartOpen
  <2>6. NoPhantomEvent'
    <3>1. CASE UNCHANGED <<pc, fired, evConn>> BY <1>0, <2>1, <3>1 DEF NoPhantomEvent
    <3>2. CASE /\ fired + 1 \in Handlers /\ fired' = fired + 1
               /\ evConn' = [evConn EXCEPT ![fired + 1] = k]
      <4>1. \A h \in 1..fired' : h \in Handlers /\ (h = fired + 1 \/ h \in 1..fired)
        BY <1>0, <3>2, BoundsAssumption DEF Handlers, EventType
      <4>2. \A h \in 1..fired' : evConn'[h] = IF h = fired + 1 THEN k ELSE evConn[h]
        BY <1>0, <3>2, <4>1 DEF EventType
      <4> QED BY <1>0, <2>1, <4>1, <4>2 DEF NoPhantomEvent
    <3> QED BY <1>0, <2>1, <3>1, <3>2, FireDisconnectFacts
  <2> QED BY <2>2, <2>3, <2>4, <2>5, <2>6 DEF Causes
<1>7. CASE \E verdict \in {-1, k} : ReadLogonResponse(k, verdict)
  <2>1. UNCHANGED <<conn, done, closed, cs, faults, fired, evConn, rl, hb, hbConn, pc>>
    BY <1>7 DEF ReadLogonResponse, client, loops, events
  <2> QED BY <1>2, <2>1, CausesFrame
<1> QED BY <1>3, <1>4, <1>5, <1>6, <1>7 DEF Unwinds

\* The application: what it shuts it has closed done for.
LEMMA AppCauses ==
  ASSUME Sequential, IInv, Order, Once, Causes, ~panicked, NEW p \in Procs,
         Begins(p) \/ Proceeds(p) \/ AwaitExpired(p)
  PROVE  Causes'
<1>0. /\ ClientType /\ LoopType /\ AppType /\ NetType /\ NoLoopBetween /\ StagePhases
      /\ FaultsShow /\ ReadersFailFor /\ StartOpen /\ BeatBroke /\ ShutHasCause /\ NoPhantomEvent
  BY DEF IInv, TypeOK, Core, Owned, Order, Causes
<1>1. ASSUME UNCHANGED <<conn, done, cs, rl, hb, hbConn, fired, evConn, faults>>,
             closed \subseteq closed', phase' \in Up => phase \in Up,
             \A q \in Procs : q # p => pc'[q] = pc[q], pc'[p] # "start"
      PROVE  Causes'
  <2>1. \A q \in Procs : pc'[q] = "start" => pc[q] = "start" BY <1>1
  <2>2. Alive' => Alive BY <1>1, <2>1 DEF Alive, Reading, Beating
  <2> QED BY <1>1, <2>1, <2>2, CausesFrame
<1>2. CASE HandlerQuits(p)
  BY <1>0, <1>1, <1>2 DEF HandlerQuits, Goto, client, loops, net, events, AppType
<1>3. CASE ~HandlerQuits(p)
  <2>1. /\ \A q \in Procs : q # p => pc'[q] = pc[q] /\ pc[q] \notin Inside
        /\ \A q \in Procs : q # p => pc'[q] # "start" /\ pc[q] # "start"
    <3>1. \A q \in Procs : q # p => pc'[q] = pc[q] /\ pc[q] \notin Inside BY <1>3, Alone
    <3> QED BY <3>1 DEF Inside, Critical, ConnectPcs
  <2>2. CASE \/ ConnectBegin(p) \/ DisconnectBegin(p) \/ ReconnectBegin(p)
             \/ LoginBegin(p) \/ LoginRefused(p)
    BY <1>0, <1>1, <2>1, <2>2
    DEF Turns, ConnectBegin, DisconnectBegin, ReconnectBegin, LoginBegin, LoginRefused, Goto,
        client, loops, net, events, AppType, Up
  <2>11. CASE LoginPanics(p)
    <3>1. pc'[p] # "start" BY <2>11 DEF LoginPanics, Calls
    <3> QED BY <1>1, <2>1, <2>11, <3>1 DEF LoginPanics, loops, net, events, Up
  <2>3. CASE \/ SendLogon(p) \/ SendLogonFails(p) \/ AwaitEnter(p) \/ AwaitAccepted(p)
             \/ LoginFails(p) \/ PublishSession(p)
    BY <1>0, <1>1, <2>1, <2>3
    DEF SendLogon, SendLogonFails, AwaitEnter, AwaitAccepted, LoginFails, PublishSession,
        Return, Goto, client, loops, net, events, AppType
  <2>4. CASE DialFails(p) \/ TeardownWait(p) \/ DisconnectReset(p) \/ ReconnectLogout(p)
    <3>1. CASE TeardownWait(p)
      <4>1. pc'[p] \in {"discReset", "recReset"}
        BY <1>0, <3>1, TeardownFacts DEF TeardownWait, Goto, AppType
      <4> QED
        BY <1>1, <2>1, <3>1, <4>1 DEF TeardownWait, client, loops, net, events
    <3>2. CASE DialFails(p) \/ DisconnectReset(p) \/ ReconnectLogout(p)
      BY <1>0, <1>1, <2>1, <3>2
      DEF DialFails, DisconnectReset, ReconnectLogout, Return, Goto,
          client, loops, net, events, AppType
    <3> QED BY <2>4, <3>1, <3>2
  <2>5. CASE TeardownClose(p)
    <3>1. pc'[p] \in {"discShut", "recShut"}
      BY <1>0, <2>5, TeardownFacts DEF TeardownClose, Goto, AppType
    <3>2. closed \subseteq closed' BY <2>5 DEF TeardownClose, CloseDone
    <3> QED BY <1>1, <2>1, <2>5, <3>1, <3>2 DEF TeardownClose, loops, net, events
  <2>6. CASE TeardownShut(p)
    <3>1. /\ UNCHANGED <<conn, done, closed, faults, fired, evConn, rl, hb, hbConn>>
          /\ pc[p] \in {"discShut", "recShut"} /\ cs' = ShutOf(conn)
      BY <2>6 DEF TeardownShut, client, loops, events
    <3>2. done \in closed BY <3>1 DEF Once, OnceKept, TornDown, OnceMeansClosed
    <3>3. ShutHasCause' BY <3>1, <3>2 DEF ShutHasCause
    <3>4. pc'[p] # "start"
      BY <1>0, <2>6, TeardownFacts DEF TeardownShut, Goto, AppType
    <3>5. StartOpen' BY <2>1, <3>4 DEF StartOpen
    <3>6. \A k \in Conns : cs'[k] = cs[k] \/ cs'[k] = "shut" BY <1>0, <3>1 DEF ShutOf, NetType
    <3>7. (FaultsShow /\ ReadersFailFor)' BY <1>0, <3>1, <3>6 DEF FaultsShow, ReadersFailFor
    <3>8. BeatBroke'
      <4>1. conn > 0 => conn \in Conns BY <1>0, BoundsAssumption DEF ClientType, Conns
      <4> QED BY <1>0, <3>1, <3>6, <4>1 DEF BeatBroke
    <3>9. NoPhantomEvent' BY <1>0, <3>1 DEF NoPhantomEvent
    <3> QED BY <3>3, <3>5, <3>7, <3>8, <3>9 DEF Causes
  <2>7. CASE DialWorks(p)
    <3>1. /\ UNCHANGED <<done, closed, faults, fired, evConn, rl, hb, hbConn>>
          /\ pc[p] = "dial" /\ conn' = conn + 1 /\ cs' = [cs EXCEPT ![conn + 1] = "open"]
      BY <2>7 DEF DialWorks, loops, events
    <3>2. conn + 1 \in Conns
      BY <1>0, <3>1, BoundsAssumption DEF ClientType, Conns, IInv, Core, Owned, Headroom
    <3>3. cs'[conn'] = "open" /\ \A k \in Conns : k # conn' => cs'[k] = cs[k]
      BY <1>0, <3>1, <3>2 DEF NetType
    <3>4. (\A k \in Conns : ~Reading(k)) /\ (\A i \in Beats : ~Beating(i))
      BY <1>0, <3>1, NoneBeating DEF NoLoopBetween, ConnectPcs
    <3>5. (ShutHasCause /\ StartOpen)' BY <3>3 DEF ShutHasCause, StartOpen
    <3>6. FaultsShow' BY <1>0, <3>1, <3>3 DEF FaultsShow
    <3>7. ReadersFailFor' BY <3>1, <3>4 DEF ReadersFailFor, Reading
    <3>8. BeatBroke' BY <3>1, <3>4 DEF BeatBroke, Beating
    <3>9. NoPhantomEvent' BY <1>0, <3>1 DEF NoPhantomEvent
    <3> QED BY <3>5, <3>6, <3>7, <3>8, <3>9 DEF Causes
  <2>8. CASE StartReadLoop(p)
    <3>1. /\ UNCHANGED <<conn, closed, cs, faults, fired, evConn, hb, hbConn>>
          /\ pc[p] = "start" /\ pc'[p] # "start" /\ rl' = [rl EXCEPT ![conn] = "read"]
      BY <1>0, <2>8 DEF StartReadLoop, Return, Goto, net, events, AppType
    <3>2. \A i \in Beats : ~Beating(i) BY <3>1, NoneBeating DEF ConnectPcs
    <3>3. ShutHasCause' BY <1>0, <3>1 DEF StartOpen, ShutHasCause
    <3>4. StartOpen' BY <2>1, <3>1 DEF StartOpen
    <3>5. FaultsShow' BY <1>0, <3>1 DEF FaultsShow
    <3>6. ReadersFailFor' BY <1>0, <3>1 DEF ReadersFailFor, LoopType
    <3>7. BeatBroke' BY <3>1, <3>2 DEF BeatBroke, Beating
    <3>8. NoPhantomEvent' BY <1>0, <3>1 DEF NoPhantomEvent
    <3> QED BY <3>3, <3>4, <3>5, <3>6, <3>7, <3>8 DEF Causes
  <2>9. CASE ReconnectReset(p)
    <3>1. /\ UNCHANGED <<conn, closed, cs, faults, fired, evConn, rl, hb, hbConn, phase>>
          /\ pc[p] = "recReset" /\ pc'[p] = "recLogout"
      BY <1>0, <2>9 DEF ReconnectReset, Goto, loops, net, events, AppType
    <3>2. /\ (\A k \in Conns : ~Reading(k)) /\ (\A i \in Beats : ~Beating(i))
          /\ phase \notin Up
      BY <1>0, <3>1, NoneBeating DEF NoLoopBetween, StagePhases, ReconnectPcs, Up
    <3>3. ~Alive' BY <2>1, <3>1, <3>2 DEF Alive, Reading, Beating
    <3>4. ShutHasCause' BY <3>3 DEF ShutHasCause
    <3>5. StartOpen' BY <2>1, <3>1 DEF StartOpen
    <3>6. (FaultsShow /\ ReadersFailFor /\ BeatBroke /\ NoPhantomEvent)'
      BY <1>0, <3>1 DEF FaultsShow, ReadersFailFor, BeatBroke, NoPhantomEvent
    <3> QED BY <3>4, <3>5, <3>6 DEF Causes
  <2>10. CASE StartHeartbeat(p)
    <3>1. /\ UNCHANGED <<conn, done, closed, cs, faults, fired, evConn, rl, hbConn>>
          /\ pc[p] = "beat" /\ pc'[p] # "start"
          /\ \E i \in Beats : hb' = [hb EXCEPT ![i] = "loop"]
      BY <1>0, <2>10 DEF StartHeartbeat, Return, Goto, client, net, events, AppType
    <3>2. Alive BY <3>1 DEF Alive, Order, LoginHolds, LoginPcs, Up
    <3>3. \A i \in Beats : hb'[i] = "close" => hb[i] = "close" BY <1>0, <3>1 DEF LoopType
    <3>4. \A q \in Procs : pc'[q] = "start" => pc[q] = "start" BY <2>1, <3>1
    <3> QED BY <3>1, <3>2, <3>3, <3>4, CausesFrame
  <2> QED
    BY <1>3, <2>2, <2>3, <2>4, <2>5, <2>6, <2>7, <2>8, <2>9, <2>10, <2>11
    DEF Begins, Proceeds, AwaitDenied, AwaitDropped, AwaitExpired
<1> QED BY <1>2, <1>3

SInv == Order /\ Session /\ Once /\ Causes

\* The stronger invariant holds of a new Client.
LEMMA InitSInv == Init => SInv
<1> SUFFICES ASSUME Init PROVE SInv
  OBVIOUS
<1>1. \A p \in Procs : pc[p] \in {"idle", "off"} BY DEF Init
<1>2. (\A k \in Conns : ~Reading(k)) /\ (\A i \in Beats : ~Beating(i))
  BY DEF Init, Reading, Beating
<1>3. Order
  BY <1>1, <1>2 DEF Init, Order, LoginHolds, StagePhases, BeatsHaveOwner, Dialled, LoginPcs,
                    ReconnectPcs, ConnectPcs
<1>4. Session
  BY <1>1 DEF Init, Session, LoggedOutBetween, GotCurrent, SessionIsCurrent, LoginPcs
<1>5. Once BY <1>1 DEF Init, Once, OnceKept, OnceMeansClosed, OnceIsFresh, TornDown
<1>6. Causes
  BY <1>1, <1>2 DEF Init, Causes, FaultsShow, ReadersFailFor, ShutHasCause, StartOpen, BeatBroke,
                    NoPhantomEvent, Beating
<1> QED BY <1>3, <1>4, <1>5, <1>6 DEF SInv

\* Every state of a client whose application serialises its four operations
\* satisfies both invariants.
THEOREM SequentialInvariance == ASSUME Sequential PROVE Spec => [](IInv /\ SInv)
<1>1. IInv /\ [Next]_vars => IInv'
  BY SequentialSerialises, NextType, NextGrant, NextCore DEF IInv
<1>2. IInv /\ SInv /\ [Next]_vars => SInv'
  <2> SUFFICES ASSUME IInv, SInv, [Next]_vars PROVE SInv'
    OBVIOUS
  <2>1. Order' /\ Session' /\ Once' BY NextOrder, NextSession, NextOnce DEF SInv
  <2>2. Causes'
    <3>1. CASE UNCHANGED vars
      <4>1. /\ UNCHANGED <<conn, done, cs, fired, evConn, closed, faults, rl, hb, hbConn, pc>>
            /\ (Alive' => Alive)
        BY <3>1 DEF vars, client, loops, app, net, events, Alive, Reading, Beating
      <4> QED BY <4>1, CausesFrame DEF SInv
    <3> QED BY <3>1, BeatsCause, LoopsCause, AppCauses DEF SInv, Next, Serves
  <2> QED BY <2>1, <2>2 DEF SInv
<1> QED BY InitIInv, InitSInv, <1>1, <1>2, PTL DEF Spec

\* While loggedIn is set, the session on outgoing packets was granted by the
\* server of the present connection, through any number of breaks,
\* Disconnects, Reconnects and Logins.
THEOREM SessionsStayCurrent == ASSUME Sequential PROVE Spec => []SessionIsCurrent
<1>1. SInv => SessionIsCurrent BY DEF SInv, Session
<1> QED BY <1>1, SequentialInvariance, PTL

\* A heartbeat loop that gives up closes the connection its write failed on:
\* the teardown waits for it before a new connection takes the old one's place.
THEOREM BeatsCloseTheirOwn == ASSUME Sequential PROVE Spec => []BeatClosesItsOwn
<1>1. SInv => BeatClosesItsOwn BY DEF SInv, Causes, BeatBroke, BeatClosesItsOwn
<1> QED BY <1>1, SequentialInvariance, PTL

\* OnDisconnect is told of a connection only if the server or the network
\* ended it.
THEOREM EventsAreReal == ASSUME Sequential PROVE Spec => []NoPhantomEvent
<1>1. SInv => NoPhantomEvent BY DEF SInv, Causes
<1> QED BY <1>1, SequentialInvariance, PTL
=============================================================================
