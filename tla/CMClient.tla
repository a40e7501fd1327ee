------------------------------ MODULE CMClient ------------------------------
(***************************************************************************)
(* The connection lifecycle of steamclient.Client: Connect, Login,         *)
(* Disconnect and Reconnect called by goroutines of the application, the   *)
(* read loop and the heartbeat loops they start, the OnDisconnect          *)
(* goroutine that fireDisconnect starts, and a CM server and a network     *)
(* that may log the client off or break the connection at any time.        *)
(*                                                                         *)
(* Every close(done), Close, Wait and lock region of the code is a step of *)
(* its own, so the goroutines interleave as finely as the code lets them.  *)
(* Data is abstracted: a connection and a done channel are numbers in the  *)
(* order they are made, a session is the connection whose server granted   *)
(* it.  done = d stands for "the d-th channel made"; done = 0 is the nil   *)
(* channel of a new Client.  The wait group is not a variable: its counter *)
(* is the number of running loops, as each Add sits next to its go.        *)
(*                                                                         *)
(* Definitions named XBug_... are faulty variants of X: no action uses     *)
(* them, they serve to confirm that the properties can tell them from X.   *)
(***************************************************************************)
EXTENDS Integers, FiniteSets

CONSTANTS
  MaxConns,   \* bound: connections dialled
  MaxDones,   \* bound: done channels made
  MaxEvents,  \* bound: OnDisconnect goroutines started
  MaxBeats,   \* bound: heartbeat loops running at the same time
  HasHandler, \* whether the application sets OnDisconnect
  MainOps,    \* operations the main goroutine of the application calls
  LockedOps,  \* operations the application calls under a mutex of its own
  CallsIn     \* for each operation, the phases in which it calls it

Ops == {"Connect", "Login", "Disconnect", "Reconnect"}

\* What the application has done with its client so far.  The code keeps no
\* such state: phase says when the application makes a call, never what the
\* call does, and is "misused" once it has called Disconnect or Reconnect on
\* a client that is not connected, or Login on one that never was.
Phases == {"fresh", "linked", "online", "broken", "closed", "misused"}
Live == {"linked", "online", "broken"}

ASSUME BoundsAssumption ==
  /\ MaxConns \in Nat \ {0} /\ MaxDones \in Nat \ {0}
  /\ MaxEvents \in Nat \ {0} /\ MaxBeats \in Nat \ {0}
ASSUME PolicyAssumption ==
  /\ HasHandler \in BOOLEAN
  /\ MainOps \subseteq Ops /\ LockedOps \subseteq Ops
  /\ CallsIn \in [Ops -> SUBSET Phases]

Conns == 1..MaxConns
Dones == 1..MaxDones
Main == 0
Handlers == 1..MaxEvents
Procs == Handlers \cup {Main}
Beats == 1..MaxBeats
Free == -1

VARIABLES
  conn, done, closed, closeOnce, disconnectOnce, loggedIn, sess, panicked,
  rl, hb, hbDone, hbConn,
  pc, lock, phase, got, waitOn,
  cs, asked, faults,
  fired, evConn

client == <<conn, done, closed, closeOnce, disconnectOnce, loggedIn, sess, panicked>>
loops  == <<rl, hb, hbDone, hbConn>>
app    == <<pc, lock, phase, got, waitOn>>
net    == <<cs, asked, faults>>
events == <<fired, evConn>>
vars   == <<client, loops, app, net, events>>

ConnectPcs    == {"dial", "start"}
DisconnectPcs == {"discClose", "discShut", "discWait", "discReset"}
ReconnectPcs  == {"recClose", "recShut", "recWait", "recReset", "recLogout"}
LoginPcs      == {"logon", "select", "await", "set", "beat"}
PcStates == {"off", "idle", "wake", "linked", "end"} \cup ConnectPcs
              \cup DisconnectPcs \cup ReconnectPcs \cup LoginPcs

ClientType ==
  /\ conn \in 0..MaxConns
  /\ done \in 0..MaxDones
  /\ closed \subseteq Dones
  /\ closeOnce \in BOOLEAN /\ disconnectOnce \in BOOLEAN
  /\ loggedIn \in BOOLEAN /\ panicked \in BOOLEAN
  /\ sess \in 0..MaxConns

LoopType ==
  /\ rl \in [Conns -> {"off", "read", "failed", "report", "offClose", "offShut", "exited"}]
  /\ hb \in [Beats -> {"off", "loop", "select", "close"}]
  /\ hbDone \in [Beats -> 0..MaxDones]
  /\ hbConn \in [Beats -> 0..MaxConns]

AppType ==
  /\ pc \in [Procs -> PcStates]
  /\ lock \in Procs \cup {Free}
  /\ phase \in Phases
  /\ got \in [Procs -> -1..MaxConns]
  /\ waitOn \in [Procs -> 0..MaxDones]

NetType ==
  /\ cs \in [Conns -> {"none", "open", "stalled", "dropped", "shut"}]
  /\ asked \in [Conns -> BOOLEAN]
  /\ faults \subseteq Conns

EventType ==
  /\ fired \in 0..MaxEvents
  /\ evConn \in [Handlers -> 0..MaxConns]

TypeOK == ClientType /\ LoopType /\ AppType /\ NetType /\ EventType

Init ==
  /\ conn = 0 /\ done = 0 /\ closed = {}
  /\ closeOnce = FALSE /\ disconnectOnce = FALSE
  /\ loggedIn = FALSE /\ sess = 0 /\ panicked = FALSE
  /\ rl = [k \in Conns |-> "off"]
  /\ hb = [i \in Beats |-> "off"]
  /\ hbDone = [i \in Beats |-> 0]
  /\ hbConn = [i \in Beats |-> 0]
  /\ pc = [p \in Procs |-> IF p = Main THEN "idle" ELSE "off"]
  /\ lock = Free
  /\ phase = "fresh"
  /\ got = [p \in Procs |-> 0]
  /\ waitOn = [p \in Procs |-> 0]
  /\ cs = [k \in Conns |-> "none"]
  /\ asked = [k \in Conns |-> FALSE]
  /\ faults = {}
  /\ fired = 0
  /\ evConn = [h \in Handlers |-> 0]

-----------------------------------------------------------------------------
(* The primitives the operations share.                                    *)

\* The read loops and heartbeat loops the wait group counts.
Reading(k) == rl[k] \notin {"off", "exited"}
Beating(i) == hb[i] # "off"
QuietBug_NoWait == TRUE
QuietBug_BeatsNotCounted == \A k \in Conns : ~Reading(k)
Quiet == (\A k \in Conns : ~Reading(k)) /\ (\A i \in Beats : ~Beating(i))

\* done may be closed: it is neither nil nor closed already.
Closable == done # 0 /\ done \notin closed

\* c.closeOnce.Do(func() { close(c.done) }); closing a nil or a closed
\* channel panics.
CloseDone ==
  IF closeOnce THEN UNCHANGED <<closeOnce, closed, panicked>>
  ELSE /\ closeOnce' = TRUE
       /\ closed' = IF Closable THEN closed \cup {done} ELSE closed
       /\ panicked' = ~Closable

\* c.conn.Close(): a pending Read and every later call on it fail.
ShutOfBug_NotClosed(k) == cs
ShutOf(k) == IF k = 0 THEN cs ELSE [cs EXCEPT ![k] = "shut"]

ResetOncesBug_CloseOnly == closeOnce' = FALSE /\ UNCHANGED disconnectOnce
ResetOnces == closeOnce' = FALSE /\ disconnectOnce' = FALSE

\* c.done = make(chan struct{}).
NewDoneBug_Kept == done
NewDone == done + 1

\* c.loggedIn = false under the client's mutex.
ClearLoginBug_Kept == UNCHANGED loggedIn
ClearLogin == loggedIn' = FALSE

\* A write on connection k may succeed, or may fail.  A dropped connection
\* still takes writes until the transport notices.
WriteWorks(k) == cs[k] \in {"open", "dropped"}
WriteBreaks(k) == cs[k] \in {"stalled", "dropped", "shut"}

\* disconnectOnce.Do in fireDisconnect for the read loop of connection k:
\* clear loggedIn and start OnDisconnect in a goroutine.
OnceTaken == disconnectOnce
FireDisconnect(k) ==
  IF OnceTaken
  THEN UNCHANGED <<disconnectOnce, loggedIn, pc, fired, evConn>>
  ELSE /\ disconnectOnce' = TRUE
       /\ loggedIn' = FALSE
       /\ IF HasHandler
          THEN /\ fired < MaxEvents
               /\ fired' = fired + 1
               /\ evConn' = [evConn EXCEPT ![fired + 1] = k]
               /\ pc' = [pc EXCEPT ![fired + 1] = "wake"]
          ELSE UNCHANGED <<pc, fired, evConn>>

-----------------------------------------------------------------------------
(* The application: its mutex, and what it believes of the client.  An     *)
(* OnDisconnect goroutine calls Reconnect until it works, then Login.      *)

Acquire(p, op) ==
  IF op \in LockedOps THEN lock = Free /\ lock' = p ELSE UNCHANGED lock

Goto(p, l) == pc' = [pc EXCEPT ![p] = l]

Return(p, l) ==
  /\ Goto(p, IF p = Main THEN "idle" ELSE l)
  /\ lock' = IF lock = p THEN Free ELSE lock

Calls(p, op) ==
  /\ phase \in CallsIn[op]
  /\ \/ p = Main /\ pc[p] = "idle" /\ op \in MainOps
     \/ p # Main /\ pc[p] = "wake" /\ op = "Reconnect"
     \/ p # Main /\ pc[p] = "linked" /\ op = "Login"

\* The phase a Disconnect or a Reconnect takes its client to.
Turns(live) == phase' = IF phase \in Live THEN live ELSE "misused"

\* OnDisconnect returns without reconnecting.
HandlerQuits(p) ==
  /\ p # Main /\ pc[p] \in {"wake", "linked"}
  /\ Goto(p, "end")
  /\ UNCHANGED <<client, loops, lock, phase, got, waitOn, net, events>>

-----------------------------------------------------------------------------
(* Connect.                                                                *)

ConnectBegin(p) ==
  /\ Calls(p, "Connect")
  /\ conn < MaxConns /\ done < MaxDones
  /\ Acquire(p, "Connect")
  /\ Goto(p, "dial")
  /\ UNCHANGED <<client, loops, phase, got, waitOn, net, events>>

\* Discovery, the dial or the TCP handshake fails: conn and done stay as
\* they are.
DialFails(p) ==
  /\ pc[p] = "dial"
  /\ Return(p, "wake")
  /\ UNCHANGED <<client, loops, phase, got, waitOn, net, events>>

DialWorks(p) ==
  /\ pc[p] = "dial"
  /\ conn' = conn + 1
  /\ cs' = [cs EXCEPT ![conn + 1] = "open"]
  /\ Goto(p, "start")
  /\ UNCHANGED <<done, closed, closeOnce, disconnectOnce, loggedIn, sess, panicked,
                 loops, lock, phase, got, waitOn, asked, faults, events>>

\* A fresh done channel, wg.Add(1) and go readLoop().
StartReadLoop(p) ==
  /\ pc[p] = "start"
  /\ done' = done + 1
  /\ rl' = [rl EXCEPT ![conn] = "read"]
  /\ phase' = "linked"
  /\ Return(p, "linked")
  /\ UNCHANGED <<conn, closed, closeOnce, disconnectOnce, loggedIn, sess, panicked,
                 hb, hbDone, hbConn, got, waitOn, net, events>>

-----------------------------------------------------------------------------
(* Disconnect and Reconnect.                                               *)

\* Neither tests whether there is a connection.  The lock region of
\* Disconnect; the ClientLogOff it then sends is best effort and changes
\* nothing here.
DisconnectBegin(p) ==
  /\ Calls(p, "Disconnect")
  /\ Acquire(p, "Disconnect")
  /\ ClearLogin
  /\ Turns("closed")
  /\ Goto(p, "discClose")
  /\ UNCHANGED <<conn, done, closed, closeOnce, disconnectOnce, sess, panicked,
                 loops, got, waitOn, net, events>>

ReconnectBegin(p) ==
  /\ Calls(p, "Reconnect")
  /\ conn < MaxConns /\ done + 1 < MaxDones
  /\ Acquire(p, "Reconnect")
  /\ Turns("broken")
  /\ Goto(p, "recClose")
  /\ UNCHANGED <<client, loops, got, waitOn, net, events>>

Teardown == [discClose |-> "discShut", discShut |-> "discWait", discWait |-> "discReset",
             recClose |-> "recShut", recShut |-> "recWait", recWait |-> "recReset"]

TeardownClose(p) ==
  /\ pc[p] \in {"discClose", "recClose"}
  /\ CloseDone
  /\ Goto(p, Teardown[pc[p]])
  /\ UNCHANGED <<conn, done, disconnectOnce, loggedIn, sess,
                 loops, lock, phase, got, waitOn, net, events>>

TeardownShut(p) ==
  /\ pc[p] \in {"discShut", "recShut"}
  /\ cs' = ShutOf(conn)
  /\ Goto(p, Teardown[pc[p]])
  /\ UNCHANGED <<client, loops, lock, phase, got, waitOn, asked, faults, events>>

\* c.wg.Wait().
TeardownWait(p) ==
  /\ pc[p] \in {"discWait", "recWait"}
  /\ Quiet
  /\ Goto(p, Teardown[pc[p]])
  /\ UNCHANGED <<client, loops, lock, phase, got, waitOn, net, events>>

DisconnectReset(p) ==
  /\ pc[p] = "discReset"
  /\ ResetOnces
  /\ Return(p, "end")
  /\ UNCHANGED <<conn, done, closed, loggedIn, sess, panicked,
                 loops, phase, got, waitOn, net, events>>

ReconnectReset(p) ==
  /\ pc[p] = "recReset"
  /\ ResetOnces
  /\ done' = NewDone
  /\ Goto(p, "recLogout")
  /\ UNCHANGED <<conn, closed, loggedIn, sess, panicked,
                 loops, lock, phase, got, waitOn, net, events>>

\* Clears loggedIn under the client's mutex, then continues as Connect.
ReconnectLogout(p) ==
  /\ pc[p] = "recLogout"
  /\ ClearLogin
  /\ Goto(p, "dial")
  /\ UNCHANGED <<conn, done, closed, closeOnce, disconnectOnce, sess, panicked,
                 loops, lock, phase, got, waitOn, net, events>>

-----------------------------------------------------------------------------
(* Login.  got[p] is the listener channel of p's latest attempt: 0 empty,  *)
(* -1 a refusal, k an acceptance by the server of connection k.            *)

\* Without a connection sendPacket calls Write on nil.
LoginPanics(p) ==
  /\ Calls(p, "Login")
  /\ conn = 0
  /\ (IF "Login" \in LockedOps THEN lock = Free ELSE TRUE)
  /\ panicked' = TRUE /\ phase' = "misused"
  /\ UNCHANGED <<conn, done, closed, closeOnce, disconnectOnce, loggedIn, sess,
                 loops, pc, lock, got, waitOn, net, events>>

\* Sends ClientHello and installs the listener for the logon response.
LoginBegin(p) ==
  /\ Calls(p, "Login")
  /\ conn # 0 /\ WriteWorks(conn)
  /\ Acquire(p, "Login")
  /\ got' = [got EXCEPT ![p] = 0]
  /\ Goto(p, "logon")
  /\ UNCHANGED <<client, loops, phase, waitOn, net, events>>

\* The ClientHello cannot be written: Login returns the error.
LoginRefused(p) ==
  /\ Calls(p, "Login")
  /\ conn # 0 /\ WriteBreaks(conn)
  /\ (IF "Login" \in LockedOps THEN lock = Free ELSE TRUE)
  /\ Goto(p, IF p = Main THEN "idle" ELSE "end")
  /\ UNCHANGED <<client, loops, lock, phase, got, waitOn, net, events>>

SendLogon(p) ==
  /\ pc[p] = "logon" /\ WriteWorks(conn)
  /\ asked' = [asked EXCEPT ![conn] = cs[conn] = "open" \/ @]
  /\ Goto(p, "select")
  /\ UNCHANGED <<client, loops, lock, phase, got, waitOn, cs, faults, events>>

SendLogonFails(p) ==
  /\ pc[p] = "logon" /\ WriteBreaks(conn)
  /\ Return(p, "end")
  /\ UNCHANGED <<client, loops, phase, got, waitOn, net, events>>

\* awaitPacket evaluates c.done when its select is entered.
AwaitEnter(p) ==
  /\ pc[p] = "select"
  /\ waitOn' = [waitOn EXCEPT ![p] = done]
  /\ Goto(p, "await")
  /\ UNCHANGED <<client, loops, lock, phase, got, net, events>>

\* The response says EResult OK.
GrantedBug_AnyResult(p) == got[p] # 0
Granted(p) == got[p] > 0

AwaitAccepted(p) ==
  /\ pc[p] = "await" /\ Granted(p)
  /\ Goto(p, "set")
  /\ UNCHANGED <<client, loops, lock, phase, got, waitOn, net, events>>

LoginFails(p) ==
  /\ Return(p, "end")
  /\ got' = [got EXCEPT ![p] = 0]
  /\ waitOn' = [waitOn EXCEPT ![p] = 0]
  /\ UNCHANGED <<client, loops, phase, net, events>>

\* The server's eresult is not OK.
AwaitDenied(p) == pc[p] = "await" /\ got[p] = -1 /\ LoginFails(p)

\* The caller's context ends.
AwaitExpired(p) == pc[p] = "await" /\ LoginFails(p)

\* ErrDisconnected.
AwaitDropped(p) == pc[p] = "await" /\ waitOn[p] \in closed /\ LoginFails(p)

\* The lock region that publishes the session.
PublishSession(p) ==
  /\ pc[p] = "set"
  /\ loggedIn' = TRUE
  /\ sess' = got[p]
  /\ Goto(p, "beat")
  /\ UNCHANGED <<conn, done, closed, closeOnce, disconnectOnce, panicked,
                 loops, lock, phase, got, waitOn, net, events>>

\* wg.Add(1) and go heartbeatLoop(interval); Login returns nil.
StartHeartbeat(p) ==
  /\ pc[p] = "beat"
  /\ \E i \in Beats :
       /\ hb[i] = "off" /\ \A j \in Beats : j < i => hb[j] # "off"
       /\ hb' = [hb EXCEPT ![i] = "loop"]
  /\ phase' = IF phase = "linked" THEN "online" ELSE phase
  /\ Return(p, "end")
  /\ got' = [got EXCEPT ![p] = 0]
  /\ waitOn' = [waitOn EXCEPT ![p] = 0]
  /\ UNCHANGED <<client, rl, hbDone, hbConn, net, events>>

-----------------------------------------------------------------------------
(* heartbeatLoop.  Its select evaluates c.done on every iteration, and it  *)
(* writes to whatever connection the client has at that moment.            *)

BeatEnter(i) ==
  /\ hb[i] = "loop"
  /\ hb' = [hb EXCEPT ![i] = "select"]
  /\ hbDone' = [hbDone EXCEPT ![i] = done]
  /\ UNCHANGED <<client, rl, hbConn, app, net, events>>

BeatStops(i) ==
  /\ hb[i] = "select" /\ hbDone[i] \in closed
  /\ hb' = [hb EXCEPT ![i] = "off"]
  /\ hbDone' = [hbDone EXCEPT ![i] = 0]
  /\ UNCHANGED <<client, rl, hbConn, app, net, events>>

BeatSends(i) ==
  /\ hb[i] = "select" /\ WriteWorks(conn)
  /\ hb' = [hb EXCEPT ![i] = "loop"]
  /\ UNCHANGED <<client, rl, hbDone, hbConn, app, net, events>>

BeatFails(i) ==
  /\ hb[i] = "select" /\ WriteBreaks(conn)
  /\ hb' = [hb EXCEPT ![i] = "close"]
  /\ hbConn' = [hbConn EXCEPT ![i] = conn]
  /\ UNCHANGED <<client, rl, hbDone, app, net, events>>

BeatShuts(i) ==
  /\ hb[i] = "close"
  /\ cs' = ShutOf(conn)
  /\ hb' = [hb EXCEPT ![i] = "off"]
  /\ hbDone' = [hbDone EXCEPT ![i] = 0]
  /\ hbConn' = [hbConn EXCEPT ![i] = 0]
  /\ UNCHANGED <<client, rl, app, asked, faults, events>>

-----------------------------------------------------------------------------
(* readLoop and the part of handlePacket that changes the lifecycle.  A    *)
(* read loop is named by the connection it was started for; that c.conn is *)
(* still that connection whenever it runs is the invariant LoopsAreCurrent.*)

\* A logon response, queued to every Login that is listening.
ReadLogonResponse(k, verdict) ==
  /\ rl[k] = "read" /\ asked[k] /\ cs[k] \notin {"none", "shut"}
  /\ asked' = [asked EXCEPT ![k] = FALSE]
  /\ got' = [p \in Procs |-> IF pc[p] \in {"logon", "select", "await"} /\ got[p] = 0
                             THEN verdict ELSE got[p]]
  /\ UNCHANGED <<client, loops, pc, lock, phase, waitOn, cs, faults, events>>

\* EMsgClientLoggedOff: fireDisconnect, then close(done), then Close.
ReadLoggedOff(k) ==
  /\ rl[k] = "read" /\ cs[k] \in {"open", "dropped"}
  /\ faults' = faults \cup {k}
  /\ FireDisconnect(k)
  /\ rl' = [rl EXCEPT ![k] = "offClose"]
  /\ UNCHANGED <<conn, done, closed, closeOnce, sess, panicked, hb, hbDone, hbConn,
                 lock, phase, got, waitOn, cs, asked>>

LoggedOffClose(k) ==
  /\ rl[k] = "offClose"
  /\ CloseDone
  /\ rl' = [rl EXCEPT ![k] = "offShut"]
  /\ UNCHANGED <<conn, done, disconnectOnce, loggedIn, sess, hb, hbDone, hbConn,
                 app, net, events>>

LoggedOffShut(k) ==
  /\ rl[k] = "offShut"
  /\ cs' = ShutOf(conn)
  /\ rl' = [rl EXCEPT ![k] = "read"]
  /\ UNCHANGED <<client, hb, hbDone, hbConn, app, asked, faults, events>>

ReadFails(k) ==
  /\ rl[k] = "read" /\ cs[k] \in {"dropped", "shut"}
  /\ rl' = [rl EXCEPT ![k] = "failed"]
  /\ UNCHANGED <<client, hb, hbDone, hbConn, app, net, events>>

\* The select on done after a failed Read: an expected disconnect ends the
\* loop, any other one goes on to fireDisconnect.
ExpectedBug_NeverAsked == FALSE
Expected == done \in closed
CheckDone(k) ==
  /\ rl[k] = "failed"
  /\ rl' = [rl EXCEPT ![k] = IF Expected THEN "exited" ELSE "report"]
  /\ UNCHANGED <<client, hb, hbDone, hbConn, app, net, events>>

ReportDrop(k) ==
  /\ rl[k] = "report"
  /\ FireDisconnect(k)
  /\ rl' = [rl EXCEPT ![k] = "exited"]
  /\ UNCHANGED <<conn, done, closed, closeOnce, sess, panicked, hb, hbDone, hbConn,
                 lock, phase, got, waitOn, net>>

-----------------------------------------------------------------------------
(* The network.                                                            *)

Breaks(k) ==
  /\ cs[k] \in {"open", "stalled"}
  /\ cs' = [cs EXCEPT ![k] = "dropped"]
  /\ faults' = faults \cup {k}
  /\ UNCHANGED <<client, loops, app, asked, events>>

\* The peer is gone but no Read fails yet; writes do.
Stalls(k) ==
  /\ cs[k] = "open"
  /\ cs' = [cs EXCEPT ![k] = "stalled"]
  /\ faults' = faults \cup {k}
  /\ UNCHANGED <<client, loops, app, asked, events>>

-----------------------------------------------------------------------------

Begins(p) ==
  \/ ConnectBegin(p) \/ DisconnectBegin(p) \/ ReconnectBegin(p)
  \/ LoginBegin(p) \/ LoginPanics(p) \/ LoginRefused(p) \/ HandlerQuits(p)

\* The steps of an operation under way that need nobody else.
Proceeds(p) ==
  \/ DialFails(p) \/ DialWorks(p) \/ StartReadLoop(p)
  \/ TeardownClose(p) \/ TeardownShut(p) \/ TeardownWait(p)
  \/ DisconnectReset(p) \/ ReconnectReset(p) \/ ReconnectLogout(p)
  \/ SendLogon(p) \/ SendLogonFails(p) \/ AwaitEnter(p)
  \/ AwaitAccepted(p) \/ AwaitDenied(p) \/ AwaitDropped(p)
  \/ PublishSession(p) \/ StartHeartbeat(p)

Beat(i) == BeatEnter(i) \/ BeatStops(i) \/ BeatSends(i) \/ BeatFails(i) \/ BeatShuts(i)

\* The steps of a read loop that do not wait for the server.
Unwinds(k) ==
  \/ LoggedOffClose(k) \/ LoggedOffShut(k)
  \/ ReadFails(k) \/ CheckDone(k) \/ ReportDrop(k)

Serves(k) ==
  \/ \E verdict \in {-1, k} : ReadLogonResponse(k, verdict)
  \/ ReadLoggedOff(k) \/ Breaks(k) \/ Stalls(k)

Next ==
  /\ ~panicked
  /\ \/ \E p \in Procs : Begins(p) \/ Proceeds(p) \/ AwaitExpired(p)
     \/ \E i \in Beats : Beat(i)
     \/ \E k \in Conns : Unwinds(k) \/ Serves(k)

Spec == Init /\ [][Next]_vars

\* The Go scheduler runs every goroutine that can run; the heartbeat's ticker
\* keeps ticking, a Read on a broken connection returns, and an OnDisconnect
\* goroutine and a mutex are not starved.  Nothing is assumed of the main
\* goroutine's decisions, of the server, of the network or of contexts.
Fairness ==
  /\ \A p \in Procs : WF_vars(~panicked /\ Proceeds(p))
  /\ \A i \in Beats : WF_vars(~panicked /\ Beat(i))
  /\ \A k \in Conns : WF_vars(~panicked /\ Unwinds(k))

FairSpec == Spec /\ Fairness

-----------------------------------------------------------------------------
(* Safety.                                                                 *)

\* No goroutine ever closes a nil or an already closed done channel, or
\* writes to a nil connection.
NoPanic == ~panicked

\* The client panics exactly when Disconnect or Reconnect is called on one that
\* is not connected, never or not any more, or Login on one that never was.
\* On a connected one closeOnce and its resets arbitrate Disconnect,
\* Reconnect and the handling of ClientLoggedOff in any order; on any other
\* nothing does, and such a call cannot get past its close of done.
OnlyMisusePanics ==
  /\ panicked => phase = "misused"
  /\ phase = "misused" => panicked \/ \E p \in Procs : pc[p] \in {"discClose", "recClose"}

\* A read loop that still runs belongs to the connection the client holds:
\* no teardown lets an old loop survive into the next connection, where the
\* end of its handlePacket would close the new done and the new connection.
LoopsAreCurrent == \A k \in Conns : Reading(k) => k = conn

\* fireDisconnect runs OnDisconnect "at most once per connection lifecycle",
\* although a ClientLoggedOff is followed by a failing Read.
OneEventPerConnection ==
  \A g, h \in 1..fired : evConn[g] = evConn[h] => g = h

\* OnDisconnect tells of a connection that the server or the network ended,
\* never of one that only the client's own Disconnect or Reconnect closed.
NoPhantomEvent == \A h \in 1..fired : evConn[h] \in faults

\* While loggedIn is set, the session stamped on outgoing packets is one
\* that the server of the present connection granted.
SessionIsCurrent == loggedIn => sess = conn

\* A heartbeat loop that gives up closes the connection its write failed on
\* and not the one that has replaced it.
BeatClosesItsOwn == \A i \in Beats : hb[i] = "close" => hbConn[i] = conn

(* Liveness.                                                               *)

TearingDown(p) == pc[p] \in DisconnectPcs \cup ReconnectPcs

\* Disconnect and Reconnect return: closing done and the connection makes
\* every loop they wait for exit.
TeardownEnds == \A p \in Procs :
  TearingDown(p) ~> (~TearingDown(p) \/ panicked)

\* A logged-in connection that breaks, even silently for its reader, is
\* reported through OnDisconnect unless the application tears it down first.
BreakIsReported == \A k \in Conns :
  (loggedIn /\ sess = k /\ conn = k /\ cs[k] \in {"stalled", "dropped"})
    ~> ((\E h \in Handlers : evConn[h] = k) \/ (\E p \in Procs : TearingDown(p)))
=============================================================================
