---------------------------- MODULE MCCMClient ----------------------------
(* Model-checking instances of CMClient: what the application calls, and    *)
(* when.  It connects a client that is not connected and logs in once on a  *)
(* connection; a careless application also logs in too early, disconnects   *)
(* and reconnects whatever the client is doing, the other one reconnects    *)
(* what it has disconnected, but nothing that it never connected.           *)
EXTENDS CMClient

AllOps == Ops

AnyTime == [op \in Ops |->
  CASE op = "Connect" -> {"fresh", "closed"} [] op = "Login" -> {"fresh", "linked"} [] OTHER -> Phases]
Reuse == [AnyTime EXCEPT
  !["Login"] = {"linked"}, !["Disconnect"] = Live, !["Reconnect"] = Live \cup {"closed"}]
=============================================================================
