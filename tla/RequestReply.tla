---------------------------- MODULE RequestReply ----------------------------
(***************************************************************************)
(* What callServiceMethod promises its callers: every call ends with the   *)
(* server's reply to that very request or with an error, and a call whose  *)
(* reply has come does not go on waiting.  ServiceJobs implements it.      *)
(***************************************************************************)
CONSTANT Calls

VARIABLES
  status,   \* "idle", "open", "answered" or "failed", for each call
  replied   \* the calls whose reply the client has received

vars == <<status, replied>>

TypeOK ==
  /\ status \in [Calls -> {"idle", "open", "answered", "failed"}]
  /\ replied \subseteq Calls

Init ==
  /\ status = [c \in Calls |-> "idle"]
  /\ replied = {}

Start(c) ==
  /\ status[c] = "idle"
  /\ status' = [status EXCEPT ![c] = "open"]
  /\ UNCHANGED replied

\* The reply may be late: the call may have failed meanwhile.
Reply(c) ==
  /\ status[c] # "idle"
  /\ replied' = replied \cup {c}
  /\ UNCHANGED status

Succeed(c) ==
  /\ status[c] = "open" /\ c \in replied
  /\ status' = [status EXCEPT ![c] = "answered"]
  /\ UNCHANGED replied

Fail(c) ==
  /\ status[c] = "open"
  /\ status' = [status EXCEPT ![c] = "failed"]
  /\ UNCHANGED replied

Next == \E c \in Calls : Start(c) \/ Reply(c) \/ Succeed(c) \/ Fail(c)

Spec == Init /\ [][Next]_vars

\* A call does not ignore its reply for ever.
Conclude(c) == c \in replied /\ (Succeed(c) \/ Fail(c))

FairSpec == Spec /\ \A c \in Calls : WF_vars(Conclude(c))
=============================================================================
