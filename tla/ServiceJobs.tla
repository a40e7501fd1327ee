----------------------------- MODULE ServiceJobs -----------------------------
(***************************************************************************)
(* callServiceMethod: requests correlated with their responses by job ID.  *)
(* Any number of goroutines call at once; the read loop pops the pending   *)
(* job under the mutex and fills its channel after it has unlocked.  The   *)
(* server may answer in any order, late, more than once or never, and a    *)
(* call may be given up at any time (its context ends, done is closed).    *)
(* Abstraction: a channel is named by the call that made it, a packet is   *)
(* the job it targets with the call whose request it answers.              *)
(***************************************************************************)
EXTENDS Integers, FiniteSets

CONSTANTS
  Calls,    \* the invocations of callServiceMethod
  NoCall    \* none of them: an empty channel, a free job ID, an error

ASSUME CallsAssumption == IsFiniteSet(Calls) /\ NoCall \notin Calls

MaxJob == Cardinality(Calls)
Jobs == 1..MaxJob

VARIABLES
  pc,         \* where each call is
  nextJobID,  \* the atomic counter, never reset
  job,        \* the job ID each call took, 0 before
  pending,    \* pendingJobs: the call registered for a job, or NoCall
  chan,       \* the one-place channel of each call: the call answered, or NoCall
  result,     \* the call whose answer this one returned; NoCall: none, an error
  sent,       \* requests the server has: <<job, call>>
  replied,    \* calls whose answer the read loop has taken from the connection
  hand        \* the read loop: <<>>, or <<channel's call, call answered>>

vars == <<pc, nextJobID, job, pending, chan, result, sent, replied, hand>>

TypeOK ==
  /\ pc \in [Calls -> {"idle", "register", "send", "await", "cleanup", "returned"}]
  /\ nextJobID \in 0..MaxJob
  /\ job \in [Calls -> 0..MaxJob]
  /\ pending \in [Jobs -> Calls \cup {NoCall}]
  /\ chan \in [Calls -> Calls \cup {NoCall}]
  /\ result \in [Calls -> Calls \cup {NoCall}]
  /\ sent \subseteq (Jobs \X Calls)
  /\ replied \subseteq Calls
  /\ hand \in {<<>>} \cup (Calls \X Calls)

Init ==
  /\ pc = [c \in Calls |-> "idle"]
  /\ nextJobID = 0
  /\ job = [c \in Calls |-> 0]
  /\ pending = [j \in Jobs |-> NoCall]
  /\ chan = [c \in Calls |-> NoCall]
  /\ result = [c \in Calls |-> NoCall]
  /\ sent = {}
  /\ replied = {}
  /\ hand = <<>>

\* jobID := c.nextJobID.Add(1), one atomic step.
JobIDAfterBug_Same(n) == IF n = 0 THEN 1 ELSE n
JobIDAfter(n) == n + 1

TakeJobID(c) ==
  /\ pc[c] = "idle" /\ nextJobID < MaxJob
  /\ nextJobID' = JobIDAfter(nextJobID)
  /\ job' = [job EXCEPT ![c] = nextJobID']
  /\ pc' = [pc EXCEPT ![c] = "register"]
  /\ UNCHANGED <<pending, chan, result, sent, replied, hand>>

\* expectJobID, under the mutex.
RegisteredBug_Forgotten(c) == pending
Registered(c) == [pending EXCEPT ![job[c]] = c]

ExpectJobID(c) ==
  /\ pc[c] = "register"
  /\ pending' = Registered(c)
  /\ pc' = [pc EXCEPT ![c] = "send"]
  /\ UNCHANGED <<nextJobID, job, chan, result, sent, replied, hand>>

SendRequest(c) ==
  /\ pc[c] = "send"
  /\ sent' = sent \cup {<<job[c], c>>}
  /\ pc' = [pc EXCEPT ![c] = "await"]
  /\ UNCHANGED <<nextJobID, job, pending, chan, result, replied, hand>>

\* The write reports an error, whether or not the request got through.
SendFails(c) ==
  /\ pc[c] = "send"
  /\ sent' \in {sent, sent \cup {<<job[c], c>>}}
  /\ pc' = [pc EXCEPT ![c] = "cleanup"]
  /\ UNCHANGED <<nextJobID, job, pending, chan, result, replied, hand>>

\* awaitPacket returns the packet.
AwaitAnswer(c) ==
  /\ pc[c] = "await" /\ chan[c] # NoCall
  /\ result' = [result EXCEPT ![c] = chan[c]]
  /\ pc' = [pc EXCEPT ![c] = "cleanup"]
  /\ UNCHANGED <<nextJobID, job, pending, chan, sent, replied, hand>>

\* awaitPacket returns ctx.Err() or ErrDisconnected.
AwaitGivesUp(c) ==
  /\ pc[c] = "await"
  /\ pc' = [pc EXCEPT ![c] = "cleanup"]
  /\ UNCHANGED <<nextJobID, job, pending, chan, result, sent, replied, hand>>

\* The deferred delete, under the mutex.
WithoutJobBug_Kept(j) == pending
WithoutJob(j) == [pending EXCEPT ![j] = NoCall]

Return(c) ==
  /\ pc[c] = "cleanup"
  /\ pending' = WithoutJob(job[c])
  /\ pc' = [pc EXCEPT ![c] = "returned"]
  /\ UNCHANGED <<nextJobID, job, chan, result, sent, replied, hand>>

\* handlePacket looks the job up and deletes it, under the mutex.
PopJob(r) ==
  /\ hand = <<>> /\ r \in sent
  /\ replied' = replied \cup {r[2]}
  /\ hand' = IF pending[r[1]] = NoCall THEN <<>> ELSE <<pending[r[1]], r[2]>>
  /\ pending' = [pending EXCEPT ![r[1]] = NoCall]
  /\ UNCHANGED <<pc, nextJobID, job, chan, result, sent>>

\* ... and then offers the packet to the channel without blocking.
Offer ==
  /\ hand # <<>>
  /\ chan' = IF chan[hand[1]] = NoCall THEN [chan EXCEPT ![hand[1]] = hand[2]] ELSE chan
  /\ hand' = <<>>
  /\ UNCHANGED <<pc, nextJobID, job, pending, result, sent, replied>>

Runs(c) ==
  \/ TakeJobID(c) \/ ExpectJobID(c) \/ SendRequest(c) \/ SendFails(c)
  \/ AwaitAnswer(c) \/ Return(c)

Next ==
  \/ \E c \in Calls : Runs(c) \/ AwaitGivesUp(c)
  \/ \E r \in sent : PopJob(r)
  \/ Offer

Spec == Init /\ [][Next]_vars

\* A call that has begun and the read loop keep running; the server owes
\* nobody an answer and no context need ever end.
FairSpec ==
  /\ Spec
  /\ \A c \in Calls : WF_vars(pc[c] # "idle" /\ Runs(c))
  /\ WF_vars(Offer)

-----------------------------------------------------------------------------
\* The job IDs of two calls never meet, so a response, however late or
\* duplicated, is returned by the call whose request it answers or by none.
OwnAnswer == \A c \in Calls : result[c] \in {NoCall, c}

\* A call that has returned leaves nothing behind in pendingJobs, whether it
\* was answered, failed to send or was given up while its answer was coming.
NoJobLeaks ==
  \A j \in Jobs : pending[j] # NoCall => pc[pending[j]] \in {"send", "await", "cleanup"}

\* The callers' view of the calls.
Status(c) ==
  CASE pc[c] = "idle" -> "idle"
    [] pc[c] \in {"register", "send", "await"} -> "open"
    [] OTHER -> IF result[c] = c THEN "answered"
                ELSE IF result[c] = NoCall THEN "failed" ELSE "crossed"

RR == INSTANCE RequestReply WITH status <- [c \in Calls |-> Status(c)],
                                 replied <- replied

\* callServiceMethod keeps the promise of RequestReply for any interleaving
\* of calls, answers and expiring contexts; above all a call whose answer has
\* reached the client returns, because its job was registered before the
\* request was sent.
ImplementsFairRequestReply == RR!FairSpec
=============================================================================
