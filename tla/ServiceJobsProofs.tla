-------------------------- MODULE ServiceJobsProofs --------------------------
(***************************************************************************)
(* callServiceMethod for any finite number of calls: the types, the        *)
(* inductive invariant behind OwnAnswer and NoJobLeaks, and the step       *)
(* simulation that makes ServiceJobs implement RequestReply.               *)
(*                                                                         *)
(* The argument: the counter only grows, so the job IDs of started calls   *)
(* are distinct; therefore a pending job, a request and an answer on its   *)
(* way through the read loop all name the one call that took the job.      *)
(***************************************************************************)
EXTENDS ServiceJobs, FiniteSetTheorems, TLAPS

\* A call takes its job ID when it starts, from the part of the counter used up.
JobsTaken == \A c \in Calls :
  /\ (pc[c] = "idle") <=> (job[c] = 0)
  /\ job[c] <= nextJobID

JobsDistinct == \A c, d \in Calls : job[c] = job[d] /\ job[c] # 0 => c = d

PendingIsOwn == \A j \in Jobs :
  pending[j] # NoCall =>
    /\ job[pending[j]] = j
    /\ pc[pending[j]] \in {"send", "await", "cleanup"}

SentIsOwn == \A r \in sent : job[r[2]] = r[1]

HandIsOwn == hand # <<>> => hand[1] = hand[2] /\ hand[2] \in replied

\* What is in a channel or was returned is the call's own answer, which came.
AnswersAreOwn == \A c \in Calls :
  /\ chan[c] # NoCall => chan[c] = c /\ c \in replied
  /\ result[c] # NoCall => result[c] = c /\ c \in replied /\ pc[c] \in {"cleanup", "returned"}

IInv ==
  /\ TypeOK
  /\ JobsTaken /\ JobsDistinct
  /\ PendingIsOwn /\ SentIsOwn /\ HandIsOwn /\ AnswersAreOwn

\* The number of calls bounds the job IDs.
LEMMA MaxJobType == MaxJob \in Nat
BY CallsAssumption, FS_CardinalityType DEF MaxJob

\* No call has begun: the cache of jobs, the channels and the wire are empty.
LEMMA InitIInv == Init => IInv
BY MaxJobType, CallsAssumption
DEF Init, IInv, TypeOK, Jobs, JobsTaken, JobsDistinct, PendingIsOwn, SentIsOwn,
    HandIsOwn, AnswersAreOwn

\* One proof for the actions of a call, one for the read loop's.
LEMMA NextIInv == IInv /\ [Next]_vars => IInv'
<1> SUFFICES ASSUME IInv, [Next]_vars PROVE IInv'
  OBVIOUS
<1> USE MaxJobType, CallsAssumption DEF Jobs
<1>1. ASSUME NEW c \in Calls, TakeJobID(c) PROVE IInv'
  <2>1. TypeOK' BY <1>1 DEF IInv, TypeOK, TakeJobID, JobIDAfter
  <2>2. JobsTaken' BY <1>1 DEF IInv, TypeOK, JobsTaken, TakeJobID, JobIDAfter
  <2>3. JobsDistinct' BY <1>1 DEF IInv, TypeOK, JobsTaken, JobsDistinct, TakeJobID, JobIDAfter
  <2>4. PendingIsOwn' BY <1>1 DEF IInv, TypeOK, JobsTaken, PendingIsOwn, TakeJobID, JobIDAfter
  <2>5. SentIsOwn' BY <1>1 DEF IInv, TypeOK, JobsTaken, SentIsOwn, TakeJobID, JobIDAfter
  <2>6. (HandIsOwn /\ AnswersAreOwn)'
    BY <1>1 DEF IInv, TypeOK, HandIsOwn, AnswersAreOwn, TakeJobID
  <2> QED BY <2>1, <2>2, <2>3, <2>4, <2>5, <2>6 DEF IInv
<1>2. ASSUME NEW c \in Calls, ExpectJobID(c) PROVE IInv'
  <2>0. job[c] \in Jobs BY <1>2 DEF IInv, TypeOK, JobsTaken, ExpectJobID
  <2>1. TypeOK' BY <1>2 DEF IInv, TypeOK, ExpectJobID, Registered
  <2>2. PendingIsOwn' BY <1>2, <2>0 DEF IInv, TypeOK, PendingIsOwn, ExpectJobID, Registered
  <2>3. (JobsTaken /\ JobsDistinct /\ SentIsOwn /\ HandIsOwn /\ AnswersAreOwn)'
    BY <1>2 DEF IInv, TypeOK, JobsTaken, JobsDistinct, SentIsOwn, HandIsOwn,
                AnswersAreOwn, ExpectJobID
  <2> QED BY <2>1, <2>2, <2>3 DEF IInv
<1>3. ASSUME NEW c \in Calls, SendRequest(c) \/ SendFails(c) PROVE IInv'
  <2>0. /\ job[c] \in Jobs /\ pc[c] = "send"
        /\ sent' \subseteq sent \cup {<<job[c], c>>}
        /\ \E l \in {"await", "cleanup"} : pc' = [pc EXCEPT ![c] = l]
        /\ UNCHANGED <<nextJobID, job, pending, chan, result, replied, hand>>
    BY <1>3 DEF IInv, TypeOK, JobsTaken, SendRequest, SendFails
  <2>1. TypeOK'
    <3>1. sent' \subseteq (Jobs \X Calls) BY <2>0 DEF IInv, TypeOK
    <3> QED BY <2>0, <3>1 DEF IInv, TypeOK
  <2>2. SentIsOwn' BY <2>0 DEF IInv, TypeOK, SentIsOwn
  <2>3. PendingIsOwn' BY <2>0 DEF IInv, TypeOK, PendingIsOwn
  <2>4. JobsTaken' BY <2>0 DEF IInv, TypeOK, JobsTaken
  <2>5. (JobsDistinct /\ HandIsOwn)' BY <2>0 DEF IInv, JobsDistinct, HandIsOwn
  <2>6. AnswersAreOwn' BY <2>0 DEF IInv, TypeOK, AnswersAreOwn
  <2> QED BY <2>1, <2>2, <2>3, <2>4, <2>5, <2>6 DEF IInv
<1>4. ASSUME NEW c \in Calls, AwaitAnswer(c) \/ AwaitGivesUp(c) PROVE IInv'
  <2>0. /\ pc[c] = "await" /\ pc' = [pc EXCEPT ![c] = "cleanup"]
        /\ UNCHANGED <<nextJobID, job, pending, chan, sent, replied, hand>>
    BY <1>4 DEF AwaitAnswer, AwaitGivesUp
  <2>1. TypeOK' BY <1>4 DEF IInv, TypeOK, AwaitAnswer, AwaitGivesUp
  <2>2. AnswersAreOwn' BY <1>4 DEF IInv, TypeOK, AnswersAreOwn, AwaitAnswer, AwaitGivesUp
  <2>3. JobsTaken' BY <2>0 DEF IInv, TypeOK, JobsTaken
  <2>4. PendingIsOwn' BY <2>0 DEF IInv, TypeOK, PendingIsOwn
  <2>5. (JobsDistinct /\ SentIsOwn /\ HandIsOwn)'
    BY <2>0 DEF IInv, JobsDistinct, SentIsOwn, HandIsOwn
  <2> QED BY <2>1, <2>2, <2>3, <2>4, <2>5 DEF IInv
<1>5. ASSUME NEW c \in Calls, Return(c) PROVE IInv'
  <2>1. TypeOK' BY <1>5 DEF IInv, TypeOK, Return, WithoutJob
  <2>2. PendingIsOwn'
    \* The job of c, if it is still pending, is the entry the delete removes.
    BY <1>5 DEF IInv, TypeOK, PendingIsOwn, Return, WithoutJob
  <2>3. (JobsTaken /\ JobsDistinct /\ SentIsOwn /\ HandIsOwn /\ AnswersAreOwn)'
    BY <1>5 DEF IInv, TypeOK, JobsTaken, JobsDistinct, SentIsOwn, HandIsOwn,
                AnswersAreOwn, Return
  <2> QED BY <2>1, <2>2, <2>3 DEF IInv
<1>6. ASSUME NEW r \in sent, PopJob(r) PROVE IInv'
  <2>0. r \in Jobs \X Calls BY DEF IInv, TypeOK
  <2>1. TypeOK' BY <1>6, <2>0 DEF IInv, TypeOK, PopJob
  <2>2. HandIsOwn'
    \* The pending call and the call that sent the request took the same job.
    BY <1>6, <2>0 DEF IInv, TypeOK, PendingIsOwn, SentIsOwn, JobsDistinct, HandIsOwn, PopJob
  <2>3. PendingIsOwn' BY <1>6, <2>0 DEF IInv, TypeOK, PendingIsOwn, PopJob
  <2>4. (JobsTaken /\ JobsDistinct /\ SentIsOwn /\ AnswersAreOwn)'
    BY <1>6 DEF IInv, TypeOK, JobsTaken, JobsDistinct, SentIsOwn, AnswersAreOwn, PopJob
  <2> QED BY <2>1, <2>2, <2>3, <2>4 DEF IInv
<1>7. ASSUME Offer PROVE IInv'
  <2>1. TypeOK' BY <1>7 DEF IInv, TypeOK, Offer
  <2>2. AnswersAreOwn' BY <1>7 DEF IInv, TypeOK, HandIsOwn, AnswersAreOwn, Offer
  <2>3. (JobsTaken /\ JobsDistinct /\ PendingIsOwn /\ SentIsOwn /\ HandIsOwn)'
    BY <1>7 DEF IInv, TypeOK, JobsTaken, JobsDistinct, PendingIsOwn, SentIsOwn, HandIsOwn, Offer
  <2> QED BY <2>1, <2>2, <2>3 DEF IInv
<1>8. CASE UNCHANGED vars
  BY <1>8 DEF vars, IInv, TypeOK, JobsTaken, JobsDistinct, PendingIsOwn, SentIsOwn,
              HandIsOwn, AnswersAreOwn
<1> QED BY <1>1, <1>2, <1>3, <1>4, <1>5, <1>6, <1>7, <1>8 DEF Next, Runs

\* Every state of callServiceMethod satisfies the inductive invariant.
THEOREM Invariance == Spec => []IInv
BY InitIInv, NextIInv, PTL DEF Spec

\* The variables keep their types, for any finite set of calls: in particular
\* the job counter stays within one ID per call.
THEOREM TypeCorrect == Spec => []TypeOK
<1>1. IInv => TypeOK BY DEF IInv
<1> QED BY <1>1, Invariance, PTL

\* A call returns the answer to its own request or none, however many calls
\* are under way and however late, reordered or repeated the answers are.
THEOREM AnswersNeverCross == Spec => []OwnAnswer
<1>1. IInv => OwnAnswer BY DEF IInv, TypeOK, AnswersAreOwn, OwnAnswer
<1> QED BY <1>1, Invariance, PTL

\* A call that has returned has no entry in pendingJobs.
THEOREM JobsNeverLeak == Spec => []NoJobLeaks
<1>1. IInv => NoJobLeaks BY DEF IInv, PendingIsOwn, NoJobLeaks
<1> QED BY <1>1, Invariance, PTL

-----------------------------------------------------------------------------
(* The refinement.                                                         *)

\* All calls are idle at first.
LEMMA InitRefines == Init => RR!Init
BY DEF Init, RR!Init, Status

\* Taking a job ID starts a call, popping a job is the reply, leaving the
\* await or the send decides the call; every other step is invisible.
LEMMA StepRefines == IInv /\ [Next]_vars => [RR!Next]_RR!vars
<1> SUFFICES ASSUME IInv, [Next]_vars PROVE RR!Next \/ UNCHANGED RR!vars
  OBVIOUS
<1> DEFINE st == [c \in Calls |-> Status(c)]
<1>1. ASSUME NEW c \in Calls, TakeJobID(c) PROVE RR!Start(c)
  <2>1. st[c] = "idle" BY <1>1 DEF TakeJobID, Status
  <2>2. st' = [st EXCEPT ![c] = "open"]
    BY <1>1 DEF IInv, TypeOK, TakeJobID, Status
  <2> QED BY <1>1, <2>1, <2>2 DEF RR!Start, TakeJobID
<1>2. ASSUME NEW c \in Calls, ExpectJobID(c) \/ SendRequest(c) PROVE UNCHANGED RR!vars
  BY <1>2 DEF IInv, TypeOK, ExpectJobID, SendRequest, Status, RR!vars
<1>3. ASSUME NEW c \in Calls, SendFails(c) \/ AwaitGivesUp(c) PROVE RR!Fail(c)
  <2>1. st[c] = "open" BY <1>3 DEF SendFails, AwaitGivesUp, Status
  <2>2. result[c] = NoCall
    BY <1>3 DEF IInv, TypeOK, AnswersAreOwn, SendFails, AwaitGivesUp
  <2>3. st' = [st EXCEPT ![c] = "failed"]
    BY <1>3, <2>2, CallsAssumption DEF IInv, TypeOK, SendFails, AwaitGivesUp, Status
  <2> QED BY <1>3, <2>1, <2>3 DEF RR!Fail, SendFails, AwaitGivesUp
<1>4. ASSUME NEW c \in Calls, AwaitAnswer(c) PROVE RR!Succeed(c)
  <2>1. st[c] = "open" BY <1>4 DEF AwaitAnswer, Status
  <2>2. chan[c] = c /\ c \in replied BY <1>4 DEF IInv, AnswersAreOwn, AwaitAnswer
  <2>3. st' = [st EXCEPT ![c] = "answered"]
    BY <1>4, <2>2 DEF IInv, TypeOK, AwaitAnswer, Status
  <2> QED BY <1>4, <2>1, <2>2, <2>3 DEF RR!Succeed, AwaitAnswer
<1>5. ASSUME NEW c \in Calls, Return(c) PROVE UNCHANGED RR!vars
  BY <1>5 DEF IInv, TypeOK, Return, Status, RR!vars
<1>6. ASSUME NEW r \in sent, PopJob(r) PROVE RR!Reply(r[2])
  <2>1. r[2] \in Calls /\ job[r[2]] \in Jobs
    BY DEF IInv, TypeOK, SentIsOwn
  <2>2. st[r[2]] # "idle"
    BY <2>1, MaxJobType DEF IInv, JobsTaken, Status, Jobs
  <2>3. st' = st BY <1>6 DEF PopJob, Status
  <2> QED BY <1>6, <2>2, <2>3 DEF RR!Reply, PopJob
<1>7. ASSUME Offer PROVE UNCHANGED RR!vars
  BY <1>7 DEF Offer, Status, RR!vars
<1>8. CASE UNCHANGED vars
  BY <1>8 DEF vars, Status, RR!vars
<1>9. \A r \in sent : r[2] \in Calls BY DEF IInv, TypeOK
<1> QED
  BY <1>1, <1>2, <1>3, <1>4, <1>5, <1>6, <1>7, <1>8, <1>9 DEF Next, Runs, RR!Next

\* For any finite set of calls, callServiceMethod behaves as RequestReply
\* allows: each call is answered with the reply to its own request, after
\* that reply came, or fails.
THEOREM Refinement == Spec => RR!Spec
<1>1. Spec => RR!Init /\ [][RR!Next]_RR!vars
  BY InitRefines, StepRefines, Invariance, PTL DEF Spec
<1> QED BY <1>1 DEF RR!Spec
=============================================================================
