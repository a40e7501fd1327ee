------------------------------ MODULE TF2Proofs ------------------------------
(***************************************************************************)
(* The two halves of package tf2, which share no state.                    *)
(*                                                                         *)
(* The backpack cache for any items, versions, queues and faults, when the *)
(* coordinator sends the account object with the backpack: the cache       *)
(* comes to be the coordinator's inventory, and the callbacks tell of      *)
(* everything that happens to it.                                          *)
(*                                                                         *)
(* The hello phase of the session for any number of Connects: no stop      *)
(* channel is closed twice, and no hello loop is left with a channel that  *)
(* nobody can close any more.  Neither is inductive: what carries them is  *)
(* that a stop channel, once made, is at every moment either closed or the *)
(* one in helloStop, and never both.                                       *)
(***************************************************************************)
EXTENDS SOCache, TF2Session, SequenceTheorems, FiniteSetTheorems, TLAPS

\* An update changes one item or two; an object is written before anything
\* else is told.
Writes == {"create", "update"} \X Objects
Shapes ==
  /\ Len(todo) <= 2
  /\ \A n \in 1..Len(queue) : queue[n].type = "update" => Len(queue[n].objects) <= 2
  /\ work \in Writes => tell = NoNews

-----------------------------------------------------------------------------
(* Types.                                                                  *)

\* What is still to be done is told apart by its name.
LEMMA Jobs ==
  /\ \A w \in Writes : w[1] \in {"create", "update"} /\ w[2] \in Objects
  /\ <<>> \notin Writes /\ <<"account">> \notin Writes
<1>1. \A w \in Writes : w[1] \in {"create", "update"} /\ w[2] \in Objects BY DEF Writes
<1>2. <<"account">>[1] = "account" OBVIOUS
<1>3. <<>> \notin Writes BY DEF Writes
<1> QED BY <1>1, <1>2, <1>3

\* What a message carries.
LEMMA MessageFields ==
  ASSUME NEW m \in Messages
  PROVE  /\ m.type \in {"welcome", "goodbye", "check", "account", "subscribed", "create",
                        "destroy", "update"}
         /\ m.type = "subscribed" => m.snapshot \in Backpacks
         /\ m.type = "create" => m.object \in Objects
         /\ m.type = "destroy" => m.id \in Ids
         /\ m.type = "update" => m.objects \in Seq(Objects)
BY DEF Messages

\* A message that is sent joins the queue at its end.
LEMMA Sending ==
  ASSUME TypeOK, Shapes, NEW m \in Messages, m.type = "update" => Len(m.objects) <= 2, Sends(m)
  PROVE  /\ queue' \in Seq(Messages) /\ Len(queue') = Len(queue) + 1 /\ Len(queue') <= MaxQueue
         /\ Len(queue) \in Nat
         /\ queue'[Len(queue) + 1] = m
         /\ \A n \in 1..Len(queue) : queue'[n] = queue[n]
         /\ \A n \in 1..Len(queue') : queue'[n].type = "update" => Len(queue'[n].objects) <= 2
<1>1. queue \in Seq(Messages) /\ Len(queue) \in Nat BY DEF TypeOK
<1>2. /\ queue' \in Seq(Messages) /\ Len(queue') = Len(queue) + 1
      /\ queue'[Len(queue) + 1] = m
      /\ \A n \in 1..Len(queue) : queue'[n] = queue[n]
  BY <1>1 DEF Sends
<1>3. Len(queue') <= MaxQueue BY <1>1, <1>2, BoundsAssumption DEF Sends
<1>4. ASSUME NEW n \in 1..Len(queue'), queue'[n].type = "update"
      PROVE  Len(queue'[n].objects) <= 2
  BY <1>1, <1>2, <1>4 DEF Shapes
<1> QED BY <1>1, <1>2, <1>3, <1>4

\* The message that is handled leaves the queue at its head.
LEMMA Taking ==
  ASSUME TypeOK, Shapes, NEW type, Takes(type)
  PROVE  /\ queue' \in Seq(Messages) /\ Len(queue) \in Nat \ {0} /\ Len(queue') = Len(queue) - 1
         /\ Len(queue') <= MaxQueue
         /\ Head(queue) = queue[1] /\ queue[1] \in Messages /\ queue[1].type = type
         /\ \A n \in 1..Len(queue') : queue'[n] = queue[n + 1]
         /\ \A n \in 1..Len(queue') : queue'[n].type = "update" => Len(queue'[n].objects) <= 2
         /\ work = <<>> /\ tell = NoNews /\ todo = <<>>
<1>1. queue \in Seq(Messages) /\ Len(queue) \in Nat /\ Len(queue) <= MaxQueue /\ queue # <<>>
  BY DEF TypeOK, Takes
<1>2. Len(queue) # 0 BY <1>1, EmptySeq
<1>3. /\ queue' \in Seq(Messages) /\ Len(queue') = Len(queue) - 1
      /\ Head(queue) = queue[1] /\ queue[1] \in Messages
      /\ \A n \in 1..Len(queue') : queue'[n] = queue[n + 1]
  BY <1>1, <1>2 DEF Takes
<1>4. ASSUME NEW n \in 1..Len(queue'), queue'[n].type = "update"
      PROVE  Len(queue'[n].objects) <= 2
  BY <1>1, <1>3, <1>4 DEF Shapes
<1>5. Len(queue') <= MaxQueue BY <1>1, <1>3, BoundsAssumption
<1> QED BY <1>1, <1>2, <1>3, <1>4, <1>5 DEF Takes, Idle

\* What the coordinator sends of a change is a message.
LEMMA ChangeMessage ==
  ASSUME TypeOK, NEW i \in Ids, NEW v \in 0..MaxVersion, inv[i] # v
  PROVE  /\ Change(i, v) \in Messages
         /\ inv[i] = 0 =>
              v \in 1..MaxVersion /\ Change(i, v) = [type |-> "create", object |-> <<i, v>>]
         /\ inv[i] # 0 /\ v = 0 => Change(i, v) = [type |-> "destroy", id |-> i]
         /\ inv[i] # 0 /\ v # 0 =>
              v \in 1..MaxVersion /\ Change(i, v) = [type |-> "update", objects |-> <<<<i, v>>>>]
<1>1. MaxVersion \in Nat BY BoundsAssumption
<1>2. CASE inv[i] = 0
  <2>1. Change(i, v) = [type |-> "create", object |-> <<i, v>>] /\ v \in 1..MaxVersion
    BY <1>1, <1>2 DEF Change
  <2>2. <<i, v>> \in Objects BY <2>1 DEF Objects
  <2> QED BY <1>2, <2>1, <2>2 DEF Messages
<1>3. CASE inv[i] # 0 /\ v = 0
  <2>1. Change(i, v) = [type |-> "destroy", id |-> i] BY <1>3 DEF Change
  <2> QED BY <1>3, <2>1 DEF Messages
<1>4. CASE inv[i] # 0 /\ v # 0
  <2>1. Change(i, v) = [type |-> "update", objects |-> <<<<i, v>>>>] /\ v \in 1..MaxVersion
    BY <1>1, <1>4 DEF Change
  <2>2. <<i, v>> \in Objects BY <2>1 DEF Objects
  <2>3. <<<<i, v>>>> \in Seq(Objects) BY <2>2
  <2>4. [type |-> "update", objects |-> <<<<i, v>>>>]
          \in [type : {"update"}, objects : Seq(Objects)]
    BY <2>3
  <2> QED BY <1>4, <2>1, <2>4 DEF Messages
<1> QED BY <1>2, <1>3, <1>4

\* So is what it sends when two items change at once.
LEMMA PairMessage ==
  ASSUME NEW i \in Ids, NEW j \in Ids, NEW v \in 1..MaxVersion
  PROVE  [type |-> "update", objects |-> <<<<i, v>>, <<j, v>>>>] \in Messages
<1>1. <<<<i, v>>, <<j, v>>>> \in Seq(Objects) BY DEF Objects
<1> QED BY <1>1 DEF Messages

\* The coordinator leaves the cache and the handlers alone, and sends at most
\* one message.
LEMMA CoordinatorTypes ==
  ASSUME TypeOK, Shapes, Coordinates
  PROVE  TypeOK' /\ Shapes' /\ UNCHANGED <<items, account, work, tell, todo, view>>
<1> USE DEF coordinator, cache, handler
<1>0. MaxVersion \in Nat \ {0} /\ MaxQueue \in Nat \ {0} /\ MaxEdits \in Nat
  BY BoundsAssumption
<1>1. ASSUME UNCHANGED <<items, account, work, tell, todo, view>>,
             inv' \in Backpacks, edits' \in 0..MaxEdits, gc' \in {"down", "up", "subscribed"},
             refresh' \in BOOLEAN, debt' \in 0..(MaxQueue + 1),
             \/ UNCHANGED queue
             \/ \E m \in Messages : Sends(m) /\ (m.type = "update" => Len(m.objects) <= 2)
      PROVE  TypeOK' /\ Shapes' /\ UNCHANGED <<items, account, work, tell, todo, view>>
  <2>1. /\ queue' \in Seq(Messages) /\ Len(queue') <= MaxQueue
        /\ \A n \in 1..Len(queue') : queue'[n].type = "update" => Len(queue'[n].objects) <= 2
    BY <1>1, Sending DEF TypeOK, Shapes
  <2>2. TypeOK' BY <1>1, <2>1 DEF TypeOK
  <2>3. Shapes' BY <1>1, <2>1 DEF Shapes
  <2> QED BY <1>1, <2>2, <2>3
<1>2. ASSUME NEW m \in Messages, m.type # "update", Sends(m), UNCHANGED <<items, account, work,
             tell, todo, view, inv, edits, debt>>, gc' \in {"down", "up", "subscribed"},
             refresh' \in BOOLEAN
      PROVE  TypeOK' /\ Shapes' /\ UNCHANGED <<items, account, work, tell, todo, view>>
  BY <1>1, <1>2 DEF TypeOK
<1>3. CASE GCWelcome \/ GCGoodbye \/ GCCheck \/ GCAccount
  <2>1. ASSUME NEW l \in {"welcome", "goodbye", "check", "account"} PROVE [type |-> l] \in Messages
    BY DEF Messages
  <2>2. /\ UNCHANGED <<items, account, work, tell, todo, view, inv, edits, debt, refresh>>
        /\ gc' \in {gc, "down", "up"}
    BY <1>3 DEF GCWelcome, GCGoodbye, GCCheck, GCAccount
  <2>3. \E l \in {"welcome", "goodbye", "check", "account"} : Sends([type |-> l])
    BY <1>3 DEF GCWelcome, GCGoodbye, GCCheck, GCAccount
  <2> QED BY <1>2, <2>1, <2>2, <2>3 DEF TypeOK
<1>4. CASE GCSubscribe
  <2>1. [type |-> "subscribed", snapshot |-> inv] \in Messages BY DEF Messages, TypeOK
  <2> QED BY <1>2, <1>4, <2>1 DEF GCSubscribe
<1>5. CASE GCLapse
  <2>1. Cardinality({n \in DOMAIN queue : queue[n].type = "welcome"}) \in 0..MaxQueue
    <3>1. queue \in Seq(Messages) /\ Len(queue) \in Nat /\ Len(queue) <= MaxQueue
      BY DEF TypeOK
    <3>2. DOMAIN queue = 1..Len(queue) BY <3>1
    <3>3. IsFiniteSet(1..Len(queue)) /\ Cardinality(1..Len(queue)) = Len(queue)
      BY <3>1, FS_Interval
    <3> DEFINE W == {n \in DOMAIN queue : queue[n].type = "welcome"}
    <3>4. W \subseteq 1..Len(queue) BY <3>2
    <3>5. IsFiniteSet(W) /\ Cardinality(W) <= Len(queue) BY <3>3, <3>4, FS_Subset
    <3>6. Cardinality(W) \in Nat BY <3>5, FS_CardinalityType
    <3> QED BY <1>0, <3>1, <3>5, <3>6
  <2>2. debt' \in 0..(MaxQueue + 1) BY <1>0, <1>5, <2>1 DEF GCLapse
  <2> QED BY <1>1, <1>5, <2>2 DEF GCLapse, TypeOK
<1>6. ASSUME NEW i \in Ids, NEW v \in 0..MaxVersion, GCEdits(i, v)
      PROVE  TypeOK' /\ Shapes' /\ UNCHANGED <<items, account, work, tell, todo, view>>
  <2>1. /\ inv[i] # v /\ edits < MaxEdits /\ edits' = edits + 1 /\ inv' = [inv EXCEPT ![i] = v]
        /\ UNCHANGED <<items, account, work, tell, todo, view, gc, refresh, debt>>
        /\ Sends(Change(i, v)) \/ UNCHANGED queue
    BY <1>6 DEF GCEdits
  <2>2. /\ Change(i, v) \in Messages
        /\ Change(i, v).type = "update" => Len(Change(i, v).objects) <= 2
    BY <2>1, ChangeMessage
  <2>3. inv' \in Backpacks /\ edits' \in 0..MaxEdits
    BY <1>0, <2>1 DEF TypeOK, Backpacks
  <2> QED BY <1>1, <2>1, <2>2, <2>3 DEF TypeOK
<1>7. ASSUME NEW i \in Ids, NEW j \in Ids, NEW v \in 1..MaxVersion, GCEditsTwo(i, j, v)
      PROVE  TypeOK' /\ Shapes' /\ UNCHANGED <<items, account, work, tell, todo, view>>
  <2> DEFINE m == [type |-> "update", objects |-> <<<<i, v>>, <<j, v>>>>]
  <2>1. /\ edits < MaxEdits /\ edits' = edits + 1 /\ inv' = [inv EXCEPT ![i] = v, ![j] = v]
        /\ UNCHANGED <<items, account, work, tell, todo, view, gc, refresh, debt>>
        /\ Sends(m) \/ UNCHANGED queue
    BY <1>7 DEF GCEditsTwo
  <2>2. m \in Messages /\ Len(m.objects) <= 2 BY PairMessage
  <2>3. edits' \in 0..MaxEdits BY <1>0, <2>1 DEF TypeOK
  <2>4. inv' \in Backpacks
    <3>1. [inv EXCEPT ![i] = v] \in Backpacks BY <1>0 DEF TypeOK, Backpacks
    <3> QED BY <1>0, <2>1, <3>1 DEF Backpacks
  <2> HIDE DEF m
  <2> QED BY <1>1, <2>1, <2>2, <2>3, <2>4 DEF TypeOK
<1> QED BY <1>3, <1>4, <1>5, <1>6, <1>7 DEF Coordinates

\* A fault leaves a debt, which only a Welcome pays.
LEMMA FaultOwes ==
  ASSUME TypeOK, Faults
  PROVE  /\ debt' \in 0..(MaxQueue + 1) /\ debt' \in Nat /\ debt' # 0
         /\ debt \in Nat /\ debt <= debt'
<1>1. debt \in 0..(MaxQueue + 1) /\ MaxQueue \in Nat BY BoundsAssumption DEF TypeOK
<1>2. debt' = IF debt = 0 THEN 1 ELSE debt BY DEF Faults
<1> QED BY <1>1, <1>2

\* The handlers keep the types.
LEMMA HandlerTypes ==
  ASSUME TypeOK, Shapes, Handles
  PROVE  TypeOK' /\ Shapes'
<1> USE DEF coordinator, cache, handler
<1>0. /\ MaxVersion \in Nat \ {0} /\ MaxQueue \in Nat \ {0} /\ MaxEdits \in Nat
      /\ Empty \in Backpacks /\ DOMAIN NoNews = {}
  BY BoundsAssumption DEF Backpacks, Empty, NoNews
<1>1. ASSUME NEW type, Takes(type), UNCHANGED coordinator,
             items' \in Backpacks, account' \in BOOLEAN, refresh' \in BOOLEAN,
             UNCHANGED view, debt' \in 0..(MaxQueue + 1),
             work' \in {<<>>, <<"account">>} \cup Writes, work' \in Writes => tell' = NoNews,
             DOMAIN tell' \subseteq Ids, \A i \in DOMAIN tell' : tell'[i] \in 0..MaxVersion,
             todo' \in Seq(Objects), Len(todo') <= 2
      PROVE  TypeOK' /\ Shapes'
  <2>1. TypeOK' BY <1>1, Taking DEF TypeOK, Writes
  <2>2. Shapes' BY <1>1, Taking DEF Shapes
  <2> QED BY <2>1, <2>2
<1>2. ASSUME NEW type, Takes(type)
      PROVE  <<>> \in Seq(Objects) /\ Len(<<>>) <= 2 /\ <<>> \notin Writes
  BY DEF Writes
<1>3. CASE HandleWelcome \/ HandleGoodbye
  <2>1. \E type : Takes(type) /\ UNCHANGED todo
    BY <1>3 DEF HandleWelcome, HandleGoodbye
  <2>2. /\ UNCHANGED <<coordinator, refresh, work, todo, view>>
        /\ items' = Empty /\ account' = FALSE /\ tell' = Empty
    BY <1>3 DEF HandleWelcome, HandleGoodbye, Reset, ResetItems
  <2>3. debt' \in 0..(MaxQueue + 1)
    BY <1>0, <1>3 DEF HandleWelcome, HandleGoodbye, TypeOK
  <2>4. DOMAIN Empty \subseteq Ids /\ \A i \in DOMAIN Empty : Empty[i] \in 0..MaxVersion
    BY <1>0 DEF Empty
  <2> QED BY <1>0, <1>1, <1>2, <2>1, <2>2, <2>3, <2>4, Taking DEF TypeOK
<1>4. CASE HandleCheck
  BY <1>1, <1>2, <1>4, Taking DEF HandleCheck, TypeOK, Shapes
<1>5. CASE HandleSubscribed
  <2>1. /\ Takes("subscribed") /\ Head(queue).snapshot \in Backpacks /\ tell' = Head(queue).snapshot
        /\ items' = Merged(Head(queue).snapshot)
        /\ UNCHANGED <<coordinator, refresh, account, todo, debt, view>>
        /\ work' \in {<<>>, <<"account">>}
    BY <1>5, Taking, MessageFields DEF HandleSubscribed
  <2>2. items' \in Backpacks BY <2>1 DEF Merged, Backpacks, TypeOK
  <2>3. DOMAIN tell' \subseteq Ids /\ \A i \in DOMAIN tell' : tell'[i] \in 0..MaxVersion
    BY <2>1 DEF Backpacks
  <2>4. work' \notin Writes BY <2>1, Jobs
  <2> QED BY <1>1, <1>2, <2>1, <2>2, <2>3, <2>4, Taking DEF TypeOK
<1>6. CASE LoadAccount
  BY <1>6 DEF LoadAccount, TypeOK, Shapes, Writes
<1>7. CASE HandleGarbledSubscribed
  <2>1. /\ Takes("subscribed") /\ Head(queue).snapshot \in Backpacks
        /\ UNCHANGED <<coordinator, refresh, account, work, tell, todo, view>>
    BY <1>7, Taking, MessageFields DEF HandleGarbledSubscribed
  <2>2. \E before :
          items' = [i \in Ids |-> IF i \in before THEN Head(queue).snapshot[i] ELSE items[i]]
    BY <1>7 DEF HandleGarbledSubscribed, Partly
  <2>3. items' \in Backpacks BY <2>1, <2>2 DEF Backpacks, TypeOK
  <2>4. debt' \in 0..(MaxQueue + 1) BY <1>7, FaultOwes DEF HandleGarbledSubscribed
  <2> QED BY <1>0, <1>1, <1>2, <2>1, <2>3, <2>4, Taking DEF TypeOK
<1>8. CASE HandleCreate
  <2>1. /\ Takes("create") /\ Head(queue).object \in Objects
        /\ UNCHANGED <<coordinator, refresh, cache, tell, todo, debt, view>>
        /\ work' \in {<<>>, <<"create", Head(queue).object>>}
    BY <1>8, Taking, MessageFields DEF HandleCreate
  <2>2. work' \in {<<>>} \cup Writes BY <2>1 DEF Writes
  <2> QED BY <1>0, <1>1, <1>2, <2>1, <2>2, Taking DEF TypeOK
<1>9. CASE HandleUpdate
  <2>1. /\ Takes("update") /\ todo' = Head(queue).objects /\ todo' \in Seq(Objects)
        /\ UNCHANGED <<coordinator, refresh, cache, work, tell, debt, view>>
    BY <1>9, Taking, MessageFields DEF HandleUpdate
  <2>2. Len(todo') <= 2
    <3>1. Len(queue) \in Nat \ {0} /\ queue[1].type = "update" /\ todo' = queue[1].objects
      BY <2>1, Taking
    <3> QED BY <3>1 DEF Shapes
  <2> QED BY <1>0, <1>1, <1>2, <2>1, <2>2, Taking DEF TypeOK
<1>10. CASE UpdateNext
  <2>1. /\ todo \in Seq(Objects) /\ todo # <<>> /\ todo' = Tail(todo) /\ tell = NoNews
        /\ UNCHANGED <<coordinator, refresh, queue, cache, tell, debt, view>>
        /\ work' \in {<<>>, <<"update", Head(todo)>>}
    BY <1>10 DEF UpdateNext, TypeOK
  <2>2. Head(todo) \in Objects /\ todo' \in Seq(Objects) /\ Len(todo') <= 2
    <3>1. Len(todo) \in Nat /\ Len(todo) <= 2 BY <2>1 DEF Shapes
    <3>2. Len(todo) # 0 BY <2>1, EmptySeq
    <3> QED BY <2>1, <3>1, <3>2
  <2>3. work' \in {<<>>} \cup Writes BY <2>1, <2>2 DEF Writes
  <2> QED BY <2>1, <2>2, <2>3 DEF TypeOK, Shapes, Writes
<1>11. CASE Insert
  <2>1. PICK i \in Ids, v \in 1..MaxVersion : work[2][1] = i /\ work[2][2] = v
    BY <1>11 DEF Insert, TypeOK, Objects
  <2>2. /\ items' = [items EXCEPT ![i] = v] /\ tell' = [j \in {i} |-> v] /\ work' = <<>>
        /\ UNCHANGED <<coordinator, refresh, queue, account, todo, debt, view>>
    BY <1>11, <2>1 DEF Insert
  <2>3. items' \in Backpacks BY <1>0, <2>1, <2>2 DEF TypeOK, Backpacks
  <2>4. DOMAIN tell' \subseteq Ids /\ \A j \in DOMAIN tell' : tell'[j] \in 0..MaxVersion
    BY <1>0, <2>1, <2>2
  <2> QED BY <2>2, <2>3, <2>4 DEF TypeOK, Shapes, Writes
<1>12. CASE HandleAccount
  <2>1. /\ Takes("account") /\ account' = TRUE
        /\ UNCHANGED <<coordinator, refresh, items, handler, debt, view>>
    BY <1>12 DEF HandleAccount
  <2> QED BY <1>0, <1>1, <1>2, <2>1, Taking DEF TypeOK
<1>13. CASE HandleDestroy
  <2>1. /\ Takes("destroy") /\ Head(queue).id \in Ids
        /\ items' = [items EXCEPT ![Head(queue).id] = 0]
        /\ tell' = Removal(Head(queue).id)
        /\ UNCHANGED <<coordinator, refresh, account, work, todo, debt, view>>
    BY <1>13, Taking, MessageFields DEF HandleDestroy
  <2>2. items' \in Backpacks BY <1>0, <2>1 DEF TypeOK, Backpacks
  <2>3. tell' = NoNews \/ tell' = [j \in {Head(queue).id} |-> 0] BY <2>1 DEF Removal
  <2>4. DOMAIN tell' \subseteq Ids /\ \A j \in DOMAIN tell' : tell'[j] \in 0..MaxVersion
    BY <1>0, <2>1, <2>3
  <2> QED BY <1>0, <1>1, <1>2, <2>1, <2>2, <2>4, Taking DEF TypeOK
<1>14. CASE Tell
  <2>1. /\ view' = [i \in Ids |-> IF i \in DOMAIN tell THEN tell[i] ELSE view[i]]
        /\ tell' = NoNews
        /\ UNCHANGED <<coordinator, refresh, queue, cache, work, todo, debt>>
    BY <1>14 DEF Tell
  <2>2. view' \in Backpacks BY <2>1 DEF TypeOK, Backpacks
  <2> QED BY <1>0, <2>1, <2>2 DEF TypeOK, Shapes
<1>15. CASE HandleUndecodable
  <2>1. PICK type : Takes(type) BY <1>15 DEF HandleUndecodable
  <2>2. UNCHANGED <<coordinator, refresh, cache, handler, view>> /\ Faults
    BY <1>15 DEF HandleUndecodable
  <2>3. debt' \in 0..(MaxQueue + 1) BY <2>2, FaultOwes
  <2> QED BY <1>0, <1>1, <1>2, <2>1, <2>2, <2>3, Taking DEF TypeOK
<1>16. CASE LoadAccountFails
  <2>1. debt' \in 0..(MaxQueue + 1) BY <1>16, FaultOwes DEF LoadAccountFails
  <2> QED BY <1>16, <2>1 DEF LoadAccountFails, TypeOK, Shapes, Writes
<1>17. CASE UpdateFails
  <2>1. debt' \in 0..(MaxQueue + 1) BY <1>17, FaultOwes DEF UpdateFails
  <2>2. /\ todo \in Seq(Objects) /\ todo # <<>> /\ todo' = Tail(todo)
        /\ UNCHANGED <<coordinator, refresh, queue, cache, work, tell, view>>
    BY <1>17 DEF UpdateFails, TypeOK
  <2>3. todo' \in Seq(Objects) /\ Len(todo') <= 2
    <3>1. Len(todo) \in Nat /\ Len(todo) <= 2 BY <2>2 DEF Shapes
    <3>2. Len(todo) # 0 BY <2>2, EmptySeq
    <3> QED BY <2>2, <3>1, <3>2
  <2> QED BY <2>1, <2>2, <2>3 DEF TypeOK, Shapes
<1> QED
  BY <1>3, <1>4, <1>5, <1>6, <1>7, <1>8, <1>9, <1>10, <1>11, <1>12, <1>13, <1>14, <1>15, <1>16,
     <1>17
  DEF Handles

\* So does every step.
LEMMA TypesKept ==
  ASSUME TypeOK, Shapes, [Next]_vars
  PROVE  TypeOK' /\ Shapes'
<1>1. CASE Disconnect
  <2>1. Empty \in Backpacks /\ MaxQueue \in Nat BY BoundsAssumption DEF Empty, Backpacks
  <2>2. /\ items' = Empty /\ account' = FALSE /\ view' = Empty
        /\ UNCHANGED <<coordinator, refresh, queue, handler>>
    BY <1>1 DEF Disconnect, Reset, ResetItems
  <2>3. debt' \in 0..(MaxQueue + 1) BY <1>1, FaultOwes DEF Disconnect
  <2>4. TypeOK' BY <2>1, <2>2, <2>3 DEF TypeOK, coordinator, handler
  <2>5. Shapes' BY <2>2 DEF Shapes, handler
  <2> QED BY <2>4, <2>5
<1>2. CASE UNCHANGED vars BY <1>2 DEF vars, TypeOK, Shapes
<1> QED BY <1>1, <1>2, CoordinatorTypes, HandlerTypes DEF Next

\* The cache of a client that has not been welcomed.
LEMMA TypesInit ==
  Init => TypeOK /\ Shapes
<1> SUFFICES ASSUME Init PROVE TypeOK /\ Shapes
  OBVIOUS
<1>1. /\ inv \in [Ids -> 0..1] /\ edits = 0 /\ gc = "down" /\ queue = <<>> /\ refresh = FALSE
      /\ items = Empty /\ account = FALSE /\ work = <<>> /\ todo = <<>>
      /\ tell = NoNews /\ debt = 0 /\ view = Empty
  BY DEF Init
<1>2. MaxVersion \in Nat \ {0} /\ MaxQueue \in Nat /\ MaxEdits \in Nat BY BoundsAssumption
<1>3. inv \in Backpacks /\ Empty \in Backpacks BY <1>1, <1>2 DEF Backpacks, Empty
<1>4. queue \in Seq(Messages) /\ todo \in Seq(Objects) /\ Len(queue) = 0 /\ Len(todo) = 0
  BY <1>1
<1>5. DOMAIN tell = {} BY <1>1 DEF NoNews
<1>6. TypeOK
  <2>1. debt \in 0..(MaxQueue + 1) /\ edits \in 0..MaxEdits /\ Len(queue) <= MaxQueue
    BY <1>1, <1>2, <1>4
  <2> QED BY <1>1, <1>3, <1>4, <1>5, <2>1 DEF TypeOK
<1>7. Shapes BY <1>1, <1>4, Jobs DEF Shapes
<1> QED BY <1>6, <1>7

-----------------------------------------------------------------------------
(* The cache to come: what it will be after each message on its way.       *)

Caches == [items : Backpacks, loaded : BOOLEAN, debt : Nat]
Forgotten(k) == [items |-> Empty, loaded |-> FALSE, debt |-> k]

Put(pack, o) == [pack EXCEPT ![o[1]] = o[2]]
PutAll(pack, os) ==
  IF os = <<>> THEN pack
  ELSE IF Len(os) = 1 THEN Put(pack, os[1]) ELSE Put(Put(pack, os[1]), os[2])

\* What a message makes of cache a, when it is handled to its end.  A cache
\* with a debt is of no interest until the Welcome that pays it.  A creation or
\* an update never meets a cache that looks unloaded, and a subscription lists
\* every item that the cache has.
Follows(m, a, b) ==
  /\ m.type = "welcome" => b = Forgotten(IF a.debt = 0 THEN 0 ELSE a.debt - 1)
  /\ a.debt # 0 /\ m.type # "welcome" => b = a
  /\ a.debt = 0 =>
       /\ m.type = "goodbye" => b = Forgotten(0)
       /\ m.type = "check" => b = a
       /\ m.type = "account" => b = [items |-> a.items, loaded |-> TRUE, debt |-> 0]
       /\ m.type = "subscribed" =>
            /\ \A i \in Ids : m.snapshot[i] = 0 => a.items[i] = 0
            /\ b = [items |-> m.snapshot, loaded |-> TRUE, debt |-> 0]
       /\ m.type = "create" =>
            a.loaded /\ b = [items |-> Put(a.items, m.object), loaded |-> TRUE, debt |-> 0]
       /\ m.type = "update" =>
            a.loaded /\ b = [items |-> PutAll(a.items, m.objects), loaded |-> TRUE, debt |-> 0]
       /\ m.type = "destroy" =>
            b = [items |-> [a.items EXCEPT ![m.id] = 0], loaded |-> a.loaded, debt |-> 0]

Traces(q) ==
  {t \in [0..Len(q) -> Caches] : \A n \in 1..Len(q) : Follows(q[n], t[n - 1], t[n])}

\* The cache once the present handler has ended.
Begun == IF work \in Writes THEN Put(items, work[2]) ELSE items
Loaded == account \/ work = <<"account">>
Present(c) ==
  /\ c.debt <= debt
  /\ debt = 0 => c.items = PutAll(Begun, todo) /\ (c.loaded => Loaded)

\* The cache once everything has been handled.
Final(c) ==
  c.debt = 0 => IF gc = "subscribed" THEN c.items = inv /\ c.loaded ELSE c.items = Empty

Replay == \E t \in Traces(queue) : Present(t[0]) /\ Final(t[Len(queue)])

\* While no debt is open, updates do not meet an unloaded cache, and the
\* callback that is due completes the application's view.
Ready == debt = 0 /\ todo # <<>> => account
Told == debt = 0 => \A i \in Ids : items[i] = IF i \in DOMAIN tell THEN tell[i] ELSE view[i]

Inv == TypeOK /\ Shapes /\ Replay /\ Ready /\ Told

\* A message that is sent makes the trace longer by what it will make of the
\* last cache.
LEMMA TraceGrows ==
  ASSUME TypeOK, Shapes, NEW m \in Messages, m.type = "update" => Len(m.objects) <= 2, Sends(m),
         NEW t \in Traces(queue), NEW c \in Caches, Follows(m, t[Len(queue)], c)
  PROVE  \E u \in Traces(queue') : u[0] = t[0] /\ u[Len(queue')] = c
<1>1. /\ Len(queue') = Len(queue) + 1 /\ Len(queue) \in Nat /\ queue'[Len(queue) + 1] = m
      /\ \A n \in 1..Len(queue) : queue'[n] = queue[n]
  BY Sending
<1> DEFINE u == [n \in 0..Len(queue') |-> IF n = Len(queue') THEN c ELSE t[n]]
<1>2. t \in [0..Len(queue) -> Caches] /\ \A n \in 1..Len(queue) : Follows(queue[n], t[n - 1], t[n])
  BY DEF Traces
<1>3. u \in [0..Len(queue') -> Caches] BY <1>1, <1>2
<1>4. ASSUME NEW n \in 1..Len(queue') PROVE Follows(queue'[n], u[n - 1], u[n])
  <2>1. CASE n = Len(queue')
    <3>1. queue'[n] = m /\ u[n] = c /\ u[n - 1] = t[Len(queue)] BY <1>1, <2>1
    <3> HIDE DEF u
    <3> QED BY <3>1
  <2>2. CASE n # Len(queue')
    <3>1. n \in 1..Len(queue) BY <1>1, <2>2
    <3>2. queue'[n] = queue[n] /\ u[n] = t[n] /\ u[n - 1] = t[n - 1] BY <1>1, <3>1
    <3>3. Follows(queue[n], t[n - 1], t[n]) BY <1>2, <3>1
    <3> HIDE DEF u
    <3> QED BY <3>2, <3>3
  <2> QED BY <2>1, <2>2
<1>5. u[0] = t[0] /\ u[Len(queue')] = c BY <1>1
<1>6. u \in Traces(queue')
  <2> HIDE DEF u
  <2> QED BY <1>3, <1>4 DEF Traces
<1> HIDE DEF u
<1> QED BY <1>5, <1>6

\* A message that is handled takes its cache from the front of the trace.
LEMMA TraceShrinks ==
  ASSUME TypeOK, Shapes, NEW type, Takes(type), NEW t \in Traces(queue)
  PROVE  /\ t[0] \in Caches /\ t[1] \in Caches /\ Follows(queue[1], t[0], t[1])
         /\ \E u \in Traces(queue') : u[0] = t[1] /\ u[Len(queue')] = t[Len(queue)]
<1>1. /\ Len(queue) \in Nat \ {0} /\ Len(queue') = Len(queue) - 1
      /\ \A n \in 1..Len(queue') : queue'[n] = queue[n + 1]
  BY Taking
<1>2. t \in [0..Len(queue) -> Caches] /\ \A n \in 1..Len(queue) : Follows(queue[n], t[n - 1], t[n])
  BY DEF Traces
<1>3. t[0] \in Caches /\ t[1] \in Caches BY <1>1, <1>2
<1>4. Follows(queue[1], t[0], t[1])
  <2>1. 1 \in 1..Len(queue) /\ 1 - 1 = 0 BY <1>1
  <2>2. Follows(queue[1], t[1 - 1], t[1]) BY <1>2, <2>1
  <2> QED BY <2>1, <2>2
<1> DEFINE u == [n \in 0..Len(queue') |-> t[n + 1]]
<1>5. u \in [0..Len(queue') -> Caches] BY <1>1, <1>2
<1>6. ASSUME NEW n \in 1..Len(queue') PROVE Follows(queue'[n], u[n - 1], u[n])
  <2>1. queue'[n] = queue[n + 1] /\ u[n] = t[n + 1] /\ u[n - 1] = t[n] BY <1>1
  <2>2. n + 1 \in 1..Len(queue) /\ (n + 1) - 1 = n BY <1>1
  <2>3. Follows(queue[n + 1], t[(n + 1) - 1], t[n + 1]) BY <1>2, <2>2
  <2> HIDE DEF u
  <2> QED BY <2>1, <2>2, <2>3
<1>7. u[0] = t[1] /\ u[Len(queue')] = t[Len(queue)] BY <1>1
<1>8. u \in Traces(queue')
  <2> HIDE DEF u
  <2> QED BY <1>5, <1>6 DEF Traces
<1> HIDE DEF u
<1> QED BY <1>3, <1>4, <1>7, <1>8

-----------------------------------------------------------------------------
(* The coordinator's steps keep the trace.                                  *)

\* The last cache of a trace, and the first.
LEMMA Ends ==
  ASSUME TypeOK, NEW t \in Traces(queue)
  PROVE  t[0] \in Caches /\ t[Len(queue)] \in Caches
<1>1. Len(queue) \in Nat BY DEF TypeOK
<1>2. t \in [0..Len(queue) -> Caches] BY DEF Traces
<1> QED BY <1>1, <1>2

\* A message extends the trace, if what it makes of the last cache is what the
\* coordinator has in mind.
LEMMA Extends ==
  ASSUME TypeOK, Shapes, NEW t \in Traces(queue), Present(t[0]),
         NEW m \in Messages, m.type = "update" => Len(m.objects) <= 2, Sends(m),
         NEW c \in Caches, Follows(m, t[Len(queue)], c), Final(c)',
         UNCHANGED <<items, account, work, todo, debt>>
  PROVE  Replay'
<1>1. PICK u \in Traces(queue') : u[0] = t[0] /\ u[Len(queue')] = c BY TraceGrows
<1>2. Present(u[0])' BY <1>1 DEF Present, Begun, Loaded
<1> QED BY <1>1, <1>2 DEF Replay

\* A subscription that the coordinator dropped unseen leaves a debt, which the
\* Welcomes on their way do not pay.
LEMMA LapseReplays ==
  ASSUME TypeOK, Shapes, GCLapse
  PROVE  Replay'
<1> DEFINE W(n) == {k \in (n + 1)..Len(queue) : queue[k].type = "welcome"}
           t == [n \in 0..Len(queue) |-> Forgotten(1 + Cardinality(W(n)))]
<1>1. queue \in Seq(Messages) /\ Len(queue) \in Nat /\ DOMAIN queue = 1..Len(queue)
  BY DEF TypeOK
<1>2. ASSUME NEW n \in 0..Len(queue)
      PROVE  IsFiniteSet(W(n)) /\ Cardinality(W(n)) \in Nat
  <2>1. IsFiniteSet((n + 1)..Len(queue)) BY <1>1, FS_Interval
  <2>2. IsFiniteSet(W(n)) BY <2>1, FS_Subset
  <2> QED BY <2>2, FS_CardinalityType
<1>3. ASSUME NEW k \in Nat PROVE Forgotten(k) \in Caches /\ Forgotten(k).debt = k
  BY BoundsAssumption DEF Forgotten, Caches, Empty, Backpacks
<1>4. ASSUME NEW n \in 0..Len(queue) PROVE t[n] \in Caches /\ t[n].debt = 1 + Cardinality(W(n))
  <2> HIDE DEF W
  <2> QED BY <1>2, <1>3
<1>5. ASSUME NEW n \in 1..Len(queue) PROVE Follows(queue[n], t[n - 1], t[n])
  <2>1. n - 1 \in 0..Len(queue) /\ n \in 0..Len(queue) /\ (n - 1) + 1 = n BY <1>1
  <2>2. CASE queue[n].type = "welcome"
    <3>1. W(n - 1) = W(n) \cup {n} /\ n \notin W(n) BY <1>1, <2>1, <2>2
    <3>2. Cardinality(W(n - 1)) = Cardinality(W(n)) + 1
      <4> HIDE DEF W
      <4> QED BY <1>2, <2>1, <3>1, FS_AddElement
    <3>3. t[n - 1].debt # 0 /\ t[n - 1].debt - 1 = 1 + Cardinality(W(n))
      <4> HIDE DEF W, t
      <4> QED BY <1>2, <1>4, <2>1, <3>2
    <3>4. t[n] = Forgotten(1 + Cardinality(W(n))) BY <2>1
    <3> HIDE DEF W, t
    <3> QED BY <2>2, <3>3, <3>4 DEF Follows
  <2>3. CASE queue[n].type # "welcome"
    <3>1. W(n - 1) = W(n) BY <1>1, <2>1, <2>3
    <3>2. t[n - 1] = Forgotten(1 + Cardinality(W(n - 1))) /\ t[n] = Forgotten(1 + Cardinality(W(n)))
      BY <2>1
    <3>3. t[n - 1] = t[n] /\ t[n - 1].debt # 0
      <4> HIDE DEF W, t
      <4> QED BY <1>2, <1>4, <2>1, <3>1, <3>2
    <3> HIDE DEF W, t
    <3> QED BY <2>3, <3>3 DEF Follows
  <2> QED BY <2>2, <2>3
<1>6. t \in Traces(queue)
  <2>1. t \in [0..Len(queue) -> Caches] BY <1>4
  <2> HIDE DEF t
  <2> QED BY <1>5, <2>1 DEF Traces
<1>7. queue' = queue /\ debt' = 1 + Cardinality({n \in DOMAIN queue : queue[n].type = "welcome"})
  BY DEF GCLapse
<1>8. W(0) = {n \in DOMAIN queue : queue[n].type = "welcome"} BY <1>1
<1>9. t[0].debt = debt' /\ debt' # 0 /\ debt' \in Nat
  <2>1. 0 \in 0..Len(queue) BY <1>1
  <2>2. t[0].debt = 1 + Cardinality(W(0)) /\ Cardinality(W(0)) \in Nat BY <1>2, <1>4, <2>1
  <2> HIDE DEF W, t
  <2> QED BY <1>7, <1>8, <2>2
<1>10. t[Len(queue)].debt # 0
  <2>1. Len(queue) \in 0..Len(queue) BY <1>1
  <2>2. /\ t[Len(queue)].debt = 1 + Cardinality(W(Len(queue)))
        /\ Cardinality(W(Len(queue))) \in Nat
    BY <1>2, <1>4, <2>1
  <2> HIDE DEF W, t
  <2> QED BY <2>2
<1> HIDE DEF W, t
<1>11. PICK u \in Traces(queue) : u[0].debt = debt' /\ u[Len(queue)].debt # 0
  BY <1>6, <1>9, <1>10
<1>12. Present(u[0])' BY <1>9, <1>11 DEF Present
<1>13. Final(u[Len(queue)])' BY <1>7, <1>11 DEF Final
<1>14. u \in Traces(queue') BY <1>7, <1>11
<1> QED BY <1>12, <1>13, <1>14 DEF Replay

\* Whatever the coordinator does to its inventory, the messages on their way
\* lead to it.
LEMMA CoordinatorReplays ==
  ASSUME TypeOK, Shapes, Replay, Coordinates
  PROVE  Replay'
<1> USE DEF coordinator, cache, handler
<1>0. MaxVersion \in Nat \ {0} /\ Empty \in Backpacks /\ inv \in Backpacks
  BY BoundsAssumption DEF TypeOK, Backpacks, Empty
<1>1. PICK t \in Traces(queue) : Present(t[0]) /\ Final(t[Len(queue)]) BY DEF Replay
<1>a. PICK a \in Caches : a = t[Len(queue)] BY Ends
<1>2. t[0] \in Caches /\ a \in Caches BY Ends
<1>3. a.items \in Backpacks /\ a.loaded \in BOOLEAN /\ a.debt \in Nat BY <1>2 DEF Caches
<1>4. ASSUME NEW k \in Nat PROVE Forgotten(k) \in Caches /\ Forgotten(k).debt = k
  BY <1>0 DEF Forgotten, Caches
<1>5. ASSUME NEW p \in Backpacks, NEW b \in BOOLEAN
      PROVE  [items |-> p, loaded |-> b, debt |-> 0] \in Caches
  BY DEF Caches
<1>6. ASSUME NEW l \in {"welcome", "goodbye", "check", "account"} PROVE [type |-> l] \in Messages
  BY DEF Messages
<1>7. Final(a) BY <1>1, <1>a
<1>8. ASSUME NEW m \in Messages, m.type = "update" => Len(m.objects) <= 2, Sends(m),
             NEW c \in Caches, Follows(m, a, c), Final(c)',
             UNCHANGED <<items, account, work, todo, debt>>
      PROVE  Replay'
  BY <1>1, <1>a, <1>8, Extends
<1>9. CASE GCWelcome
  <2> DEFINE m == [type |-> "welcome"]
  <2>1. PICK k \in Nat : k = IF a.debt = 0 THEN 0 ELSE a.debt - 1 BY <1>3
  <2>2. Follows(m, a, Forgotten(k)) BY <2>1 DEF Follows
  <2>3. gc' = "up" /\ Sends(m) /\ UNCHANGED <<items, account, work, todo, debt>>
    BY <1>9 DEF GCWelcome
  <2>4. Final(Forgotten(k))' BY <2>3 DEF Final, Forgotten
  <2>5. m \in Messages /\ m.type # "update" BY <1>6
  <2> HIDE DEF m
  <2> QED BY <1>4, <1>8, <2>2, <2>3, <2>4, <2>5
<1>10. CASE GCGoodbye
  <2> DEFINE m == [type |-> "goodbye"]
  <2>1. PICK c \in Caches : c = IF a.debt = 0 THEN Forgotten(0) ELSE a BY <1>2, <1>4
  <2>2. Follows(m, a, c) BY <2>1 DEF Follows
  <2>3. gc' = "down" /\ Sends(m) /\ UNCHANGED <<items, account, work, todo, debt>>
    BY <1>10 DEF GCGoodbye
  <2>4. Final(c)' BY <2>1, <2>3 DEF Final, Forgotten
  <2>5. m \in Messages /\ m.type # "update" BY <1>6
  <2> HIDE DEF m
  <2> QED BY <1>8, <2>2, <2>3, <2>4, <2>5
<1>11. CASE GCCheck
  <2> DEFINE m == [type |-> "check"]
  <2>1. Follows(m, a, a) BY DEF Follows
  <2>2. UNCHANGED <<gc, inv>> /\ Sends(m) /\ UNCHANGED <<items, account, work, todo, debt>>
    BY <1>11 DEF GCCheck
  <2>3. Final(a)' BY <1>7, <2>2 DEF Final
  <2>4. m \in Messages /\ m.type # "update" BY <1>6
  <2> HIDE DEF m
  <2> QED BY <1>2, <1>8, <2>1, <2>2, <2>3, <2>4
<1>12. CASE GCAccount
  <2> DEFINE m == [type |-> "account"]
  <2>1. PICK c \in Caches :
          c = IF a.debt = 0 THEN [items |-> a.items, loaded |-> TRUE, debt |-> 0] ELSE a
    BY <1>2, <1>3, <1>5
  <2>2. Follows(m, a, c) BY <2>1 DEF Follows
  <2>3. /\ gc = "subscribed" /\ UNCHANGED <<gc, inv>> /\ Sends(m)
        /\ UNCHANGED <<items, account, work, todo, debt>>
    BY <1>12 DEF GCAccount
  <2>4. Final(c)' BY <1>7, <2>1, <2>3 DEF Final
  <2>5. m \in Messages /\ m.type # "update" BY <1>6
  <2> HIDE DEF m
  <2> QED BY <1>8, <2>2, <2>3, <2>4, <2>5
<1>13. CASE GCSubscribe
  <2> DEFINE m == [type |-> "subscribed", snapshot |-> inv]
  <2>1. Sends(m) BY <1>13 DEF GCSubscribe
  <2>2. PICK c \in Caches :
          c = IF a.debt # 0 THEN a ELSE [items |-> inv, loaded |-> TRUE, debt |-> 0]
    BY <1>0, <1>2, <1>5
  <2>3. gc' = "subscribed" /\ UNCHANGED <<inv, items, account, work, todo, debt>>
    BY <1>13 DEF GCSubscribe
  <2>4. a.debt = 0 => \A i \in Ids : inv[i] = 0 => a.items[i] = 0
    BY <1>7 DEF Final, Empty
  <2>5. Follows(m, a, c) BY <2>2, <2>4 DEF Follows
  <2>6. Final(c)' BY <2>2, <2>3 DEF Final
  <2>7. m \in Messages /\ m.type # "update" BY <1>0 DEF Messages
  <2> HIDE DEF m
  <2> QED BY <1>8, <2>1, <2>3, <2>5, <2>6, <2>7
<1>14. CASE GCLapse BY <1>14, LapseReplays
<1>15. ASSUME UNCHANGED <<queue, gc, items, account, work, todo, debt>>, gc # "subscribed"
       PROVE  Replay'
  <2>1. Present(t[0])' BY <1>1, <1>15 DEF Present, Begun, Loaded
  <2>2. Final(t[Len(queue)])' BY <1>1, <1>15 DEF Final
  <2> QED BY <1>15, <2>1, <2>2 DEF Replay
<1>16. ASSUME NEW i \in Ids, NEW v \in 0..MaxVersion, GCEdits(i, v)
       PROVE  Replay'
  <2>1. /\ inv[i] # v /\ inv' = [inv EXCEPT ![i] = v]
        /\ UNCHANGED <<gc, items, account, work, todo, debt>>
        /\ gc = "subscribed" => Sends(Change(i, v))
        /\ gc # "subscribed" => UNCHANGED queue
    BY <1>16 DEF GCEdits
  <2>2. inv' \in Backpacks BY <1>0, <2>1 DEF Backpacks
  <2>3. CASE gc # "subscribed" BY <1>15, <2>1, <2>3
  <2>4. CASE gc = "subscribed"
    <3> DEFINE m == Change(i, v)
    <3>1. m \in Messages /\ (m.type = "update" => Len(m.objects) <= 2) /\ Sends(m)
      BY <2>1, <2>4, ChangeMessage
    <3>2. PICK c \in Caches :
            c = IF a.debt = 0 THEN [items |-> inv', loaded |-> TRUE, debt |-> 0] ELSE a
      BY <1>2, <1>5, <2>2
    <3>3. Final(c)' BY <2>1, <2>4, <3>2 DEF Final
    <3>4. ASSUME a.debt # 0 PROVE Follows(m, a, c)
      <4>1. m.type # "welcome" BY <2>1, ChangeMessage
      <4> QED BY <3>2, <3>4, <4>1 DEF Follows
    <3>5. ASSUME a.debt = 0 PROVE Follows(m, a, c)
      <4>1. a.items = inv /\ a.loaded BY <1>7, <2>4, <3>5 DEF Final
      <4>2. c = [items |-> inv', loaded |-> TRUE, debt |-> 0] BY <3>2, <3>5
      <4>3. CASE inv[i] = 0
        <5>1. m = [type |-> "create", object |-> <<i, v>>] BY <2>1, <4>3, ChangeMessage
        <5>2. Put(inv, <<i, v>>) = inv' BY <2>1 DEF Put
        <5> HIDE DEF m
        <5> QED BY <3>5, <4>1, <4>2, <5>1, <5>2 DEF Follows
      <4>4. CASE inv[i] # 0 /\ v = 0
        <5>1. m = [type |-> "destroy", id |-> i] BY <2>1, <4>4, ChangeMessage
        <5> HIDE DEF m
        <5> QED BY <2>1, <3>5, <4>1, <4>2, <4>4, <5>1 DEF Follows
      <4>5. CASE inv[i] # 0 /\ v # 0
        <5>1. m = [type |-> "update", objects |-> <<<<i, v>>>>] BY <2>1, <4>5, ChangeMessage
        <5>2. PutAll(inv, <<<<i, v>>>>) = inv' BY <2>1 DEF PutAll, Put
        <5> HIDE DEF m
        <5> QED BY <3>5, <4>1, <4>2, <5>1, <5>2 DEF Follows
      <4> QED BY <4>3, <4>4, <4>5
    <3>6. Follows(m, a, c) BY <3>4, <3>5
    <3> HIDE DEF m
    <3> QED BY <1>8, <2>1, <3>1, <3>3, <3>6
  <2> QED BY <2>3, <2>4
<1>17. ASSUME NEW i \in Ids, NEW j \in Ids, NEW v \in 1..MaxVersion, GCEditsTwo(i, j, v)
       PROVE  Replay'
  <2> DEFINE m == [type |-> "update", objects |-> <<<<i, v>>, <<j, v>>>>]
  <2>1. /\ inv' = [inv EXCEPT ![i] = v, ![j] = v]
        /\ UNCHANGED <<gc, items, account, work, todo, debt>>
        /\ gc = "subscribed" => Sends(m)
        /\ gc # "subscribed" => UNCHANGED queue
    BY <1>17 DEF GCEditsTwo
  <2>2. inv' \in Backpacks
    <3>1. [inv EXCEPT ![i] = v] \in Backpacks BY <1>0 DEF Backpacks
    <3> QED BY <1>0, <2>1, <3>1 DEF Backpacks
  <2>3. CASE gc # "subscribed" BY <1>15, <2>1, <2>3
  <2>4. CASE gc = "subscribed"
    <3>1. m \in Messages /\ Len(m.objects) <= 2 /\ Sends(m) BY <2>1, <2>4, PairMessage
    <3>2. PICK c \in Caches :
            c = IF a.debt = 0 THEN [items |-> inv', loaded |-> TRUE, debt |-> 0] ELSE a
      BY <1>2, <1>5, <2>2
    <3>3. Final(c)' BY <2>1, <2>4, <3>2 DEF Final
    <3>4. a.debt # 0 => Follows(m, a, c) BY <3>2 DEF Follows
    <3>5. ASSUME a.debt = 0 PROVE Follows(m, a, c)
      <4>1. a.items = inv /\ a.loaded BY <1>7, <2>4, <3>5 DEF Final
      <4>2. c = [items |-> inv', loaded |-> TRUE, debt |-> 0] BY <3>2, <3>5
      <4>3. PutAll(inv, <<<<i, v>>, <<j, v>>>>) = inv'
        <5>1. PutAll(inv, <<<<i, v>>, <<j, v>>>>) = Put(Put(inv, <<i, v>>), <<j, v>>)
          BY DEF PutAll
        <5>2. Put(Put(inv, <<i, v>>), <<j, v>>) = inv' BY <2>1 DEF Put
        <5> QED BY <5>1, <5>2
      <4> QED BY <3>5, <4>1, <4>2, <4>3 DEF Follows
    <3>6. Follows(m, a, c) BY <3>4, <3>5
    <3> HIDE DEF m
    <3> QED BY <1>8, <2>1, <3>1, <3>3, <3>6
  <2> QED BY <2>3, <2>4
<1> QED
  BY <1>9, <1>10, <1>11, <1>12, <1>13, <1>14, <1>16, <1>17 DEF Coordinates

-----------------------------------------------------------------------------
(* The handlers follow the trace.                                           *)

\* Between two messages nothing is begun.
LEMMA Resting ==
  ASSUME work = <<>>, todo = <<>>
  PROVE  Begun = items /\ PutAll(Begun, todo) = items /\ (Loaded <=> account)
<1>1. <<>> \notin Writes /\ <<>> # <<"account">> BY Jobs
<1> QED BY <1>1 DEF Begun, PutAll, Loaded

\* While no debt is open, the cache at rest is the first of the trace.
LEMMA AtRest ==
  ASSUME NEW a \in Caches, Present(a), work = <<>>, todo = <<>>
  PROVE  /\ a.debt \in Nat /\ a.items \in Backpacks /\ a.loaded \in BOOLEAN
         /\ a.debt <= debt
         /\ debt = 0 => a.debt = 0 /\ a.items = items /\ (a.loaded => account)
<1>1. a.debt \in Nat /\ a.items \in Backpacks /\ a.loaded \in BOOLEAN BY DEF Caches
<1>2. a.debt <= debt BY DEF Present
<1>3. ASSUME debt = 0 PROVE a.debt = 0 BY <1>1, <1>2, <1>3
<1> QED BY <1>1, <1>2, <1>3, Resting DEF Present

\* A subscription lists what the cache has, so that it becomes what it lists.
LEMMA SubscribedMeets ==
  ASSUME TypeOK, Shapes, Replay, HandleSubscribed, debt = 0
  PROVE  items' = Head(queue).snapshot
<1>1. PICK t \in Traces(queue) : Present(t[0]) BY DEF Replay
<1>2. Takes("subscribed") /\ items' = Merged(Head(queue).snapshot)
  BY DEF HandleSubscribed
<1>3. /\ Head(queue) = queue[1] /\ queue[1] \in Messages /\ queue[1].type = "subscribed"
      /\ work = <<>> /\ todo = <<>>
  BY <1>2, Taking
<1>4. t[0] \in Caches /\ t[1] \in Caches /\ Follows(queue[1], t[0], t[1]) BY <1>2, TraceShrinks
<1>5. t[0].debt = 0 /\ t[0].items = items BY <1>1, <1>3, <1>4, AtRest
<1>6. \A i \in Ids : queue[1].snapshot[i] = 0 => items[i] = 0
  BY <1>2, <1>3, <1>4, <1>5 DEF Follows
<1>7. queue[1].snapshot \in Backpacks BY <1>3, MessageFields
<1> QED BY <1>2, <1>3, <1>6, <1>7 DEF Merged, Backpacks

\* The handling of a message follows the trace, if it makes of the cache what
\* the trace says of that message.
LEMMA Handled ==
  ASSUME TypeOK, Shapes, Replay, NEW type, Takes(type), UNCHANGED <<inv, gc>>,
         \A a, b \in Caches : Present(a) /\ Follows(queue[1], a, b) => Present(b)'
  PROVE  Replay'
<1>1. PICK t \in Traces(queue) : Present(t[0]) /\ Final(t[Len(queue)]) BY DEF Replay
<1>2. t[0] \in Caches /\ t[1] \in Caches /\ Follows(queue[1], t[0], t[1]) BY TraceShrinks
<1>3. PICK u \in Traces(queue') : u[0] = t[1] /\ u[Len(queue')] = t[Len(queue)] BY TraceShrinks
<1>4. Present(u[0])' BY <1>1, <1>2, <1>3
<1>5. PICK e : e = t[Len(queue)] OBVIOUS
<1>6. Final(e)' BY <1>1, <1>5 DEF Final
<1> QED BY <1>3, <1>4, <1>5, <1>6 DEF Replay

\* A step that is not the start of a message's handling leaves the trace.
LEMMA Underway ==
  ASSUME TypeOK, Replay, UNCHANGED <<inv, gc, queue>>,
         \A a \in Caches : Present(a) => Present(a)'
  PROVE  Replay'
<1>1. PICK t \in Traces(queue) : Present(t[0]) /\ Final(t[Len(queue)]) BY DEF Replay
<1>2. t[0] \in Caches BY Ends
<1>3. Present(t[0])' BY <1>1, <1>2
<1>4. PICK e : e = t[Len(queue)] OBVIOUS
<1>5. Final(e)' BY <1>1, <1>4 DEF Final
<1> QED BY <1>3, <1>4, <1>5 DEF Replay

\* Putting the objects one by one, or all at once.
LEMMA PutNext ==
  ASSUME NEW os \in Seq(Objects), os # <<>>, Len(os) <= 2, NEW p
  PROVE  PutAll(Put(p, Head(os)), Tail(os)) = PutAll(p, os)
<1>0. Len(os) \in Nat /\ Len(os) # 0 BY EmptySeq
<1>1. PICK n \in Nat : n = Len(os) /\ n <= 2 /\ n # 0 BY <1>0
<1>2. n \in {1, 2} BY <1>1
<1>3. Head(os) = os[1] /\ Tail(os) \in Seq(Objects) /\ Len(Tail(os)) = n - 1
  BY <1>0, <1>1
<1>4. CASE n = 1
  <2>1. Len(Tail(os)) = 0 BY <1>3, <1>4
  <2>2. Tail(os) = <<>> BY <1>3, <2>1, EmptySeq
  <2> QED BY <1>1, <1>3, <1>4, <2>2 DEF PutAll
<1>5. CASE n = 2
  <2>1. Len(Tail(os)) = 1 /\ Tail(os)[1] = os[2] BY <1>1, <1>3, <1>5
  <2>2. PICK r \in Seq(Objects) : r = Tail(os) BY <1>3
  <2>3. Len(r) = 1 /\ r[1] = os[2] BY <2>1, <2>2
  <2>4. r # <<>>
    <3>1. ASSUME r = <<>> PROVE Len(r) = 0 BY <3>1
    <3> QED BY <2>3, <3>1
  <2>5. PutAll(Put(p, os[1]), r) = Put(Put(p, os[1]), os[2]) BY <2>3, <2>4 DEF PutAll
  <2>6. PutAll(p, os) = Put(Put(p, os[1]), os[2]) BY <1>1, <1>5 DEF PutAll
  <2> QED BY <1>3, <2>2, <2>5, <2>6
<1> QED BY <1>2, <1>4, <1>5

\* A message that is dropped, whole or in part, need not follow the trace: the
\* debt it leaves is paid by a Welcome, with which the trace starts afresh.
LEMMA FaultyMessage ==
  ASSUME TypeOK, Shapes, Replay, NEW type, type # "welcome", Takes(type), Faults,
         UNCHANGED <<inv, gc>>
  PROVE  Replay'
<1>1. queue[1].type = type /\ queue[1] \in Messages BY Taking
<1>2. debt' # 0 /\ debt <= debt' /\ debt \in Nat /\ debt' \in Nat BY FaultOwes
<1>3. ASSUME NEW a \in Caches, NEW b \in Caches, Present(a), Follows(queue[1], a, b)
      PROVE  Present(b)'
  <2>1. a.debt \in Nat /\ a.debt <= debt BY <1>3 DEF Caches, Present
  <2>2. CASE a.debt = 0
    <3>1. b.debt = 0 \/ b = a
      <4>1. queue[1].type \in {"goodbye", "check", "account", "subscribed", "create", "destroy",
                               "update"}
        BY <1>1, MessageFields
      <4> QED BY <1>3, <2>2, <4>1 DEF Follows, Forgotten
    <3>2. b.debt <= debt' BY <1>2, <2>2, <3>1
    <3> QED BY <1>2, <3>2 DEF Present
  <2>3. CASE a.debt # 0
    <3>1. b = a BY <1>1, <1>3, <2>3 DEF Follows
    <3>2. b.debt <= debt' BY <1>2, <2>1, <3>1
    <3> QED BY <1>2, <3>2 DEF Present
  <2> QED BY <2>2, <2>3
<1> QED BY <1>3, Handled

\* Nor need a handler that fails halfway, or a Disconnect.
LEMMA FaultMidway ==
  ASSUME TypeOK, Replay, Faults, UNCHANGED <<inv, gc, queue>>
  PROVE  Replay'
<1>1. debt' # 0 /\ debt <= debt' /\ debt \in Nat /\ debt' \in Nat BY FaultOwes
<1>2. ASSUME NEW a \in Caches, Present(a) PROVE Present(a)'
  <2>1. a.debt \in Nat /\ a.debt <= debt BY <1>2 DEF Caches, Present
  <2>2. a.debt <= debt' BY <1>1, <2>1
  <2> QED BY <1>1, <2>2 DEF Present
<1> QED BY <1>2, Underway

\* Every handler does to the cache what the trace says.
LEMMA HandlerReplays ==
  ASSUME SendsAccount, TypeOK, Shapes, Replay, Ready, Handles
  PROVE  Replay'
<1> USE DEF coordinator, cache, handler
<1>0. debt \in Nat BY DEF TypeOK
<1>1. CASE HandleWelcome
  <2>1. /\ Takes("welcome") /\ items' = Empty /\ UNCHANGED <<inv, gc, work, todo>>
        /\ debt' = IF debt = 0 THEN 0 ELSE debt - 1
    BY <1>1 DEF HandleWelcome, Reset, ResetItems
  <2>2. work = <<>> /\ todo = <<>> /\ queue[1].type = "welcome" BY <2>1, Taking
  <2>3. (PutAll(Begun, todo) = items)' BY <2>1, <2>2, Jobs DEF Begun, PutAll
  <2>4. ASSUME NEW a \in Caches, NEW b \in Caches, Present(a), Follows(queue[1], a, b)
        PROVE  Present(b)'
    <3>1. a.debt \in Nat /\ a.debt <= debt BY <2>2, <2>4, AtRest
    <3>2. b = Forgotten(IF a.debt = 0 THEN 0 ELSE a.debt - 1) BY <2>2, <2>4 DEF Follows
    <3>3. /\ b.items = Empty /\ b.loaded = FALSE
          /\ b.debt = IF a.debt = 0 THEN 0 ELSE a.debt - 1
      BY <3>2 DEF Forgotten
    <3>4. b.debt <= debt' BY <1>0, <2>1, <3>1, <3>3
    <3> QED BY <2>1, <2>3, <3>3, <3>4 DEF Present
  <2> QED BY <2>1, <2>4, Handled
<1>2. CASE HandleGoodbye
  <2>1. /\ Takes("goodbye") /\ items' = Empty /\ UNCHANGED <<inv, gc, work, todo, debt>>
    BY <1>2 DEF HandleGoodbye, Reset, ResetItems
  <2>2. work = <<>> /\ todo = <<>> /\ queue[1].type = "goodbye" BY <2>1, Taking
  <2>3. (PutAll(Begun, todo) = items)' BY <2>1, <2>2, Jobs DEF Begun, PutAll
  <2>4. ASSUME NEW a \in Caches, NEW b \in Caches, Present(a), Follows(queue[1], a, b)
        PROVE  Present(b)'
    <3>1. a.debt \in Nat /\ a.debt <= debt /\ (debt = 0 => a.debt = 0) BY <2>2, <2>4, AtRest
    <3>2. CASE a.debt = 0
      <4>1. b = Forgotten(0) BY <2>2, <2>4, <3>2 DEF Follows
      <4>2. b.items = Empty /\ b.loaded = FALSE /\ b.debt = 0 BY <4>1 DEF Forgotten
      <4> QED BY <1>0, <2>1, <2>3, <4>2 DEF Present
    <3>3. CASE a.debt # 0
      <4>1. b = a BY <2>2, <2>4, <3>3 DEF Follows
      <4> QED BY <2>1, <3>1, <3>3, <4>1 DEF Present
    <3> QED BY <3>2, <3>3
  <2> QED BY <2>1, <2>4, Handled
<1>3. CASE HandleCheck
  <2>1. Takes("check") /\ UNCHANGED <<inv, gc, items, account, work, todo, debt>>
    BY <1>3 DEF HandleCheck
  <2>2. queue[1].type = "check" BY <2>1, Taking
  <2>3. ASSUME NEW a \in Caches, NEW b \in Caches, Present(a), Follows(queue[1], a, b)
        PROVE  Present(b)'
    <3>1. b = a BY <2>2, <2>3 DEF Follows
    <3> QED BY <2>1, <2>3, <3>1 DEF Present, Begun, Loaded
  <2> QED BY <2>1, <2>3, Handled
<1>4. CASE HandleSubscribed
  <2>1. /\ Takes("subscribed") /\ work' = <<"account">>
        /\ UNCHANGED <<inv, gc, account, todo, debt>>
    BY <1>4 DEF HandleSubscribed
  <2>2. work = <<>> /\ todo = <<>> /\ queue[1].type = "subscribed" /\ Head(queue) = queue[1]
    BY <2>1, Taking
  <2>3. debt = 0 => items' = queue[1].snapshot BY <1>4, <2>2, SubscribedMeets
  <2>4. (PutAll(Begun, todo) = items)' /\ Loaded'
    BY <2>1, <2>2, Jobs DEF Begun, PutAll, Loaded
  <2>5. ASSUME NEW a \in Caches, NEW b \in Caches, Present(a), Follows(queue[1], a, b)
        PROVE  Present(b)'
    <3>1. a.debt \in Nat /\ a.debt <= debt /\ (debt = 0 => a.debt = 0) BY <2>2, <2>5, AtRest
    <3>2. CASE a.debt = 0
      <4>1. b = [items |-> queue[1].snapshot, loaded |-> TRUE, debt |-> 0]
        BY <2>2, <2>5, <3>2 DEF Follows
      <4>2. b.items = queue[1].snapshot /\ b.debt = 0 BY <4>1
      <4> QED BY <1>0, <2>1, <2>3, <2>4, <4>2 DEF Present
    <3>3. CASE a.debt # 0
      <4>1. b = a BY <2>2, <2>5, <3>3 DEF Follows
      <4> QED BY <2>1, <3>1, <3>3, <4>1 DEF Present
    <3> QED BY <3>2, <3>3
  <2> QED BY <2>1, <2>5, Handled
<1>5. CASE LoadAccount
  <2>1. /\ work = <<"account">> /\ account' = TRUE /\ work' = <<>>
        /\ UNCHANGED <<inv, gc, queue, items, todo, debt>>
    BY <1>5 DEF LoadAccount
  <2>2. Begun' = Begun /\ Loaded' BY <2>1, Jobs DEF Begun, Loaded
  <2>3. ASSUME NEW a \in Caches, Present(a) PROVE Present(a)'
    BY <2>1, <2>2, <2>3 DEF Present
  <2> QED BY <2>1, <2>3, Underway
<1>6. CASE HandleGarbledSubscribed
  <2>1. Takes("subscribed") /\ UNCHANGED <<inv, gc>> /\ Faults
    BY <1>6 DEF HandleGarbledSubscribed
  <2> QED BY <2>1, FaultyMessage
<1>7. CASE HandleCreate
  <2>1. /\ Takes("create") /\ UNCHANGED <<inv, gc, items, account, todo, debt>>
        /\ work' = IF LooksUnloaded THEN <<>> ELSE <<"create", Head(queue).object>>
    BY <1>7 DEF HandleCreate
  <2>2. /\ work = <<>> /\ todo = <<>> /\ queue[1].type = "create" /\ queue[1] \in Messages
        /\ Head(queue) = queue[1]
    BY <2>1, Taking
  <2>3. queue[1].object \in Objects BY <2>2, MessageFields
  <2>4. ASSUME NEW a \in Caches, NEW b \in Caches, Present(a), Follows(queue[1], a, b)
        PROVE  Present(b)'
    <3>1. /\ a.debt \in Nat /\ a.debt <= debt
          /\ debt = 0 => a.debt = 0 /\ a.items = items /\ (a.loaded => account)
      BY <2>2, <2>4, AtRest
    <3>2. CASE a.debt = 0
      <4>1. a.loaded /\ b = [items |-> Put(a.items, queue[1].object), loaded |-> TRUE, debt |-> 0]
        BY <2>2, <2>4, <3>2 DEF Follows
      <4>2. b.items = Put(a.items, queue[1].object) /\ b.debt = 0 BY <4>1
      <4>3. b.debt <= debt' BY <1>0, <2>1, <4>2
      <4>4. ASSUME debt = 0 PROVE (b.items = PutAll(Begun, todo))' /\ Loaded'
        <5>1. account /\ a.items = items BY <3>1, <4>1, <4>4
        <5>2. work' = <<"create", queue[1].object>> BY <2>1, <2>2, <5>1 DEF LooksUnloaded
        <5>3. work' \in Writes /\ work'[2] = queue[1].object BY <2>3, <5>2 DEF Writes
        <5>4. Begun' = Put(items, queue[1].object) BY <2>1, <5>3 DEF Begun
        <5>5. (PutAll(Begun, todo) = Begun)' BY <2>1, <2>2 DEF PutAll
        <5> QED BY <2>1, <4>2, <5>1, <5>4, <5>5 DEF Loaded
      <4> QED BY <2>1, <4>3, <4>4 DEF Present
    <3>3. CASE a.debt # 0
      <4>1. b = a BY <2>2, <2>4, <3>3 DEF Follows
      <4> QED BY <2>1, <3>1, <3>3, <4>1 DEF Present
    <3> QED BY <3>2, <3>3
  <2> QED BY <2>1, <2>4, Handled
<1>8. CASE HandleUpdate
  <2>1. /\ Takes("update") /\ UNCHANGED <<inv, gc, items, account, work, debt>>
        /\ todo' = Head(queue).objects
    BY <1>8 DEF HandleUpdate
  <2>2. /\ work = <<>> /\ todo = <<>> /\ queue[1].type = "update" /\ Head(queue) = queue[1]
    BY <2>1, Taking
  <2>3. Begun' = items BY <2>1, <2>2, Jobs DEF Begun
  <2>4. ASSUME NEW a \in Caches, NEW b \in Caches, Present(a), Follows(queue[1], a, b)
        PROVE  Present(b)'
    <3>1. /\ a.debt \in Nat /\ a.debt <= debt
          /\ debt = 0 => a.debt = 0 /\ a.items = items /\ (a.loaded => account)
      BY <2>2, <2>4, AtRest
    <3>2. CASE a.debt = 0
      <4>1. /\ a.loaded
            /\ b = [items |-> PutAll(a.items, queue[1].objects), loaded |-> TRUE, debt |-> 0]
        BY <2>2, <2>4, <3>2 DEF Follows
      <4>2. b.items = PutAll(a.items, queue[1].objects) /\ b.debt = 0 BY <4>1
      <4>3. b.debt <= debt' BY <1>0, <2>1, <4>2
      <4>4. ASSUME debt = 0 PROVE (b.items = PutAll(Begun, todo))' /\ Loaded'
        <5>1. account /\ a.items = items BY <3>1, <4>1, <4>4
        <5> QED BY <2>1, <2>2, <2>3, <4>2, <5>1 DEF Loaded
      <4> QED BY <2>1, <4>3, <4>4 DEF Present
    <3>3. CASE a.debt # 0
      <4>1. b = a BY <2>2, <2>4, <3>3 DEF Follows
      <4> QED BY <2>1, <3>1, <3>3, <4>1 DEF Present
    <3> QED BY <3>2, <3>3
  <2> QED BY <2>1, <2>4, Handled
<1>9. CASE UpdateNext
  <2>1. /\ work = <<>> /\ todo # <<>> /\ todo' = Tail(todo)
        /\ work' = IF LooksUnloaded THEN <<>> ELSE <<"update", Head(todo)>>
        /\ UNCHANGED <<inv, gc, queue, items, account, debt>>
    BY <1>9 DEF UpdateNext
  <2>2. todo \in Seq(Objects) /\ Len(todo) <= 2 /\ Head(todo) \in Objects
    BY <2>1 DEF TypeOK, Shapes
  <2>3. ASSUME NEW a \in Caches, Present(a) PROVE Present(a)'
    <3>1. a.debt <= debt' BY <2>1, <2>3 DEF Present
    <3>2. ASSUME debt = 0 PROVE (a.items = PutAll(Begun, todo))' /\ Loaded'
      <4>1. account BY <2>1, <3>2 DEF Ready
      <4>2. work' = <<"update", Head(todo)>> BY <2>1, <4>1 DEF LooksUnloaded
      <4>3. work' \in Writes /\ work'[2] = Head(todo) BY <2>2, <4>2 DEF Writes
      <4>4. Begun' = Put(items, Head(todo)) BY <2>1, <4>3 DEF Begun
      <4>5. Begun = items BY <2>1, Jobs DEF Begun
      <4>6. a.items = PutAll(items, todo) BY <2>3, <3>2, <4>5 DEF Present
      <4>7. PutAll(Put(items, Head(todo)), Tail(todo)) = PutAll(items, todo)
        BY <2>1, <2>2, PutNext
      <4> QED BY <2>1, <4>1, <4>4, <4>6, <4>7 DEF Loaded
    <3> QED BY <2>1, <3>1, <3>2 DEF Present
  <2> QED BY <2>1, <2>3, Underway
<1>10. CASE Insert
  <2>1. /\ work # <<>> /\ work[1] \in {"create", "update"} /\ work' = <<>>
        /\ items' = [items EXCEPT ![work[2][1]] = work[2][2]]
        /\ UNCHANGED <<inv, gc, queue, account, todo, debt>>
    BY <1>10 DEF Insert
  <2>2. work \in Writes
    <3>1. work # <<"account">>
      <4>1. <<"account">>[1] = "account" OBVIOUS
      <4> QED BY <2>1, <4>1
    <3> QED BY <2>1, <3>1 DEF TypeOK, Writes
  <2>3. Begun' = Begun BY <2>1, <2>2, Jobs DEF Begun, Put
  <2>4. Loaded => Loaded' BY <2>1, <2>2, Jobs DEF Loaded
  <2>5. ASSUME NEW a \in Caches, Present(a) PROVE Present(a)'
    BY <2>1, <2>3, <2>4, <2>5 DEF Present
  <2> QED BY <2>1, <2>5, Underway
<1>11. CASE HandleAccount
  <2>1. /\ Takes("account") /\ account' = TRUE /\ UNCHANGED <<inv, gc, items, work, todo, debt>>
    BY <1>11 DEF HandleAccount
  <2>2. work = <<>> /\ todo = <<>> /\ queue[1].type = "account" BY <2>1, Taking
  <2>3. (PutAll(Begun, todo) = items)' /\ Loaded'
    BY <2>1, <2>2, Jobs DEF Begun, PutAll, Loaded
  <2>4. ASSUME NEW a \in Caches, NEW b \in Caches, Present(a), Follows(queue[1], a, b)
        PROVE  Present(b)'
    <3>1. /\ a.debt \in Nat /\ a.debt <= debt
          /\ debt = 0 => a.debt = 0 /\ a.items = items
      BY <2>2, <2>4, AtRest
    <3>2. CASE a.debt = 0
      <4>1. b = [items |-> a.items, loaded |-> TRUE, debt |-> 0] BY <2>2, <2>4, <3>2 DEF Follows
      <4>2. b.items = a.items /\ b.debt = 0 BY <4>1
      <4> QED BY <1>0, <2>1, <2>3, <3>1, <4>2 DEF Present
    <3>3. CASE a.debt # 0
      <4>1. b = a BY <2>2, <2>4, <3>3 DEF Follows
      <4> QED BY <2>1, <3>1, <3>3, <4>1 DEF Present
    <3> QED BY <3>2, <3>3
  <2> QED BY <2>1, <2>4, Handled
<1>12. CASE HandleDestroy
  <2>1. /\ Takes("destroy") /\ items' = [items EXCEPT ![Head(queue).id] = 0]
        /\ UNCHANGED <<inv, gc, account, work, todo, debt>>
    BY <1>12 DEF HandleDestroy
  <2>2. work = <<>> /\ todo = <<>> /\ queue[1].type = "destroy" /\ Head(queue) = queue[1]
    BY <2>1, Taking
  <2>3. (PutAll(Begun, todo) = items)' /\ (account => Loaded')
    BY <2>1, <2>2, Jobs DEF Begun, PutAll, Loaded
  <2>4. ASSUME NEW a \in Caches, NEW b \in Caches, Present(a), Follows(queue[1], a, b)
        PROVE  Present(b)'
    <3>1. /\ a.debt \in Nat /\ a.debt <= debt
          /\ debt = 0 => a.debt = 0 /\ a.items = items /\ (a.loaded => account)
      BY <2>2, <2>4, AtRest
    <3>2. CASE a.debt = 0
      <4>1. b = [items |-> [a.items EXCEPT ![queue[1].id] = 0], loaded |-> a.loaded, debt |-> 0]
        BY <2>2, <2>4, <3>2 DEF Follows
      <4>2. b.items = [a.items EXCEPT ![queue[1].id] = 0] /\ b.loaded = a.loaded /\ b.debt = 0
        BY <4>1
      <4> QED BY <1>0, <2>1, <2>2, <2>3, <3>1, <4>2 DEF Present
    <3>3. CASE a.debt # 0
      <4>1. b = a BY <2>2, <2>4, <3>3 DEF Follows
      <4> QED BY <2>1, <3>1, <3>3, <4>1 DEF Present
    <3> QED BY <3>2, <3>3
  <2> QED BY <2>1, <2>4, Handled
<1>13. CASE Tell
  <2>1. UNCHANGED <<inv, gc, queue, items, account, work, todo, debt>> BY <1>13 DEF Tell
  <2>2. ASSUME NEW a \in Caches, Present(a) PROVE Present(a)'
    BY <2>1, <2>2 DEF Present, Begun, Loaded
  <2> QED BY <2>1, <2>2, Underway
<1>14. CASE HandleUndecodable
  <2>1. PICK type \in {"subscribed", "create", "update", "destroy", "account"} : Takes(type)
    BY <1>14 DEF HandleUndecodable
  <2>2. UNCHANGED <<inv, gc>> /\ Faults BY <1>14 DEF HandleUndecodable
  <2> QED BY <2>1, <2>2, FaultyMessage
<1>15. CASE LoadAccountFails \/ UpdateFails
  <2>1. UNCHANGED <<inv, gc, queue>> /\ Faults BY <1>15 DEF LoadAccountFails, UpdateFails
  <2> QED BY <2>1, FaultMidway
<1> QED
  BY <1>1, <1>2, <1>3, <1>4, <1>5, <1>6, <1>7, <1>8, <1>9, <1>10, <1>11, <1>12, <1>13, <1>14,
     <1>15
  DEF Handles

\* An update never waits for the account.
LEMMA ReadyKept ==
  ASSUME SendsAccount, TypeOK, Shapes, Replay, Ready, Handles
  PROVE  Ready'
<1> USE DEF coordinator, cache, handler
<1>1. ASSUME NEW type, Takes(type), UNCHANGED todo PROVE Ready'
  BY <1>1 DEF Takes, Idle, Ready
<1>2. CASE HandleWelcome BY <1>1, <1>2 DEF HandleWelcome
<1>3. CASE HandleGoodbye BY <1>1, <1>3 DEF HandleGoodbye
<1>4. CASE HandleCheck BY <1>1, <1>4 DEF HandleCheck
<1>5. CASE HandleSubscribed BY <1>1, <1>5 DEF HandleSubscribed
<1>6. CASE HandleGarbledSubscribed \/ HandleUndecodable \/ LoadAccountFails \/ UpdateFails
  BY <1>6, FaultOwes
  DEF HandleGarbledSubscribed, HandleUndecodable, LoadAccountFails, UpdateFails, Ready
<1>7. CASE HandleCreate BY <1>1, <1>7 DEF HandleCreate
<1>8. CASE HandleAccount BY <1>1, <1>8 DEF HandleAccount
<1>9. CASE HandleDestroy BY <1>1, <1>9 DEF HandleDestroy
<1>10. CASE LoadAccount BY <1>10 DEF LoadAccount, Ready
<1>11. CASE Insert \/ Tell BY <1>11 DEF Insert, Tell, Ready
<1>12. CASE UpdateNext BY <1>12 DEF UpdateNext, Ready
<1>13. CASE HandleUpdate
  <2>1. PICK t \in Traces(queue) : Present(t[0]) BY DEF Replay
  <2>2. Takes("update") /\ UNCHANGED <<account, debt>> BY <1>13 DEF HandleUpdate
  <2>3. queue[1].type = "update" /\ work = <<>> /\ todo = <<>> BY <2>2, Taking
  <2>4. t[0] \in Caches /\ Follows(queue[1], t[0], t[1]) BY <2>2, TraceShrinks
  <2>5. ASSUME debt = 0 PROVE account
    <3>1. t[0].debt = 0 /\ (t[0].loaded => account) BY <2>1, <2>3, <2>4, <2>5, AtRest
    <3> QED BY <2>3, <2>4, <3>1 DEF Follows
  <2> QED BY <2>2, <2>5 DEF Ready
<1> QED
  BY <1>2, <1>3, <1>4, <1>5, <1>6, <1>7, <1>8, <1>9, <1>10, <1>11, <1>12, <1>13 DEF Handles

\* What the callbacks tell of is what happens to the cache.
LEMMA ToldKept ==
  ASSUME TypeOK, Shapes, Replay, Told, Handles
  PROVE  Told'
<1> USE DEF coordinator, cache, handler
<1>0. DOMAIN NoNews = {} /\ DOMAIN Empty = Ids BY DEF NoNews, Empty
<1>1. CASE HandleWelcome
  <2>1. items' = Empty /\ tell' = Empty BY <1>1 DEF HandleWelcome, Reset, ResetItems
  <2> QED BY <1>0, <2>1 DEF Told
<1>2. CASE HandleGoodbye
  <2>1. items' = Empty /\ tell' = Empty BY <1>2 DEF HandleGoodbye, Reset, ResetItems
  <2> QED BY <1>0, <2>1 DEF Told
<1>3. ASSUME UNCHANGED <<items, tell, view, debt>> PROVE Told'
  BY <1>3 DEF Told
<1>4. CASE HandleCheck BY <1>3, <1>4 DEF HandleCheck
<1>5. CASE HandleSubscribed
  <2>1. /\ Takes("subscribed") /\ tell' = Head(queue).snapshot
        /\ UNCHANGED debt
    BY <1>5 DEF HandleSubscribed
  <2>2. Head(queue).snapshot \in Backpacks BY <2>1, Taking, MessageFields
  <2>3. debt = 0 => items' = Head(queue).snapshot BY <1>5, SubscribedMeets
  <2> QED BY <2>1, <2>2, <2>3 DEF Told, Backpacks
<1>6. CASE LoadAccount BY <1>3, <1>6 DEF LoadAccount
<1>7. CASE HandleGarbledSubscribed \/ HandleUndecodable \/ LoadAccountFails \/ UpdateFails
  <2>1. debt' # 0
    BY <1>7, FaultOwes
    DEF HandleGarbledSubscribed, HandleUndecodable, LoadAccountFails, UpdateFails
  <2> QED BY <2>1 DEF Told
<1>8. CASE HandleCreate BY <1>3, <1>8 DEF HandleCreate
<1>9. CASE HandleUpdate BY <1>3, <1>9 DEF HandleUpdate
<1>10. CASE UpdateNext BY <1>3, <1>10 DEF UpdateNext
<1>11. CASE Insert
  <2>1. PICK i \in Ids, v \in 1..MaxVersion : work \in Writes /\ work[2][1] = i /\ work[2][2] = v
    <3>1. work # <<>> /\ work[1] \in {"create", "update"} BY <1>11 DEF Insert
    <3>2. work # <<"account">>
      <4>1. <<"account">>[1] = "account" OBVIOUS
      <4> QED BY <3>1, <4>1
    <3>3. work \in Writes BY <3>1, <3>2 DEF TypeOK, Writes
    <3> QED BY <3>3, Jobs DEF Objects
  <2>2. /\ items' = [items EXCEPT ![i] = v] /\ tell' = [j \in {i} |-> v]
        /\ UNCHANGED <<debt, view>>
    BY <1>11, <2>1 DEF Insert
  <2>3. tell = NoNews /\ items \in Backpacks BY <2>1 DEF Shapes, TypeOK
  <2> QED BY <1>0, <2>2, <2>3 DEF Told, Backpacks
<1>12. CASE HandleAccount BY <1>3, <1>12 DEF HandleAccount
<1>13. CASE HandleDestroy
  <2>1. /\ Takes("destroy") /\ Head(queue).id \in Ids
        /\ items' = [items EXCEPT ![Head(queue).id] = 0]
        /\ tell' = Removal(Head(queue).id) /\ tell = NoNews
        /\ UNCHANGED <<debt, view>>
    BY <1>13, Taking, MessageFields DEF HandleDestroy
  <2>2. PICK i \in Ids : i = Head(queue).id BY <2>1
  <2>3. items \in Backpacks BY DEF TypeOK
  <2>4. CASE items[i] = 0
    <3>1. tell' = NoNews /\ items' = items BY <2>1, <2>2, <2>3, <2>4 DEF Removal, Backpacks
    <3> QED BY <1>3, <2>1, <3>1
  <2>5. CASE items[i] # 0
    <3>1. tell' = [j \in {i} |-> 0] BY <2>1, <2>2, <2>5 DEF Removal
    <3> QED BY <1>0, <2>1, <2>2, <2>3, <3>1 DEF Told, Backpacks
  <2> QED BY <2>4, <2>5
<1>14. CASE Tell
  <2>1. /\ view' = [i \in Ids |-> IF i \in DOMAIN tell THEN tell[i] ELSE view[i]]
        /\ tell' = NoNews /\ UNCHANGED <<items, debt>>
    BY <1>14 DEF Tell
  <2> QED BY <1>0, <2>1 DEF Told
<1> QED
  BY <1>1, <1>2, <1>4, <1>5, <1>6, <1>7, <1>8, <1>9, <1>10, <1>11, <1>12, <1>13, <1>14 DEF Handles

\* Every step keeps the inductive invariant.
LEMMA NextInv ==
  ASSUME SendsAccount, Inv, [Next]_vars
  PROVE  Inv'
<1>1. TypeOK' /\ Shapes' BY TypesKept DEF Inv
<1>2. CASE Coordinates
  <2>1. Replay' BY <1>2, CoordinatorReplays DEF Inv
  <2>2. UNCHANGED <<items, account, tell, todo, view>> BY <1>2, CoordinatorTypes DEF Inv
  <2>3. debt' = debt \/ debt' # 0
    <3>1. CASE GCLapse
      <4>1. queue \in Seq(Messages) BY DEF Inv, TypeOK
      <4>2. IsFiniteSet(1..Len(queue)) /\ DOMAIN queue = 1..Len(queue) BY <4>1, FS_Interval
      <4> DEFINE W == {n \in DOMAIN queue : queue[n].type = "welcome"}
      <4>3. IsFiniteSet(W) BY <4>2, FS_Subset
      <4>4. Cardinality(W) \in Nat BY <4>3, FS_CardinalityType
      <4> QED BY <3>1, <4>4 DEF GCLapse
    <3>2. CASE ~GCLapse
      BY <1>2, <3>2 DEF Coordinates, GCWelcome, GCGoodbye, GCCheck, GCSubscribe, GCAccount,
                        GCEdits, GCEditsTwo
    <3> QED BY <3>1, <3>2
  <2>4. Ready' BY <2>2, <2>3 DEF Inv, Ready
  <2>5. Told' BY <2>2, <2>3 DEF Inv, Told
  <2> QED BY <1>1, <2>1, <2>4, <2>5 DEF Inv
<1>3. CASE Handles BY <1>1, <1>3, HandlerReplays, ReadyKept, ToldKept DEF Inv
<1>4. CASE Disconnect
  <2>1. Faults /\ UNCHANGED <<inv, gc, queue>> BY <1>4 DEF Disconnect, coordinator
  <2>2. Replay' /\ debt' # 0 BY <2>1, FaultMidway, FaultOwes DEF Inv
  <2> QED BY <1>1, <2>2 DEF Inv, Ready, Told
<1>5. CASE UNCHANGED vars
  <2>1. Replay'
    <3>1. ASSUME NEW a \in Caches, Present(a) PROVE Present(a)'
      BY <1>5, <3>1 DEF vars, Present, Begun, Loaded
    <3> QED BY <1>5, <3>1, Underway DEF Inv, vars
  <2> QED BY <1>1, <1>5, <2>1 DEF Inv, vars, Ready, Told
<1> QED BY <1>2, <1>3, <1>4, <1>5 DEF Next

\* Before the first Welcome nothing is on its way and the cache is empty.
LEMMA InitInv ==
  Init => Inv
<1> SUFFICES ASSUME Init PROVE Inv
  OBVIOUS
<1>1. TypeOK /\ Shapes BY TypesInit
<1>2. /\ gc = "down" /\ queue = <<>> /\ items = Empty /\ work = <<>> /\ todo = <<>>
      /\ tell = NoNews /\ debt = 0 /\ view = Empty /\ account = FALSE
  BY DEF Init
<1>3. Forgotten(0) \in Caches BY <1>1, <1>2 DEF Forgotten, Caches, TypeOK
<1> DEFINE t == [n \in 0..0 |-> Forgotten(0)]
<1>4. Len(queue) = 0 BY <1>2
<1>5. t \in Traces(queue)
  <2>1. t \in [0..Len(queue) -> Caches] BY <1>3, <1>4
  <2>2. 1..Len(queue) = {} BY <1>4
  <2> HIDE DEF t
  <2> QED BY <2>1, <2>2 DEF Traces
<1>6. t[0] = Forgotten(0) /\ t[Len(queue)] = Forgotten(0) BY <1>4
<1>7. Present(Forgotten(0)) BY <1>2, Resting DEF Present, Forgotten
<1>8. Final(Forgotten(0)) BY <1>2 DEF Final, Forgotten
<1> HIDE DEF t
<1>9. Replay BY <1>5, <1>6, <1>7, <1>8 DEF Replay
<1>10. Ready BY <1>2 DEF Ready
<1>11. Told BY <1>2 DEF Told, NoNews
<1> QED BY <1>1, <1>9, <1>10, <1>11 DEF Inv

-----------------------------------------------------------------------------

\* The variables keep their types, whatever the bounds and the faults.
THEOREM TypeCorrect == Spec => []TypeOK
<1>1. Init => TypeOK /\ Shapes BY TypesInit
<1>2. TypeOK /\ Shapes /\ [Next]_vars => (TypeOK /\ Shapes)' BY TypesKept
<1> QED BY <1>1, <1>2, PTL DEF Spec

\* Every state of a client that is sent the account satisfies the inductive
\* invariant.
THEOREM Invariance == ASSUME SendsAccount PROVE Spec => []Inv
<1>1. Inv /\ [Next]_vars => Inv' BY NextInv
<1> QED BY InitInv, <1>1, PTL DEF Spec

\* Whenever the coordinator counts the client as subscribed and everything it
\* sent has been handled, the cache is its inventory, unless a fault is still
\* waiting for its Welcome.
THEOREM CacheComesToMirror == ASSUME SendsAccount PROVE Spec => []CacheMirrors
<1>1. Inv => CacheMirrors
  <2> SUFFICES ASSUME Inv, Sound, Quiet PROVE items = inv
    BY DEF CacheMirrors
  <2>1. /\ debt = 0 /\ gc = "subscribed" /\ queue = <<>> /\ work = <<>> /\ todo = <<>>
    BY DEF Sound, Quiet, Idle
  <2>2. PICK t \in Traces(queue) : Present(t[0]) /\ Final(t[Len(queue)]) BY DEF Inv, Replay
  <2>3. Len(queue) = 0 BY <2>1
  <2>4. t[0] \in Caches BY <2>2, Ends DEF Inv
  <2>5. t[0].debt = 0 /\ t[0].items = items BY <2>1, <2>2, <2>4, AtRest
  <2> QED BY <2>1, <2>2, <2>3, <2>5 DEF Final
<1> QED BY <1>1, Invariance, PTL

\* An application that applies the callbacks to a backpack of its own has the
\* cache's backpack whenever no callback is due and no fault waits for its
\* Welcome.
THEOREM CallbacksTellAll == ASSUME SendsAccount PROVE Spec => []ViewMatches
<1>1. Inv => ViewMatches
  <2> SUFFICES ASSUME Inv, Sound, tell = NoNews PROVE view = items
    BY DEF ViewMatches
  <2>1. DOMAIN tell = {} BY DEF NoNews
  <2>2. \A i \in Ids : items[i] = view[i] BY <2>1 DEF Inv, Told, Sound
  <2>3. items \in Backpacks /\ view \in Backpacks BY DEF Inv, TypeOK
  <2> QED BY <2>2, <2>3 DEF Backpacks
<1> QED BY <1>1, Invariance, PTL

-----------------------------------------------------------------------------
(* The hello phase.                                                        *)

\* Stop channels are numbered as they are made; loops select on one of them.
StopsMade ==
  /\ helloStop <= made /\ stopped \subseteq 1..made
  /\ \A c \in Callers : stop[c] <= made

\* The channel in helloStop is open.
FieldIsOpen == helloStop \notin stopped

\* No channel is dropped without being closed.
NoneForgotten == \A d \in 1..made : d \in stopped \/ d = helloStop

SessionIInv == SessionTypeOK /\ StopsMade /\ FieldIsOpen /\ NoneForgotten /\ NoDoubleClose

\* The lock region that Welcome and Disconnect share closes the open channel
\* and empties the field; nothing panics and no channel is forgotten.
LEMMA CloseKeeps ==
  ASSUME SessionIInv, CloseHelloStop, UNCHANGED <<made, stop>>
  PROVE  /\ helloStop' = 0 /\ stopped' \subseteq 1..MaxStops
         /\ StopsMade' /\ FieldIsOpen' /\ NoneForgotten' /\ NoDoubleClose'
<1>0. /\ helloStop \in 0..MaxStops /\ made \in 0..MaxStops /\ MaxStops \in Nat
      /\ helloStop <= made /\ stopped \subseteq 1..made /\ helloStop \notin stopped
  BY SessionBounds DEF SessionIInv, SessionTypeOK, StopsMade, FieldIsOpen
<1>1. helloStop' = 0 /\ NoDoubleClose'
  BY <1>0 DEF CloseHelloStop, Cleared, NoDoubleClose
<1>2. stopped' = stopped \cup ({helloStop} \ {0})
  BY DEF CloseHelloStop, Closing
<1>3. stopped' \subseteq 1..made BY <1>0, <1>2
<1>4. stopped' \subseteq 1..MaxStops BY <1>0, <1>3
<1>5. StopsMade' BY <1>0, <1>1, <1>3 DEF SessionIInv, StopsMade
<1>6. FieldIsOpen' BY <1>0, <1>1, <1>3 DEF FieldIsOpen
<1>7. NoneForgotten' BY <1>0, <1>2 DEF SessionIInv, NoneForgotten
<1> QED BY <1>1, <1>4, <1>5, <1>6, <1>7

\* The invariant holds before the first Connect.
LEMMA SessionInitIInv == SessionInit => SessionIInv
<1> SUFFICES ASSUME SessionInit PROVE SessionIInv
  OBVIOUS
<1>1. SessionTypeOK
  <2>1. connected \in BOOLEAN /\ hellos \in BOOLEAN /\ panicked \in BOOLEAN BY DEF SessionInit
  <2>2. pc \in [Callers -> {"idle", "hello", "grab", "accepted", "rejected", "failed"}]
    BY DEF SessionInit
  <2> QED BY <2>1, <2>2, SessionBounds DEF SessionInit, SessionTypeOK
<1>2. StopsMade /\ FieldIsOpen /\ NoneForgotten /\ NoDoubleClose
  BY DEF SessionInit, StopsMade, FieldIsOpen, NoneForgotten, NoDoubleClose
<1> QED BY <1>1, <1>2 DEF SessionIInv

\* Every step keeps it.
LEMMA SessionNextIInv == SessionIInv /\ [SessionNext]_sessionVars => SessionIInv'
<1> SUFFICES ASSUME SessionIInv, [SessionNext]_sessionVars PROVE SessionIInv'
  OBVIOUS
<1>0. SessionTypeOK /\ StopsMade /\ FieldIsOpen /\ NoneForgotten /\ NoDoubleClose
  BY DEF SessionIInv
<1> USE SessionBounds
<1>1. ASSUME NEW c \in Callers, ConnectBegin(c) PROVE SessionIInv'
  <2>1. /\ helloStop = 0 /\ made < MaxStops /\ made' = made + 1 /\ helloStop' = made + 1
        /\ UNCHANGED <<stopped, stop, panicked>>
    BY <1>1 DEF ConnectBegin, AlreadyConnecting
  <2>2. SessionTypeOK' BY <1>0, <1>1, <2>1 DEF SessionTypeOK, ConnectBegin, Goto
  <2>3. made \in Nat /\ stopped \subseteq 1..made /\ \A d \in 1..made : d \in stopped
    BY <1>0, <2>1 DEF SessionTypeOK, StopsMade, NoneForgotten
  <2>4. StopsMade' BY <1>0, <2>1, <2>3 DEF SessionTypeOK, StopsMade
  <2>5. FieldIsOpen' BY <2>1, <2>3 DEF FieldIsOpen
  <2>6. NoneForgotten' BY <2>1, <2>3 DEF NoneForgotten
  <2> QED BY <1>0, <2>1, <2>2, <2>4, <2>5, <2>6 DEF SessionIInv, NoDoubleClose
<1>2. ASSUME NEW c \in Callers, StartLoop(c) PROVE SessionIInv'
  <2>1. stop' = [stop EXCEPT ![c] = helloStop] /\ UNCHANGED <<helloStop, made, stopped, panicked>>
    BY <1>2 DEF StartLoop
  <2>2. SessionTypeOK' BY <1>0, <1>2, <2>1 DEF SessionTypeOK, StartLoop, Goto
  <2>3. StopsMade' BY <1>0, <2>1 DEF SessionTypeOK, StopsMade
  <2> QED
    BY <1>0, <2>1, <2>2, <2>3 DEF SessionIInv, FieldIsOpen, NoneForgotten, NoDoubleClose
<1>3. ASSUME NEW c \in Callers,
             ConnectRejected(c) \/ HelloSent(c) \/ HelloFails(c) \/ Loops(c)
      PROVE SessionIInv'
  <2>1. UNCHANGED <<helloStop, made, stopped, stop, panicked>>
    BY <1>3 DEF ConnectRejected, HelloSent, HelloFails, Loops, LoopStops, LoopResends, LoopFails
  <2>2. SessionTypeOK'
    <3>1. CASE ConnectRejected(c) \/ HelloSent(c) \/ HelloFails(c)
      BY <1>0, <3>1 DEF SessionTypeOK, ConnectRejected, HelloSent, HelloFails, Goto
    <3>2. CASE Loops(c)
      BY <1>0, <3>2 DEF SessionTypeOK, Loops, LoopStops, LoopResends, LoopFails
    <3> QED BY <1>3, <3>1, <3>2
  <2> QED
    BY <1>0, <2>1, <2>2 DEF SessionIInv, StopsMade, FieldIsOpen, NoneForgotten, NoDoubleClose
<1>4. CASE Welcome \/ SessionDisconnect
  <2>1. /\ CloseHelloStop /\ UNCHANGED <<pc, made, stop, running>>
        /\ connected' \in BOOLEAN /\ hellos' \in BOOLEAN
    BY <1>0, <1>4 DEF SessionTypeOK, Welcome, SessionDisconnect
  <2>2. helloStop' = 0 /\ stopped' \subseteq 1..MaxStops
    BY <2>1, CloseKeeps
  <2>3. panicked' \in BOOLEAN BY <2>1 DEF CloseHelloStop
  <2>4. SessionTypeOK' BY <1>0, <2>1, <2>2, <2>3 DEF SessionTypeOK
  <2> QED BY <2>1, <2>4, CloseKeeps DEF SessionIInv
<1>5. CASE Goodbye \/ UNCHANGED sessionVars
  <2>1. UNCHANGED <<pc, helloStop, made, stopped, stop, running, hellos, panicked>>
        /\ connected' \in BOOLEAN
    BY <1>0, <1>5 DEF SessionTypeOK, Goodbye, sessionVars
  <2>2. SessionTypeOK' BY <1>0, <2>1 DEF SessionTypeOK
  <2> QED
    BY <1>0, <2>1, <2>2 DEF SessionIInv, StopsMade, FieldIsOpen, NoneForgotten, NoDoubleClose
<1> QED BY <1>1, <1>2, <1>3, <1>4, <1>5 DEF SessionNext

-----------------------------------------------------------------------------

\* The variables keep their types and the invariant holds, for every number
\* of calls of Connect.
THEOREM SessionInvariance == SessionSpec => []SessionIInv
BY SessionInitIInv, SessionNextIInv, PTL DEF SessionSpec

\* Welcome and Disconnect close the stop channel of the hello phase, in any
\* order and between the steps of any number of Connects, and never twice.
THEOREM NeverClosedTwice == SessionSpec => []NoDoubleClose
<1>1. SessionIInv => NoDoubleClose BY DEF SessionIInv
<1> QED BY <1>1, SessionInvariance, PTL

\* A hello loop that has a stop channel can be stopped: the channel is closed,
\* or the next Welcome or Disconnect closes it.
THEOREM LoopsCanBeStopped == SessionSpec => []LoopStaysReachable
<1>1. SessionIInv => LoopStaysReachable
  <2> SUFFICES ASSUME SessionIInv, NEW c \in running, stop[c] # 0
               PROVE stop[c] \in stopped \/ stop[c] = helloStop
    BY DEF LoopStaysReachable
  <2>1. c \in Callers /\ stop[c] \in 0..MaxStops /\ made \in Nat /\ MaxStops \in Nat
    BY SessionBounds DEF SessionIInv, SessionTypeOK
  <2>2. stop[c] \in 1..made BY <2>1 DEF SessionIInv, StopsMade
  <2> QED BY <2>2 DEF SessionIInv, NoneForgotten
<1> QED BY <1>1, SessionInvariance, PTL
=============================================================================
