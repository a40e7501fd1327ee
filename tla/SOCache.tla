------------------------------- MODULE SOCache -------------------------------
(***************************************************************************)
(* The TF2 backpack cache.  Messages of the Game Coordinator are handled   *)
(* one at a time, in order, by the CM client's read loop; Create and       *)
(* Update look at the cache in one mutex region and write it in another,   *)
(* so a Disconnect of the application may come in between; it may also     *)
(* come between a write and the callback that tells of it.  view is the    *)
(* backpack of an application that follows the callbacks.                  *)
(* Abstraction: an item is its version number, 0 when it is absent; the    *)
(* account is present or not.  The coordinator is external: it sends what  *)
(* the code expects of it.                                                 *)
(***************************************************************************)
EXTENDS Integers, Sequences, FiniteSets

CONSTANTS
  Ids,          \* item IDs
  MaxVersion,   \* bound: versions of an item
  MaxQueue,     \* bound: messages on their way
  MaxEdits,     \* bound: changes of the inventory
  MayDisconnect,\* whether the application calls Disconnect
  MayLapse,     \* whether the coordinator may drop the subscription unseen
  MayGarble,    \* whether a message or an object in it may fail to decode
  SendsAccount  \* whether Subscribed carries the account object

ASSUME BoundsAssumption ==
  /\ MaxVersion \in Nat \ {0} /\ MaxQueue \in Nat \ {0} /\ MaxEdits \in Nat
  /\ {MayDisconnect, MayLapse, MayGarble, SendsAccount} \subseteq BOOLEAN

Backpacks == [Ids -> 0..MaxVersion]
Empty == [i \in Ids |-> 0]

NoNews == [i \in {} |-> 0]

VARIABLES
  inv, edits,   \* the coordinator's inventory, and how often it has changed
  gc,           \* its session with this client: "down", "up" or "subscribed"
  queue,        \* its messages on their way, oldest first
  items, account, \* the cache
  refresh,      \* whether a SubscriptionRefresh is on its way to it
  work,         \* <<>>, or the part of a handler that is still to be done
  tell,         \* the callback still to be made: versions by item, 0 if removed
  todo,         \* updates of the current message still to be applied
  debt,         \* how many more Welcomes must be handled since the last fault
  view          \* the backpack that the callbacks have described

vars == <<inv, edits, gc, queue, refresh, items, account,
          work, tell, todo, debt, view>>

Objects == Ids \X (1..MaxVersion)
Messages ==
  [type : {"welcome", "goodbye", "check", "account"}]
    \cup [type : {"subscribed"}, snapshot : Backpacks]
    \cup [type : {"create"}, object : Objects]
    \cup [type : {"destroy"}, id : Ids]
    \cup [type : {"update"}, objects : Seq(Objects)]

TypeOK ==
  /\ inv \in Backpacks /\ edits \in 0..MaxEdits
  /\ gc \in {"down", "up", "subscribed"}
  /\ queue \in Seq(Messages) /\ Len(queue) <= MaxQueue
  /\ items \in Backpacks /\ view \in Backpacks
  /\ account \in BOOLEAN /\ refresh \in BOOLEAN
  /\ debt \in 0..(MaxQueue + 1)
  /\ work \in {<<>>, <<"account">>} \cup ({"create", "update"} \X Objects)
  /\ DOMAIN tell \subseteq Ids /\ \A i \in DOMAIN tell : tell[i] \in 0..MaxVersion
  /\ todo \in Seq(Objects)

Init ==
  /\ inv \in [Ids -> 0..1] /\ edits = 0 /\ gc = "down" /\ queue = <<>> /\ refresh = FALSE
  /\ items = Empty /\ account = FALSE /\ work = <<>> /\ todo = <<>>
  /\ tell = NoNews /\ debt = 0 /\ view = Empty

coordinator == <<inv, edits, gc>>
cache == <<items, account>>
handler == <<work, tell, todo>>

-----------------------------------------------------------------------------
(* The coordinator.                                                        *)

Sends(m) == Len(queue) < MaxQueue /\ queue' = Append(queue, m)

GCWelcome ==
  /\ gc' = "up"
  /\ Sends([type |-> "welcome"])
  /\ UNCHANGED <<inv, edits, refresh, cache, handler, debt, view>>

GCGoodbye ==
  /\ gc # "down" /\ gc' = "down"
  /\ Sends([type |-> "goodbye"])
  /\ UNCHANGED <<inv, edits, refresh, cache, handler, debt, view>>

GCCheck ==
  /\ gc = "up"
  /\ Sends([type |-> "check"])
  /\ UNCHANGED <<coordinator, refresh, cache, handler, debt, view>>

GCSubscribe ==
  /\ refresh /\ refresh' = FALSE /\ gc # "down" /\ gc' = "subscribed"
  /\ Sends([type |-> "subscribed", snapshot |-> inv])
  /\ UNCHANGED <<inv, edits, cache, handler, debt, view>>

GCLapse ==
  /\ MayLapse /\ gc = "subscribed" /\ gc' = "up"
  /\ debt' = 1 + Cardinality({n \in DOMAIN queue : queue[n].type = "welcome"})
  /\ UNCHANGED <<inv, edits, queue, refresh, cache, handler, view>>

\* An item is made, changed or removed; a subscribed client is told.
Change(i, v) == IF inv[i] = 0 THEN [type |-> "create", object |-> <<i, v>>]
                ELSE IF v = 0 THEN [type |-> "destroy", id |-> i]
                ELSE [type |-> "update", objects |-> <<<<i, v>>>>]

GCEdits(i, v) ==
  /\ inv[i] # v /\ edits < MaxEdits
  /\ edits' = edits + 1
  /\ inv' = [inv EXCEPT ![i] = v]
  /\ IF gc = "subscribed" THEN Sends(Change(i, v)) ELSE UNCHANGED queue
  /\ UNCHANGED <<gc, refresh, cache, handler, debt, view>>

\* Two items change at once: UpdateMultiple.
GCEditsTwo(i, j, v) ==
  /\ i # j /\ inv[i] \notin {0, v} /\ inv[j] \notin {0, v} /\ edits < MaxEdits
  /\ edits' = edits + 1
  /\ inv' = [inv EXCEPT ![i] = v, ![j] = v]
  /\ IF gc = "subscribed"
     THEN Sends([type |-> "update", objects |-> <<<<i, v>>, <<j, v>>>>])
     ELSE UNCHANGED queue
  /\ UNCHANGED <<gc, refresh, cache, handler, debt, view>>

GCAccount ==
  /\ gc = "subscribed"
  /\ Sends([type |-> "account"])
  /\ UNCHANGED <<coordinator, refresh, cache, handler, debt, view>>

-----------------------------------------------------------------------------
(* The handlers, on the read loop.                                         *)

Idle == work = <<>> /\ tell = NoNews /\ todo = <<>>

Takes(type) ==
  /\ Idle /\ queue # <<>> /\ Head(queue).type = type
  /\ queue' = Tail(queue)

\* A fault on the client's side: from now on one Welcome must be handled.
Faults == debt' = IF debt = 0 THEN 1 ELSE debt

\* A message that does not decode, or the one object it carries does not, is
\* logged and dropped.
HandleUndecodable ==
  /\ MayGarble
  /\ \E type \in {"subscribed", "create", "update", "destroy", "account"} : Takes(type)
  /\ Faults
  /\ UNCHANGED <<coordinator, refresh, cache, handler, view>>

\* soCache.reset.
ResetItems == Empty
Reset == items' = ResetItems /\ account' = FALSE

\* Welcome and Goodbye empty the cache, then call OnConnected or
\* OnDisconnected, on which the application forgets its view.
HandleWelcome ==
  /\ Takes("welcome") /\ Reset
  /\ tell' = Empty /\ debt' = IF debt = 0 THEN 0 ELSE debt - 1
  /\ UNCHANGED <<coordinator, refresh, work, todo, view>>

HandleGoodbye ==
  /\ Takes("goodbye") /\ Reset
  /\ tell' = Empty
  /\ UNCHANGED <<coordinator, refresh, work, todo, debt, view>>

\* A SubscriptionCheck is answered with a SubscriptionRefresh, if it can be
\* sent; the coordinator answers that with Subscribed.
HandleCheck ==
  /\ Takes("check")
  /\ refresh' \in {refresh, TRUE}
  /\ UNCHANGED <<coordinator, cache, handler, debt, view>>

\* CacheSubscribed puts every item it lists into the cache and tells the
\* application the list; nothing leaves the cache.  Then comes the account.
Merged(new) == [i \in Ids |-> IF new[i] # 0 THEN new[i] ELSE items[i]]

HandleSubscribed ==
  /\ Takes("subscribed")
  /\ items' = Merged(Head(queue).snapshot)
  /\ tell' = Head(queue).snapshot
  /\ work' = IF SendsAccount THEN <<"account">> ELSE <<>>
  /\ UNCHANGED <<coordinator, refresh, account, todo, debt, view>>

LoadAccount ==
  /\ work = <<"account">> /\ tell = NoNews
  /\ account' = TRUE
  /\ work' = <<>>
  /\ UNCHANGED <<coordinator, refresh, queue, items, tell, todo, debt, view>>

\* The account fails to decode: there is none until the next one comes.
LoadAccountFails ==
  /\ MayGarble /\ work = <<"account">> /\ tell = NoNews
  /\ work' = <<>>
  /\ Faults
  /\ UNCHANGED <<coordinator, refresh, queue, cache, tell, todo, view>>

\* An item fails to decode: those before it stay, the rest of the message,
\* the callback and the account are skipped.
Partly(new, before) == [i \in Ids |-> IF i \in before THEN new[i] ELSE items[i]]

HandleGarbledSubscribed ==
  /\ MayGarble /\ Takes("subscribed")
  /\ LET new == Head(queue).snapshot
         listed == {i \in Ids : new[i] # 0}
     IN  \E before \in (SUBSET listed) \ {listed} : items' = Partly(new, before)
  /\ Faults
  /\ UNCHANGED <<coordinator, refresh, account, handler, view>>

\* len(c.cache.items) == 0 && c.cache.account == nil: "Backpack not loaded yet."
LooksUnloadedBug_ItemsOnly == items = Empty
LooksUnloaded == items = Empty /\ ~account

\* SO Create: the check is the first mutex region ...
HandleCreate ==
  /\ Takes("create")
  /\ work' = IF LooksUnloaded THEN <<>> ELSE <<"create", Head(queue).object>>
  /\ UNCHANGED <<coordinator, refresh, cache, tell, todo, debt, view>>

\* SO Update and UpdateMultiple: applySingleUpdate for each object.
HandleUpdate ==
  /\ Takes("update")
  /\ todo' = Head(queue).objects
  /\ UNCHANGED <<coordinator, refresh, cache, work, tell, debt, view>>

UpdateNext ==
  /\ work = <<>> /\ tell = NoNews /\ todo # <<>>
  /\ work' = IF LooksUnloaded THEN <<>> ELSE <<"update", Head(todo)>>
  /\ todo' = Tail(todo)
  /\ UNCHANGED <<coordinator, refresh, queue, cache, tell, debt, view>>

\* One object of the message fails to decode: those after it are still applied.
UpdateFails ==
  /\ MayGarble /\ work = <<>> /\ tell = NoNews /\ todo # <<>>
  /\ todo' = Tail(todo)
  /\ Faults
  /\ UNCHANGED <<coordinator, refresh, queue, cache, work, tell, view>>

\* ... and the write the second; OnItemAcquired or OnItemChanged follows.
Insert ==
  /\ work # <<>> /\ work[1] \in {"create", "update"}
  /\ LET i == work[2][1]
         v == work[2][2]
     IN  /\ items' = [items EXCEPT ![i] = v]
         /\ tell' = [j \in {i} |-> v]
  /\ work' = <<>>
  /\ UNCHANGED <<coordinator, refresh, queue, account, todo, debt, view>>

HandleAccount ==
  /\ Takes("account")
  /\ account' = TRUE
  /\ UNCHANGED <<coordinator, refresh, items, handler, debt, view>>

\* SO Destroy: OnItemRemoved follows only for an item the cache had.
RemovalBug_NotTold(i) == NoNews
Removal(i) == IF items[i] = 0 THEN NoNews ELSE [j \in {i} |-> 0]

HandleDestroy ==
  /\ Takes("destroy")
  /\ items' = [items EXCEPT ![Head(queue).id] = 0]
  /\ tell' = Removal(Head(queue).id)
  /\ UNCHANGED <<coordinator, refresh, account, work, todo, debt, view>>

\* The callback of the handler, outside the mutex.
Tell ==
  /\ tell # NoNews
  /\ view' = [i \in Ids |-> IF i \in DOMAIN tell THEN tell[i] ELSE view[i]]
  /\ tell' = NoNews
  /\ UNCHANGED <<coordinator, refresh, queue, cache, work, todo, debt>>

\* Disconnect, on a goroutine of the application, which forgets its view.
Disconnect ==
  /\ MayDisconnect
  /\ Reset /\ view' = Empty
  /\ Faults
  /\ UNCHANGED <<coordinator, refresh, queue, handler>>

-----------------------------------------------------------------------------

Coordinates ==
  \/ GCWelcome \/ GCGoodbye \/ GCCheck \/ GCSubscribe \/ GCLapse \/ GCAccount
  \/ \E i \in Ids, v \in 0..MaxVersion : GCEdits(i, v)
  \/ \E i, j \in Ids, v \in 1..MaxVersion : GCEditsTwo(i, j, v)

Handles ==
  \/ HandleWelcome \/ HandleGoodbye \/ HandleCheck
  \/ HandleSubscribed \/ LoadAccount \/ LoadAccountFails \/ HandleGarbledSubscribed
  \/ HandleUndecodable \/ HandleCreate \/ HandleUpdate \/ UpdateNext \/ UpdateFails \/ Insert
  \/ HandleAccount \/ HandleDestroy \/ Tell

Next == Coordinates \/ Handles \/ Disconnect

Spec == Init /\ [][Next]_vars

-----------------------------------------------------------------------------
Quiet == gc = "subscribed" /\ queue = <<>> /\ Idle

\* Nothing has gone wrong that a Welcome has not repaired since: no Disconnect
\* in the middle of things, no subscription lost unseen, nothing undecodable.
Sound == debt = 0

\* "soCache stores the live SO cache state": when the coordinator counts the
\* client as subscribed and everything it sent has been handled, the cache is
\* its inventory, through any mix of creations, changes, removals, welcomes,
\* goodbyes and repeated subscriptions.  After a fault the first Welcome sent
\* later restores this, whatever the fault has left in the cache.
CacheMirrors == (Sound /\ Quiet) => items = inv

\* The callbacks tell the whole story: an application that applies them to a
\* backpack of its own has the cache's backpack whenever no callback is due.
ViewMatches == (Sound /\ tell = NoNews) => view = items
=============================================================================
