------------------------- MODULE PacketListenersProofs -------------------------
(***************************************************************************)
(* The one-shot listeners for any number of calls and message types: the   *)
(* captured handlers always lead back to the application's own, and calls  *)
(* that are spaced out get their own answers and leave the hook as it was. *)
(***************************************************************************)
EXTENDS PacketListeners, FiniteSetTheorems, WellFoundedInduction, TLAPS

-----------------------------------------------------------------------------
(* Types.                                                                  *)

\* Every step keeps the types.
LEMMA TypeKept ==
  ASSUME TypeOK, [Next]_vars
  PROVE  TypeOK'
<1> USE CallsAssumption DEF TypeOK, Handlers
<1>1. ASSUME NEW c \in Calls, Begin(c) PROVE TypeOK'
  BY <1>1 DEF Begin
<1>2. ASSUME NEW c \in Calls, Capture(c) PROVE TypeOK'
  BY <1>2 DEF Capture, Captured
<1>3. ASSUME NEW c \in Calls, Install(c) PROVE TypeOK'
  BY <1>3 DEF Install, Installed
<1>4. ASSUME NEW c \in Calls, SendRequest(c) PROVE TypeOK'
  BY <1>4 DEF SendRequest
<1>5. ASSUME NEW c \in Calls, AwaitAnswer(c) PROVE TypeOK'
  BY <1>5 DEF AwaitAnswer
<1>6. ASSUME NEW c \in Calls, GivesUp(c) PROVE TypeOK'
  BY <1>6 DEF GivesUp
<1>7. ASSUME NEW c \in Calls, Receive(c) PROVE TypeOK'
  BY <1>7 DEF Receive
<1>8. CASE Offer
  BY <1>8 DEF Offer, Matches
<1>9. CASE Forward
  BY <1>9 DEF Forward, Restored, NextHandler
<1>10. CASE CallBase
  BY <1>10 DEF CallBase
<1>11. CASE UNCHANGED vars
  BY <1>11 DEF vars
<1> QED
  BY <1>1, <1>2, <1>3, <1>4, <1>5, <1>6, <1>7, <1>8, <1>9, <1>10, <1>11
  DEF Next, Runs, Dispatches

\* The variables keep their types, for any calls.
THEOREM TypeCorrect == Spec => []TypeOK
<1>1. Init => TypeOK BY CallsAssumption DEF Init, TypeOK, Handlers
<1>2. TypeOK /\ [Next]_vars => TypeOK' BY TypeKept
<1> QED BY <1>1, <1>2, PTL DEF Spec

-----------------------------------------------------------------------------
(* The chain of handlers.  A closure is ranked above the handler it        *)
(* captured, and no higher than the number of closures there were.         *)

Closures == {c \in Calls : pc[c] \notin {"idle", "capture"}}
Placed == Closures \cup {Base}

Rank(r) ==
  /\ r[Base] = 0
  /\ \A c \in Calls : r[prev[c]] < r[c]
  /\ \A c \in Closures : r[c] <= Cardinality(Closures)
  /\ \A c \in Calls \ Closures : r[c] = 1

Chain ==
  /\ onPacket \in Placed /\ at \in Placed
  /\ \A c \in Calls : prev[c] \in Placed /\ (c \notin Closures => prev[c] = Base)
  /\ \E r \in [Handlers -> Nat] : Rank(r)

\* A step that makes no closure leaves the ranks.
LEMMA ChainFrame ==
  ASSUME Chain, Closures' = Closures, prev' = prev, onPacket' \in Placed, at' \in Placed
  PROVE  Chain'
<1>1. Placed' = Placed BY DEF Placed
<1>2. PICK r \in [Handlers -> Nat] : Rank(r) BY DEF Chain
<1>3. Rank(r)' BY <1>2 DEF Rank
<1> QED BY <1>1, <1>2, <1>3 DEF Chain

\* A new closure is ranked above all others: none of them has captured it.
LEMMA ChainGrows ==
  ASSUME TypeOK, Chain, NEW c \in Calls, Capture(c)
  PROVE  Chain'
<1> USE CallsAssumption
<1>1. /\ pc[c] = "capture" /\ pc' = [pc EXCEPT ![c] = "install"]
      /\ prev' = [prev EXCEPT ![c] = onPacket] /\ UNCHANGED <<onPacket, at>>
  BY DEF Capture, Captured
<1>2. c \notin Closures /\ Closures' = Closures \cup {c}
  BY <1>1 DEF Closures, TypeOK
<1>3. Closures \subseteq Calls /\ Placed \subseteq Handlers BY DEF Closures, Placed, Handlers
<1>4. IsFiniteSet(Closures) BY <1>3, FS_Subset
<1>5. PICK n \in Nat : n = Cardinality(Closures) BY <1>4, FS_CardinalityType
<1>6. Cardinality(Closures') = n + 1 BY <1>2, <1>4, <1>5, FS_AddElement
<1>7. PICK r \in [Handlers -> Nat] : Rank(r) BY DEF Chain
<1> DEFINE s == [r EXCEPT ![c] = n + 1]
<1>8. c # Base /\ c \in Handlers /\ onPacket \in Placed /\ onPacket # c
  BY <1>2 DEF Handlers, Chain, Placed
<1>9. s \in [Handlers -> Nat] /\ s[c] = n + 1 /\ \A h \in Handlers \ {c} : s[h] = r[h]
  BY <1>8
<1> HIDE DEF s
<1>10. r[onPacket] <= n
  <2>1. CASE onPacket = Base BY <1>7, <2>1 DEF Rank
  <2>2. CASE onPacket \in Closures BY <1>5, <1>7, <2>2 DEF Rank
  <2> QED BY <1>8, <2>1, <2>2 DEF Placed
<1>11. \A d \in Calls : s[prev'[d]] < s[d]
  <2> SUFFICES ASSUME NEW d \in Calls PROVE s[prev'[d]] < s[d]
    OBVIOUS
  <2>1. CASE d = c
    <3>1. prev'[d] = onPacket BY <1>1, <2>1 DEF TypeOK
    <3>2. s[onPacket] = r[onPacket] /\ r[onPacket] \in Nat BY <1>3, <1>8, <1>9
    <3> QED BY <1>9, <1>10, <2>1, <3>1, <3>2
  <2>2. CASE d # c
    <3>1. prev'[d] = prev[d] /\ prev[d] \in Placed BY <1>1, <2>2 DEF TypeOK, Chain
    <3>2. prev[d] # c BY <1>2, <1>8, <3>1 DEF Placed
    <3>3. prev[d] \in Handlers /\ d \in Handlers BY <1>3, <3>1 DEF Handlers
    <3>4. s[prev[d]] = r[prev[d]] /\ s[d] = r[d] BY <1>9, <2>2, <3>2, <3>3
    <3> QED BY <1>7, <3>1, <3>4 DEF Rank
  <2> QED BY <2>1, <2>2
<1>12. s[Base] = 0 BY <1>7, <1>8, <1>9 DEF Rank, Handlers
<1>13. \A d \in Closures' : s[d] <= n + 1
  <2> SUFFICES ASSUME NEW d \in Closures', d # c PROVE s[d] <= n + 1
    BY <1>9
  <2>1. d \in Closures /\ d \in Handlers BY <1>2, <1>3 DEF Handlers
  <2>2. r[d] <= n /\ r[d] \in Nat /\ s[d] = r[d] BY <1>5, <1>7, <1>9, <2>1 DEF Rank
  <2> QED BY <2>2
<1>14. \A d \in Calls \ Closures' : s[d] = 1
  BY <1>2, <1>7, <1>9 DEF Rank, Handlers
<1>15. Rank(s)' BY <1>6, <1>11, <1>12, <1>13, <1>14 DEF Rank
<1>16. Placed' = Placed \cup {c} BY <1>2 DEF Placed
<1>17. \A d \in Calls : prev'[d] \in Placed' /\ (d \notin Closures' => prev'[d] = Base)
  BY <1>1, <1>2, <1>8, <1>16 DEF Chain, TypeOK
<1> QED BY <1>1, <1>8, <1>9, <1>15, <1>16, <1>17 DEF Chain

\* Every step keeps the chain.
LEMMA ChainKept ==
  ASSUME TypeOK, Chain, [Next]_vars
  PROVE  Chain'
<1> USE CallsAssumption
<1>1. onPacket \in Placed /\ at \in Placed /\ \A c \in Calls : prev[c] \in Placed
  BY DEF Chain
<1>2. ASSUME NEW c \in Calls, Begin(c) PROVE Chain'
  BY <1>1, <1>2, ChainFrame DEF Begin, Closures, TypeOK
<1>3. ASSUME NEW c \in Calls, Install(c) PROVE Chain'
  <2>1. c \in Placed BY <1>3 DEF Install, Placed, Closures
  <2> QED BY <1>1, <1>3, <2>1, ChainFrame DEF Install, Installed, Closures, TypeOK
<1>4. ASSUME NEW c \in Calls, SendRequest(c) \/ AwaitAnswer(c) \/ GivesUp(c) PROVE Chain'
  <2>1. Closures' = Closures
    BY <1>4 DEF SendRequest, AwaitAnswer, GivesUp, Closures, TypeOK
  <2> QED BY <1>1, <1>4, <2>1, ChainFrame DEF SendRequest, AwaitAnswer, GivesUp
<1>5. ASSUME NEW c \in Calls, Receive(c) PROVE Chain'
  BY <1>1, <1>5, ChainFrame DEF Receive, Closures
<1>6. CASE Offer \/ CallBase
  BY <1>1, <1>6, ChainFrame DEF Offer, CallBase, Closures
<1>7. CASE Forward
  <2>1. at \in Calls BY <1>7 DEF Forward, TypeOK, Handlers
  <2>2. onPacket' \in Placed /\ at' \in Placed
    BY <1>1, <1>7, <2>1 DEF Forward, Restored, NextHandler
  <2> QED BY <1>7, <2>2, ChainFrame DEF Forward, Closures
<1>8. CASE UNCHANGED vars
  BY <1>1, <1>8, ChainFrame DEF vars, Closures
<1> QED
  BY <1>2, <1>3, <1>4, <1>5, <1>6, <1>7, <1>8, ChainGrows DEF Next, Runs, Dispatches

\* The ranks begin with every closure above the application's handler.
LEMMA ChainInit ==
  Init => Chain
<1> SUFFICES ASSUME Init PROVE Chain
  OBVIOUS
<1> USE CallsAssumption
<1>1. /\ pc = [c \in Calls |-> "idle"] /\ onPacket = Base /\ at = Base
      /\ prev = [c \in Calls |-> Base]
  BY DEF Init
<1>2. Closures = {} BY <1>1 DEF Closures
<1> DEFINE r == [h \in Handlers |-> IF h = Base THEN 0 ELSE 1]
<1>3. r \in [Handlers -> Nat] OBVIOUS
<1>4. Rank(r)
  <2>1. r[Base] = 0 /\ \A c \in Calls : r[c] = 1 BY DEF Handlers
  <2> HIDE DEF r
  <2> QED BY <1>1, <1>2, <2>1 DEF Rank
<1> HIDE DEF r
<1> QED BY <1>1, <1>3, <1>4 DEF Chain, Placed

-----------------------------------------------------------------------------
(* From ranks to reachability.                                              *)

\* A set of numbers that has 0 and with each number its successor has them all.
LEMMA Counting ==
  ASSUME NEW S, 0 \in S, \A n \in Nat : n \in S => n + 1 \in S
  PROVE  \A n \in Nat : n \in S
<1> DEFINE T == {n \in Nat : n \notin S}
<1> SUFFICES ASSUME T # {} PROVE FALSE
  OBVIOUS
<1>1. IsWellFoundedOn(OpToRel(<, Nat), Nat) BY NatLessThanWellFounded
<1>2. PICK x \in T : \A y \in T : ~(<<y, x>> \in OpToRel(<, Nat))
  <2>1. T \subseteq Nat OBVIOUS
  <2> HIDE DEF T
  <2> QED BY <1>1, <2>1, WFMin
<1>3. x \in Nat /\ x # 0 /\ x - 1 \in Nat OBVIOUS
<1>4. x - 1 \in T BY <1>3
<1>5. <<x - 1, x>> \in OpToRel(<, Nat)
  <2>1. <<x - 1, x>> \in Nat \X Nat BY <1>3
  <2>2. <<x - 1, x>>[1] < <<x - 1, x>>[2] BY <1>3
  <2> QED BY <2>1, <2>2 DEF OpToRel
<1> QED BY <1>2, <1>4, <1>5

\* The handlers that a closure away lead to some.
Above(H) == H \cup {c \in Calls : prev[c] \in H}

\* Reach does begin with Base, and goes on by one capture at a time.
LEMMA ReachUnfolds ==
  /\ Reach[0] = {Base}
  /\ \A n \in 1..Cardinality(Calls) : Reach[n] = Above(Reach[n - 1])
<1> DEFINE N == Cardinality(Calls)
           Starts(g, m) == g[0] = {Base} /\ \A n \in 1..m : g[n] = Above(g[n - 1])
           Made(g) == g = [n \in 0..N |-> IF n = 0 THEN {Base}
                                          ELSE g[n - 1] \cup {c \in Calls : prev[c] \in g[n - 1]}]
           S == {m \in Nat : \E g \in [0..m -> SUBSET Handlers] : Starts(g, m)}
<1>0. N \in Nat BY CallsAssumption, FS_CardinalityType
<1> SUFFICES Starts(Reach, N)
  OBVIOUS
<1> HIDE DEF N
<1>1. 0 \in S
  <2> DEFINE g == [n \in 0..0 |-> {Base}]
  <2>1. g \in [0..0 -> SUBSET Handlers] /\ g[0] = {Base} BY DEF Handlers
  <2>2. Starts(g, 0) BY <2>1
  <2> HIDE DEF g, Starts
  <2> QED BY <2>1, <2>2
<1>2. ASSUME NEW m \in Nat, m \in S PROVE m + 1 \in S
  <2>1. PICK g \in [0..m -> SUBSET Handlers] : Starts(g, m) BY <1>2
  <2> DEFINE h == [n \in 0..(m + 1) |-> IF n = m + 1 THEN Above(g[m]) ELSE g[n]]
  <2>2. h \in [0..(m + 1) -> SUBSET Handlers]
    <3>1. Above(g[m]) \in SUBSET Handlers BY DEF Above, Handlers
    <3> QED BY <3>1
  <2>3. h[0] = {Base} BY <1>2, <2>1
  <2>4. ASSUME NEW n \in 1..(m + 1) PROVE h[n] = Above(h[n - 1])
    <3>1. CASE n = m + 1
      <4>1. h[n] = Above(g[m]) /\ h[n - 1] = g[m] BY <3>1
      <4> QED BY <4>1
    <3>2. CASE n # m + 1
      <4>1. n \in 1..m /\ h[n] = g[n] /\ h[n - 1] = g[n - 1] BY <3>2
      <4> QED BY <2>1, <4>1
    <3> QED BY <3>1, <3>2
  <2> HIDE DEF h
  <2>5. Starts(h, m + 1) BY <2>3, <2>4
  <2> HIDE DEF Starts
  <2> QED BY <2>2, <2>5
<1> HIDE DEF S
<1>3. N \in S BY <1>0, <1>1, <1>2, Counting
<1>4. PICK g \in [0..N -> SUBSET Handlers] : Starts(g, N) BY <1>3 DEF S
<1>5. Made(g)
  <2>1. ASSUME NEW n \in 0..N
        PROVE  g[n] = IF n = 0 THEN {Base} ELSE g[n - 1] \cup {c \in Calls : prev[c] \in g[n - 1]}
    <3>1. CASE n = 0 BY <1>4, <3>1
    <3>2. CASE n # 0
      <4>1. n \in 1..N BY <3>2
      <4> QED BY <1>4, <3>2, <4>1 DEF Above
    <3> QED BY <3>1, <3>2
  <2> QED BY <1>4, <2>1
<1> HIDE DEF Made
<1>6. Made(CHOOSE f : Made(f)) BY <1>5, Zenon
<1>7. Reach = CHOOSE f : Made(f) BY DEF Reach, Made, N
<1>8. Made(Reach) BY <1>6, <1>7
<1>9. Reach[0] = {Base} BY <1>0, <1>8 DEF Made
<1>10. ASSUME NEW n \in 1..N PROVE Reach[n] = Above(Reach[n - 1])
  <2>1. n \in 0..N /\ n # 0 OBVIOUS
  <2> QED BY <1>8, <2>1 DEF Made, Above
<1> QED BY <1>9, <1>10

\* A handler is reached in as many captures as its rank says.
LEMMA RanksReach ==
  ASSUME TypeOK, Chain
  PROVE  ChainIsGrounded
<1> USE CallsAssumption
<1> DEFINE N == Cardinality(Calls)
<1>1. N \in Nat BY FS_CardinalityType
<1>2. Reach[0] = {Base} /\ \A n \in 1..N : Reach[n] = Above(Reach[n - 1])
  BY <1>1, ReachUnfolds
<1>3. PICK r \in [Handlers -> Nat] : Rank(r) BY DEF Chain
<1>4. \A h \in Handlers : r[h] <= N
  <2> SUFFICES ASSUME NEW h \in Handlers PROVE r[h] <= N
    OBVIOUS
  <2>1. CASE h = Base BY <1>1, <1>3, <2>1 DEF Rank
  <2>2. CASE h \in Closures
    <3>1. Closures \subseteq Calls BY DEF Closures
    <3>2. Cardinality(Closures) <= N /\ IsFiniteSet(Closures) BY <3>1, FS_Subset
    <3>3. PICK k \in Nat : k = Cardinality(Closures) BY <3>2, FS_CardinalityType
    <3> QED BY <1>1, <1>3, <2>2, <3>2, <3>3 DEF Rank
  <2>3. CASE h \in Calls \ Closures
    <3>1. Calls # {} BY <2>3
    <3>2. N # 0 BY <3>1, FS_EmptySet
    <3>3. r[h] = 1 BY <1>3, <2>3 DEF Rank
    <3> HIDE DEF N
    <3> QED BY <1>1, <3>2, <3>3
  <2> QED BY <2>1, <2>2, <2>3 DEF Handlers
<1> HIDE DEF N
<1> DEFINE S == {n \in Nat : n <= N =>
                   /\ \A h \in Handlers : r[h] <= n => h \in Reach[n]
                   /\ Reach[n] \subseteq Handlers}
<1>5. 0 \in S
  <2> SUFFICES ASSUME NEW h \in Handlers, r[h] <= 0 PROVE h = Base
    BY <1>2 DEF Handlers
  <2>1. ASSUME h \in Calls PROVE FALSE
    <3>1. prev[h] \in Handlers BY <2>1 DEF TypeOK
    <3>2. r[prev[h]] < r[h] /\ r[h] \in Nat /\ r[prev[h]] \in Nat BY <1>3, <2>1, <3>1 DEF Rank
    <3> QED BY <3>2
  <2> QED BY <2>1 DEF Handlers
<1>6. ASSUME NEW n \in Nat, n \in S PROVE n + 1 \in S
  <2> SUFFICES ASSUME n + 1 <= N
               PROVE  /\ \A h \in Handlers : r[h] <= n + 1 => h \in Reach[n + 1]
                      /\ Reach[n + 1] \subseteq Handlers
    OBVIOUS
  <2>1. n + 1 \in 1..N /\ (n + 1) - 1 = n /\ n <= N BY <1>1
  <2>2. Reach[n + 1] = Above(Reach[n]) BY <1>2, <2>1
  <2>3. /\ \A h \in Handlers : r[h] <= n => h \in Reach[n]
        /\ Reach[n] \subseteq Handlers
    BY <1>6, <2>1
  <2>4. ASSUME NEW h \in Handlers, r[h] <= n + 1 PROVE h \in Above(Reach[n])
    <3>1. CASE h = Base
      <4>1. r[h] <= n BY <1>3, <3>1 DEF Rank
      <4> QED BY <2>3, <4>1 DEF Above
    <3>2. CASE h \in Calls
      <4>1. prev[h] \in Handlers BY <3>2 DEF TypeOK
      <4>2. r[prev[h]] < r[h] /\ r[h] \in Nat /\ r[prev[h]] \in Nat
        BY <1>3, <3>2, <4>1 DEF Rank
      <4>3. r[prev[h]] <= n BY <2>4, <4>2
      <4> QED BY <2>3, <3>2, <4>1, <4>3 DEF Above
    <3> QED BY <3>1, <3>2 DEF Handlers
  <2> QED BY <2>2, <2>3, <2>4 DEF Above, Handlers
<1> HIDE DEF S
<1>7. N \in S BY <1>1, <1>5, <1>6, Counting
<1>8. \A h \in Handlers : h \in Reach[N]
  <2>1. N <= N BY <1>1
  <2> QED BY <1>4, <1>7, <2>1 DEF S
<1>9. Reach[N] \subseteq Handlers
  <2>1. N <= N BY <1>1
  <2> QED BY <1>7, <2>1 DEF S
<1> QED BY <1>8, <1>9 DEF ChainIsGrounded, N

\* However calls overlap and expire, every handler leads back to the
\* application's in at most as many captures as there are calls: no closure
\* comes to call itself.
THEOREM ChainStaysGrounded == Spec => []ChainIsGrounded
<1>1. Init => Chain BY ChainInit
<1>2. TypeOK /\ Chain /\ [Next]_vars => Chain' BY ChainKept
<1>3. TypeOK /\ Chain => ChainIsGrounded BY RanksReach
<1> QED BY <1>1, <1>2, <1>3, TypeCorrect, PTL DEF Spec

-----------------------------------------------------------------------------
(* Calls that are spaced out.  At most one runs; the hook holds its closure *)
(* from the installation until the dispatch of its answer has passed it.   *)

Unseen(c) == c \notin asked /\ c \notin heard /\ packet # c /\ chan[c] = None

\* The read loop is in the closure of the call whose answer it dispatches.
Caught(c) == packet = c /\ at = c /\ onPacket = c

Waits(c) ==
  \/ c \in asked /\ c \notin heard /\ packet = None /\ chan[c] = None /\ onPacket = c
  \/ c \notin asked /\ c \notin heard /\ Caught(c) /\ ~restoring /\ chan[c] = None
  \/ c \notin asked /\ Caught(c) /\ restoring /\ chan[c] = c
  \/ c \notin asked /\ packet \in {c, None} /\ at = Base /\ chan[c] = c /\ onPacket = Base

Placing(c) ==
  /\ pc[c] = "idle" => Unseen(c)
  /\ pc[c] \in {"capture", "install"} => Unseen(c) /\ packet = None /\ onPacket = Base
  /\ pc[c] = "send" => Unseen(c) /\ packet = None /\ onPacket = c
  /\ pc[c] = "await" => Waits(c)
  /\ pc[c] = "returned" =>
       /\ c \notin asked /\ result[c] = c
       /\ packet = c => at = Base \/ (Caught(c) /\ restoring)
  /\ pc[c] # "returned" => result[c] = None
  /\ prev[c] = Base

Alone == \A c, d \in Calls : Running(c) /\ Running(d) => c = d
ReadLoop == (packet = None => at = Base) /\ (at = Base => ~restoring)
Hook == onPacket \in Calls =>
          pc[onPacket] = "send" \/ onPacket \in asked \/ Caught(onPacket)

Spaced == Alone /\ ReadLoop /\ Hook /\ \A c \in Calls : Placing(c)

\* A disturbed behaviour stays disturbed: what a call has returned, it has.
LEMMA DisturbedStays ==
  ASSUME TypeOK, [Next]_vars, Undisturbed'
  PROVE  Undisturbed
<1>1. spacing' = spacing
  BY DEF Next, Runs, Dispatches, vars, Begin, Capture, Install, SendRequest, AwaitAnswer, GivesUp,
         Receive, Offer, Forward, CallBase
<1>2. ASSUME NEW d \in Calls, pc[d] = "returned" PROVE pc'[d] = "returned" /\ result'[d] = result[d]
  <2>1. CASE UNCHANGED <<pc, result>> BY <1>2, <2>1
  <2>2. ASSUME NEW c \in Calls, Begin(c) PROVE pc'[d] = "returned" /\ result'[d] = result[d]
    BY <1>2, <2>2 DEF Begin, TypeOK
  <2>3. ASSUME NEW c \in Calls, Capture(c) \/ Install(c) \/ SendRequest(c)
        PROVE  pc'[d] = "returned" /\ result'[d] = result[d]
    BY <1>2, <2>3 DEF Capture, Install, SendRequest, TypeOK
  <2>4. ASSUME NEW c \in Calls, AwaitAnswer(c) PROVE pc'[d] = "returned" /\ result'[d] = result[d]
    BY <1>2, <2>4 DEF AwaitAnswer, TypeOK
  <2>5. ASSUME NEW c \in Calls, GivesUp(c) PROVE pc'[d] = "returned" /\ result'[d] = result[d]
    BY <1>2, <2>5 DEF GivesUp, TypeOK
  <2> QED
    BY <2>1, <2>2, <2>3, <2>4, <2>5
    DEF Next, Runs, Dispatches, vars, Receive, Offer, Forward, CallBase
<1> QED BY <1>1, <1>2 DEF Undisturbed

\* Until a call is disturbed, every step keeps the calls apart.
LEMMA SpacedKept ==
  ASSUME TypeOK, Spaced, Undisturbed, Undisturbed', [Next]_vars
  PROVE  Spaced'
<1> USE CallsAssumption
<1>0. \A c \in Calls : c # Base /\ c # None BY DEF TypeOK
<1>1. ASSUME NEW c \in Calls, Begin(c) PROVE Spaced'
  <2>1. /\ pc[c] = "idle" /\ pc' = [pc EXCEPT ![c] = "capture"] /\ packet = None
        /\ \A d \in Calls : ~Running(d)
        /\ UNCHANGED <<onPacket, prev, chan, result, asked, packet, at, restoring, heard>>
    BY <1>1 DEF Begin, Undisturbed
  <2>2. onPacket = Base
    <3>1. ASSUME onPacket \in Calls PROVE FALSE
      <4>1. pc[onPacket] # "send" /\ pc[onPacket] # "await" /\ ~Caught(onPacket)
        BY <1>0, <2>1, <3>1 DEF Running, Caught
      <4>2. onPacket \notin asked
        BY <2>1, <3>1, <4>1 DEF Spaced, Placing, Unseen, TypeOK
      <4> QED BY <3>1, <4>1, <4>2 DEF Spaced, Hook
    <3> QED BY <3>1 DEF TypeOK, Handlers
  <2>3. ASSUME NEW d \in Calls PROVE Placing(d)'
    BY <1>0, <2>1, <2>2 DEF Spaced, Placing, Unseen, Waits, Caught, TypeOK, Running
  <2>4. Alone' BY <2>1 DEF Alone, Running, TypeOK
  <2>5. ReadLoop' /\ Hook' BY <2>1, <2>2 DEF Spaced, ReadLoop, Hook
  <2> QED BY <2>3, <2>4, <2>5 DEF Spaced
<1>2. ASSUME NEW c \in Calls, Capture(c) PROVE Spaced'
  <2>1. /\ pc[c] = "capture" /\ pc' = [pc EXCEPT ![c] = "install"]
        /\ prev' = [prev EXCEPT ![c] = onPacket]
        /\ UNCHANGED <<onPacket, chan, result, asked, packet, at, restoring, heard>>
    BY <1>2 DEF Capture, Captured
  <2>2. onPacket = Base BY <2>1 DEF Spaced, Placing
  <2>3. ASSUME NEW d \in Calls PROVE Placing(d)'
    BY <1>0, <2>1, <2>2 DEF Spaced, Placing, Unseen, Waits, Caught, TypeOK
  <2>4. Alone' BY <2>1 DEF Spaced, Alone, Running, TypeOK
  <2>5. ReadLoop' /\ Hook' BY <2>1, <2>2 DEF Spaced, ReadLoop, Hook
  <2> QED BY <2>3, <2>4, <2>5 DEF Spaced
<1>3. ASSUME NEW c \in Calls, Install(c) PROVE Spaced'
  <2>1. /\ pc[c] = "install" /\ pc' = [pc EXCEPT ![c] = "send"] /\ onPacket' = c
        /\ UNCHANGED <<prev, chan, result, asked, packet, at, restoring, heard>>
    BY <1>3 DEF Install, Installed
  <2>2. onPacket = Base /\ packet = None /\ Unseen(c) BY <2>1 DEF Spaced, Placing
  <2>3. ASSUME NEW d \in Calls, d # c PROVE pc[d] \in {"idle", "returned"}
    BY <2>1, <2>3 DEF Spaced, Alone, Running, TypeOK
  <2>4. ASSUME NEW d \in Calls PROVE Placing(d)'
    BY <1>0, <2>1, <2>2, <2>3 DEF Spaced, Placing, Unseen, TypeOK
  <2>5. Alone' BY <2>1 DEF Spaced, Alone, Running, TypeOK
  <2>6. ReadLoop' /\ Hook' BY <2>1, <2>2 DEF Spaced, ReadLoop, Hook, TypeOK
  <2> QED BY <2>4, <2>5, <2>6 DEF Spaced
<1>4. ASSUME NEW c \in Calls, SendRequest(c) PROVE Spaced'
  <2>1. /\ pc[c] = "send" /\ pc' = [pc EXCEPT ![c] = "await"] /\ asked' = asked \cup {c}
        /\ UNCHANGED <<onPacket, prev, chan, result, packet, at, restoring, heard>>
    BY <1>4 DEF SendRequest
  <2>2. onPacket = c /\ packet = None /\ Unseen(c) BY <2>1 DEF Spaced, Placing
  <2>3. ASSUME NEW d \in Calls, d # c PROVE pc[d] \in {"idle", "returned"}
    BY <2>1, <2>3 DEF Spaced, Alone, Running, TypeOK
  <2>4. ASSUME NEW d \in Calls PROVE Placing(d)'
    BY <1>0, <2>1, <2>2, <2>3 DEF Spaced, Placing, Unseen, Waits, TypeOK
  <2>5. Alone' BY <2>1 DEF Spaced, Alone, Running, TypeOK
  <2>6. ReadLoop' /\ Hook' BY <2>1, <2>2 DEF Spaced, ReadLoop, Hook
  <2> QED BY <2>4, <2>5, <2>6 DEF Spaced
<1>5. ASSUME NEW c \in Calls, AwaitAnswer(c) PROVE Spaced'
  <2>1. /\ pc[c] = "await" /\ chan[c] # None /\ pc' = [pc EXCEPT ![c] = "returned"]
        /\ result' = [result EXCEPT ![c] = chan[c]]
        /\ UNCHANGED <<onPacket, prev, chan, asked, packet, at, restoring, heard>>
    BY <1>5 DEF AwaitAnswer
  <2>2. chan[c] = c /\ c \notin asked /\ (packet = c => at = Base \/ (Caught(c) /\ restoring))
    BY <2>1 DEF Spaced, Placing, Waits
  <2>3. ASSUME NEW d \in Calls PROVE Placing(d)'
    BY <1>0, <2>1, <2>2 DEF Spaced, Placing, Unseen, Waits, Caught, TypeOK
  <2>4. Alone' BY <2>1 DEF Spaced, Alone, Running, TypeOK
  <2>5. ReadLoop' /\ Hook' BY <2>1, <2>2 DEF Spaced, ReadLoop, Hook, Caught, TypeOK
  <2> QED BY <2>3, <2>4, <2>5 DEF Spaced
<1>6. ASSUME NEW c \in Calls, GivesUp(c) PROVE Spaced'
  <2>1. /\ pc[c] \in {"send", "await"} /\ pc' = [pc EXCEPT ![c] = "returned"]
        /\ UNCHANGED result
    BY <1>6 DEF GivesUp
  <2>2. result'[c] = None /\ pc'[c] = "returned" BY <2>1 DEF Spaced, Placing, TypeOK
  <2> QED BY <2>2 DEF Undisturbed
<1>7. ASSUME NEW c \in Calls, Receive(c) PROVE Spaced'
  <2>1. /\ packet = None /\ c \in asked /\ asked' = asked \ {c} /\ packet' = c /\ at' = onPacket
        /\ UNCHANGED <<pc, onPacket, prev, chan, result, restoring, heard>>
    BY <1>7 DEF Receive
  <2>2. pc[c] = "await" /\ c \notin heard /\ chan[c] = None /\ onPacket = c /\ ~restoring
    BY <1>0, <2>1 DEF Spaced, Placing, Unseen, Waits, ReadLoop, TypeOK, Caught
  <2>3. ASSUME NEW d \in Calls, d # c PROVE pc[d] \in {"idle", "returned"}
    BY <2>2, <2>3 DEF Spaced, Alone, Running, TypeOK
  <2>4. ASSUME NEW d \in Calls PROVE Placing(d)'
    BY <1>0, <2>1, <2>2, <2>3 DEF Spaced, Placing, Unseen, Waits, Caught, TypeOK
  <2>5. Alone' BY <2>1 DEF Spaced, Alone, Running
  <2>6. ReadLoop' /\ Hook' BY <1>0, <2>1, <2>2 DEF Spaced, ReadLoop, Hook, Caught
  <2> QED BY <2>4, <2>5, <2>6 DEF Spaced
<1>8. CASE Offer
  <2>1. /\ packet # None /\ at # Base /\ ~restoring /\ restoring' = TRUE
        /\ chan' = IF chan[at] = None THEN [chan EXCEPT ![at] = packet] ELSE chan
        /\ UNCHANGED <<pc, onPacket, prev, result, asked, packet, at, heard>>
    BY <1>8 DEF Offer, Matches
  <2>2. PICK c \in Calls : packet = c BY <2>1 DEF TypeOK
  <2>3. pc[c] = "await" /\ c \notin asked /\ Caught(c) /\ chan[c] = None
    BY <1>0, <2>1, <2>2 DEF Spaced, Placing, Unseen, Waits, TypeOK
  <2>4. ASSUME NEW d \in Calls, d # c PROVE pc[d] \in {"idle", "returned"}
    BY <2>3, <2>4 DEF Spaced, Alone, Running, TypeOK
  <2>5. chan' = [chan EXCEPT ![c] = c] BY <2>1, <2>3 DEF Caught
  <2>6. ASSUME NEW d \in Calls PROVE Placing(d)'
    BY <1>0, <2>1, <2>3, <2>4, <2>5 DEF Spaced, Placing, Unseen, Waits, Caught, TypeOK
  <2>7. Alone' BY <2>1 DEF Spaced, Alone, Running
  <2>8. ReadLoop' /\ Hook' BY <2>1 DEF Spaced, ReadLoop, Hook, Caught
  <2> QED BY <2>6, <2>7, <2>8 DEF Spaced
<1>9. CASE Forward
  <2>1. /\ packet # None /\ at # Base /\ at' = prev[at] /\ restoring' = FALSE
        /\ onPacket' = IF restoring THEN prev[at] ELSE onPacket
        /\ Matches => restoring
        /\ UNCHANGED <<pc, prev, chan, result, asked, packet, heard>>
    BY <1>9 DEF Forward, Restored, NextHandler
  <2>2. PICK c \in Calls : packet = c BY <2>1 DEF TypeOK
  <2>3. pc[c] \in {"await", "returned"} /\ Caught(c)
    BY <1>0, <2>1, <2>2 DEF Spaced, Placing, Unseen, Waits, TypeOK
  <2>4. restoring BY <1>0, <2>1, <2>3 DEF Matches, Caught
  <2>5. at' = Base /\ onPacket' = Base
    BY <2>1, <2>3, <2>4 DEF Spaced, Placing, Caught
  <2>6. c \notin asked /\ (pc[c] = "await" => chan[c] = c)
    BY <1>0, <2>2, <2>3, <2>4 DEF Spaced, Placing, Waits
  <2>7. ASSUME NEW d \in Calls, d # c PROVE pc[d] # "await" /\ Placing(d)'
    <3>1. pc[d] \in {"idle", "returned"}
      BY <1>0, <2>2, <2>3, <2>7 DEF Spaced, Placing, Waits, TypeOK, Caught
    <3> QED BY <1>0, <2>1, <2>2, <2>5, <2>7, <3>1 DEF Spaced, Placing, Unseen, TypeOK
  <2>8. Placing(c)'
    BY <1>0, <2>1, <2>2, <2>3, <2>5, <2>6 DEF Spaced, Placing, Waits
  <2>9. Alone' BY <2>1 DEF Spaced, Alone, Running
  <2>10. ReadLoop' /\ Hook' BY <1>0, <2>1, <2>5 DEF ReadLoop, Hook
  <2> QED BY <2>7, <2>8, <2>9, <2>10 DEF Spaced
<1>10. CASE CallBase
  <2>1. /\ packet # None /\ at = Base /\ heard' = heard \cup {packet} /\ packet' = None
        /\ UNCHANGED <<pc, onPacket, prev, chan, result, asked, at, restoring>>
    BY <1>10 DEF CallBase
  <2>2. PICK c \in Calls : packet = c BY <2>1 DEF TypeOK
  <2>3. /\ pc[c] \in {"await", "returned"} /\ c \notin asked
        /\ pc[c] = "await" => chan[c] = c /\ onPacket = Base
    BY <1>0, <2>1, <2>2 DEF Spaced, Placing, Unseen, Waits, Caught, TypeOK
  <2>4. ASSUME NEW d \in Calls, d # c PROVE pc[d] \in {"idle", "returned"}
    BY <1>0, <2>1, <2>2, <2>4 DEF Spaced, Placing, Waits, Caught, TypeOK
  <2>5. ASSUME NEW d \in Calls PROVE Placing(d)'
    BY <1>0, <2>1, <2>2, <2>3, <2>4 DEF Spaced, Placing, Unseen, Waits, TypeOK
  <2>6. Alone' BY <2>1 DEF Spaced, Alone, Running
  <2>7. ReadLoop' /\ Hook' BY <1>0, <2>1, <2>2 DEF Spaced, ReadLoop, Hook, Caught
  <2> QED BY <2>5, <2>6, <2>7 DEF Spaced
<1>11. CASE UNCHANGED vars
  BY <1>11 DEF vars, Spaced, Alone, Running, ReadLoop, Hook, Placing, Unseen, Waits, Caught
<1> QED
  BY <1>1, <1>2, <1>3, <1>4, <1>5, <1>6, <1>7, <1>8, <1>9, <1>10, <1>11
  DEF Next, Runs, Dispatches

Listened == Undisturbed => Spaced

\* Calls that start when the last one has returned and its dispatch is over
\* get their own answers, lose none and leave the application's handler in the
\* hook, until the first of them is given up.
THEOREM SpacedCallsDoWork == Spec => []SpacedCallsWork
<1>1. Init => Listened
  BY CallsAssumption
  DEF Init, Listened, Spaced, Alone, Running, ReadLoop, Hook, Placing, Unseen
<1>2. TypeOK /\ Listened /\ [Next]_vars => Listened'
  BY DisturbedStays, SpacedKept DEF Listened
<1>3. TypeOK /\ Listened => SpacedCallsWork
  <2> SUFFICES ASSUME TypeOK, Spaced PROVE OwnAnswer /\ NoLostAnswer /\ HookRestored
    BY DEF Listened, SpacedCallsWork
  <2>1. OwnAnswer BY DEF Spaced, Placing, OwnAnswer
  <2>2. NoLostAnswer
    BY CallsAssumption DEF Spaced, Placing, Waits, NoLostAnswer
  <2>3. HookRestored
    <3> SUFFICES ASSUME packet = None, \A c \in Calls : ~Running(c), onPacket \in Calls PROVE FALSE
      BY DEF HookRestored, TypeOK, Handlers
    <3>1. pc[onPacket] \in {"idle", "returned"} BY DEF Running
    <3>2. onPacket \notin asked BY <3>1 DEF Spaced, Placing, Unseen
    <3> QED BY <3>1, <3>2, CallsAssumption DEF Spaced, Hook, Caught
  <2> QED BY <2>1, <2>2, <2>3
<1> QED BY <1>1, <1>2, <1>3, TypeCorrect, PTL DEF Spec
=============================================================================
