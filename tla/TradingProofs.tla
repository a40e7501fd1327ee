---------------------------- MODULE TradingProofs ----------------------------
(***************************************************************************)
(* What holds of Trading for every number of callers, items and offers,    *)
(* every size of a page and every scenario.                                *)
(*                                                                         *)
(* The three properties say something of a call that has ended; IInv says  *)
(* what holds of it on the way there.  A call that has an answer has done  *)
(* what it reports, as far as the endpoint's answer is heeded (Honest).    *)
(* What a listing has read holds whatever has stayed, but for what is      *)
(* still ahead of its cursor (Reads): a change of the account moves        *)
(* listings across the cursor only together with the mark came or went.    *)
(* That needs the account in order: an item is in one place, and each      *)
(* confirmation is the only one of something pending (Account).            *)
(* The lemmas follow a step: what the site does to the account, what a     *)
(* page adds to what was read, what a caller makes of its answer.          *)
(***************************************************************************)
EXTENDS Trading, SequenceTheorems, TLAPS

-----------------------------------------------------------------------------
(* The inductive invariant.                                                *)

\* Each confirmation is for something pending, and no two are for the same.
ConfsMatch ==
  /\ \A i \in 1..Len(confs) : confs[i].creator \in pending
  /\ \A i, j \in 1..Len(confs) : confs[i].creator = confs[j].creator => i = j

\* An asset is in one place.
Account ==
  /\ IsInjective(market)
  /\ inv \cap ToSet(market) = {} /\ pending \cap (inv \cup ToSet(market)) = {}
  /\ ConfsMatch
  /\ \A x \in pending \cap Offers : offer[x] = "pending"

TwoSteps == Confirming \cup {"BuyItem"}

\* A call that has got an answer has done what it reports, as far as the answer
\* was read; the second exchange is about the confirmation asked for.
Honest(k) ==
  /\ k.at # "idle" => /\ k.op \in Operations /\ k.on \in Arguments(k.op)
                      /\ k.step = 2 => k.op \in TwoSteps
  /\ k.op \in Confirming /\ (k.step = 2 \/ k.did) => k.conf.creator = k.on
  /\ k.at = "answered" => k.said = "done" \/ k.said \in Endpoint[Exchanges(k.op)[k.step]].says
  /\ k.at = "answered" /\ k.said = "done" => (k.did <=> k.step = Len(Exchanges(k.op)))
  /\ k.at = "idle" /\ k.ended = "ok" => k.did \/ k.op \in Credulous

\* Whether a listing is ahead of position n of the market, or not.
Ahead(listed, a, n) == \E i \in 1..Len(listed) : i > n /\ listed[i] = a
Behind(listed, a, n) == \A i \in 1..Len(listed) : listed[i] = a => i <= n

\* What has been read up to the cursor n: the inventory in order, and all that
\* stayed, but for what the cursor has still to come to.
InventoryRead(g, n, more, w) ==
  /\ Ascending(g) /\ (more => \A i \in 1..Len(g) : g[i] <= n)
  /\ \A a \in w.inv : a \in ToSet(g) \/ (more /\ a > n)

\* As long as none has gone, the listings that have not been read are ahead of
\* the cursor; as long as none has come, those that have been are behind it.
ListingsRead(listed, g, n, more, w) ==
  /\ w.went \/ \A a \in w.market : a \in ToSet(g) \/ (more /\ Ahead(listed, a, n))
  /\ w.came \/ (IsInjective(g) /\ \A i \in 1..Len(g) : Behind(listed, g[i], n))

\* A page that has come counts as read.
Reads(listed, items, k, w) ==
  /\ k.op \in Listing /\ k.at # "idle" => w.inv \subseteq items
  /\ k.op = "GetInventory" /\ k.at = "sent" => InventoryRead(k.got, k.cursor, TRUE, w)
  /\ k.op = "GetMarketListings" /\ k.at = "sent" => ListingsRead(listed, k.got, k.cursor, TRUE, w)
  /\ k.at = "answered" /\ k.said = "done" =>
       /\ k.op = "GetInventory" => InventoryRead(Gathered(k), Cursor(k), k.more, w)
       /\ k.op = "GetMarketListings" => ListingsRead(listed, Gathered(k), Cursor(k), k.more, w)

\* What has been read, once it has.
Complete(k, w) ==
  /\ k.op = "GetInventory" /\ k.at = "idle" /\ k.ended = "ok" =>
       Ascending(k.got) /\ w.inv \subseteq ToSet(k.got)
  /\ k.op = "GetMarketListings" /\ k.at = "idle" /\ k.ended = "ok" =>
       (w.went \/ w.market \subseteq ToSet(k.got)) /\ (w.came \/ IsInjective(k.got))

Sound(listed, items, k, w) == Honest(k) /\ Reads(listed, items, k, w) /\ Complete(k, w)

\* t is s with the new element x at one end.
Extends(s, x, t) == t \in {<<x>> \o s, Append(s, x)}

\* The listings stay as they are, lose one, or get another at either end.
MarketMoves(listed, listed2) ==
  \/ listed2 = listed
  \/ \E i \in 1..Len(listed) : listed2 = RemoveAt(listed, i)
  \/ \E x \in Assets : x \notin ToSet(listed) /\ Extends(listed, x, listed2)

SiteTypes ==
  /\ inv \subseteq Assets /\ market \in Seq(Assets)
  /\ pending \subseteq Creators /\ confs \in Seq(Confirmations)
  /\ offer \in [Offers -> {"none", "incoming", "pending", "active", "closed"}]
  /\ count \in [confs : Nat, calls : Nat, events : Nat]

IInv ==
  /\ TypeOK /\ Account
  /\ \A c \in Callers : Sound(market, inv, call[c], watch[c])

-----------------------------------------------------------------------------
(* Sequences.                                                              *)

\* Without the element at i, those behind it move up by one place.
LEMMA Removed ==
  ASSUME NEW S, NEW s \in Seq(S), NEW i \in 1..Len(s)
  PROVE  /\ RemoveAt(s, i) \in Seq(S) /\ Len(RemoveAt(s, i)) = Len(s) - 1
         /\ \A j \in 1..Len(s) - 1 : RemoveAt(s, i)[j] = IF j < i THEN s[j] ELSE s[j + 1]
<1> DEFINE a == SubSeq(s, 1, i - 1)  b == SubSeq(s, i + 1, Len(s))
<1>1. Len(s) \in Nat /\ \A j \in 1..Len(s) : s[j] \in S BY ElementOfSeq
<1>2. /\ a \in Seq(S) /\ Len(a) = i - 1 /\ \A j \in 1..(i - 1) : a[j] = s[j]
  <2>1. PICK m \in Int, n \in Int : m = 1 /\ n = i - 1 BY <1>1
  <2>2. \A j \in m..n : s[j] \in S BY <1>1, <2>1
  <2>3. /\ SubSeq(s, m, n) \in Seq(S) /\ Len(SubSeq(s, m, n)) = (IF m <= n THEN n - m + 1 ELSE 0)
        /\ \A j \in 1..n - m + 1 : SubSeq(s, m, n)[j] = s[m + j - 1]
    BY <2>2, SubSeqProperties
  <2>4. n - m + 1 = i - 1 /\ (IF m <= n THEN n - m + 1 ELSE 0) = i - 1 BY <1>1, <2>1
  <2>5. \A j \in 1..(i - 1) : m + j - 1 = j BY <1>1, <2>1
  <2> QED BY <2>1, <2>3, <2>4, <2>5
<1>3. /\ b \in Seq(S) /\ Len(b) = Len(s) - i
      /\ \A j \in 1..(Len(s) - i) : b[j] = s[i + j]
  <2>1. PICK m \in Int, n \in Int : m = i + 1 /\ n = Len(s) BY <1>1
  <2>2. \A j \in m..n : s[j] \in S BY <1>1, <2>1
  <2>3. /\ SubSeq(s, m, n) \in Seq(S) /\ Len(SubSeq(s, m, n)) = (IF m <= n THEN n - m + 1 ELSE 0)
        /\ \A j \in 1..n - m + 1 : SubSeq(s, m, n)[j] = s[m + j - 1]
    BY <2>2, SubSeqProperties
  <2>4. n - m + 1 = Len(s) - i /\ (IF m <= n THEN n - m + 1 ELSE 0) = Len(s) - i BY <1>1, <2>1
  <2>5. \A j \in 1..(Len(s) - i) : m + j - 1 = i + j BY <1>1, <2>1
  <2> QED BY <2>1, <2>3, <2>4, <2>5
<1> HIDE DEF a, b
<1>4. /\ a \o b \in Seq(S) /\ Len(a \o b) = Len(a) + Len(b)
      /\ \A j \in 1..Len(a) + Len(b) : (a \o b)[j] = IF j <= Len(a) THEN a[j] ELSE b[j - Len(a)]
  BY <1>2, <1>3, ConcatProperties
<1>5. RemoveAt(s, i) = a \o b BY DEF RemoveAt, a, b
<1>6. Len(a) + Len(b) = Len(s) - 1 BY <1>1, <1>2, <1>3
<1>7. ASSUME NEW j \in 1..Len(s) - 1
      PROVE  (a \o b)[j] = IF j < i THEN s[j] ELSE s[j + 1]
  <2>1. CASE j < i
    <3>1. j <= Len(a) /\ j \in 1..(i - 1) /\ j \in 1..Len(a) + Len(b) BY <1>1, <1>2, <1>6, <2>1
    <3>2. (a \o b)[j] = a[j] BY <1>4, <3>1
    <3> QED BY <1>2, <2>1, <3>1, <3>2
  <2>2. CASE ~(j < i)
    <3>1. ~(j <= Len(a)) /\ j - Len(a) \in 1..(Len(s) - i) /\ j \in 1..Len(a) + Len(b)
          /\ i + (j - Len(a)) = j + 1
      BY <1>1, <1>2, <1>6, <2>2
    <3>2. (a \o b)[j] = b[j - Len(a)] BY <1>4, <3>1
    <3>3. b[j - Len(a)] = s[i + (j - Len(a))] BY <1>3, <3>1
    <3> QED BY <2>2, <3>1, <3>2, <3>3
  <2> QED BY <2>1, <2>2
<1> QED BY <1>4, <1>5, <1>6, <1>7

\* Where the element at j was before.
Place(i, j) == IF j < i THEN j ELSE j + 1

\* The places of what remains are others, each its own.
LEMMA RemovedPlaces ==
  ASSUME NEW S, NEW s \in Seq(S), NEW i \in 1..Len(s)
  PROVE  \A j \in 1..Len(s) - 1 :
           /\ Place(i, j) \in 1..Len(s) /\ Place(i, j) # i /\ RemoveAt(s, i)[j] = s[Place(i, j)]
           /\ \A k \in 1..Len(s) - 1 : Place(i, j) = Place(i, k) => j = k
<1> SUFFICES ASSUME NEW j \in 1..Len(s) - 1
             PROVE  /\ Place(i, j) \in 1..Len(s) /\ Place(i, j) # i /\ RemoveAt(s, i)[j] = s[Place(i, j)]
                    /\ \A k \in 1..Len(s) - 1 : Place(i, j) = Place(i, k) => j = k
  OBVIOUS
<1>1. Len(s) \in Nat OBVIOUS
<1>2. Place(i, j) \in 1..Len(s) /\ Place(i, j) # i BY <1>1 DEF Place
<1>3. RemoveAt(s, i)[j] = s[Place(i, j)] BY Removed DEF Place
<1>4. \A k \in 1..Len(s) - 1 : Place(i, j) = Place(i, k) => j = k BY <1>1 DEF Place
<1> QED BY <1>2, <1>3, <1>4

\* What remains is what was there, without the element if it was there once.
LEMMA RemovedSet ==
  ASSUME NEW S, NEW s \in Seq(S), IsInjective(s), NEW i \in 1..Len(s)
  PROVE  /\ IsInjective(RemoveAt(s, i))
         /\ ToSet(RemoveAt(s, i)) = ToSet(s) \ {s[i]}
<1> DEFINE t == RemoveAt(s, i)
<1>a. /\ t \in Seq(S) /\ Len(t) = Len(s) - 1
      /\ \A j \in 1..Len(s) - 1 : t[j] = IF j < i THEN s[j] ELSE s[j + 1]
  BY Removed, Zenon
<1>1. /\ t \in Seq(S) /\ Len(t) = Len(s) - 1 /\ Len(s) \in Nat
      /\ \A j \in 1..Len(s) - 1 : t[j] = IF j < i THEN s[j] ELSE s[j + 1]
  BY <1>a
<1>2. DOMAIN s = 1..Len(s) /\ DOMAIN t = 1..Len(s) - 1 BY <1>1
<1>3. \A j, k \in 1..Len(s) : s[j] = s[k] => j = k BY <1>2 DEF IsInjective
<1>0. \A j \in 1..Len(s) - 1 : \E m \in 1..Len(s) : t[j] = s[m] /\ m = (IF j < i THEN j ELSE j + 1)
  <2> SUFFICES ASSUME NEW j \in 1..Len(s) - 1
               PROVE  \E m \in 1..Len(s) : t[j] = s[m] /\ m = (IF j < i THEN j ELSE j + 1)
    OBVIOUS
  <2>1. j \in 1..Len(s) /\ j + 1 \in 1..Len(s) BY <1>1
  <2>2. CASE j < i BY <1>1, <2>1, <2>2
  <2>3. CASE ~(j < i) BY <1>1, <2>1, <2>3
  <2> QED BY <2>2, <2>3
<1> HIDE DEF t
<1>4. ASSUME NEW j \in 1..Len(s) - 1, NEW k \in 1..Len(s) - 1, t[j] = t[k] PROVE j = k
  <2>1. PICK jj \in 1..Len(s) : t[j] = s[jj] /\ jj = (IF j < i THEN j ELSE j + 1) BY <1>0
  <2>2. PICK kk \in 1..Len(s) : t[k] = s[kk] /\ kk = (IF k < i THEN k ELSE k + 1) BY <1>0
  <2>3. jj = kk BY <1>3, <1>4, <2>1, <2>2
  <2> QED BY <2>1, <2>2, <2>3
<1>5. ASSUME NEW j \in 1..Len(s) - 1
      PROVE  \E k \in 1..Len(s) : k # i /\ s[k] = t[j]
  <2>1. CASE j < i BY <1>1, <2>1
  <2>2. CASE ~(j < i)
    <3>1. j + 1 \in 1..Len(s) /\ j + 1 # i /\ s[j + 1] = t[j] BY <1>1, <2>2
    <3> QED BY <3>1
  <2> QED BY <2>1, <2>2
<1>6. ASSUME NEW k \in 1..Len(s), k # i
      PROVE  \E j \in 1..Len(s) - 1 : t[j] = s[k]
  <2>1. CASE k < i
    <3>1. k \in 1..Len(s) - 1 BY <1>1, <2>1
    <3> QED BY <1>1, <2>1, <3>1
  <2>2. CASE ~(k < i)
    <3>1. k - 1 \in 1..Len(s) - 1 /\ ~(k - 1 < i) /\ (k - 1) + 1 = k BY <1>1, <1>6, <2>2
    <3>2. t[k - 1] = s[(k - 1) + 1] BY <1>1, <3>1
    <3> QED BY <3>1, <3>2
  <2> QED BY <2>1, <2>2
<1>7. IsInjective(t) BY <1>2, <1>4 DEF IsInjective
<1>8. ToSet(t) = ToSet(s) \ {s[i]}
  <2>1. ASSUME NEW x \in ToSet(t) PROVE x \in ToSet(s) \ {s[i]}
    <3>1. PICK j \in 1..Len(s) - 1 : x = t[j] BY <1>2, <2>1 DEF ToSet
    <3>2. PICK k \in 1..Len(s) : k # i /\ s[k] = t[j] BY <1>5
    <3> QED BY <1>2, <1>3, <3>1, <3>2 DEF ToSet
  <2>2. ASSUME NEW x \in ToSet(s) \ {s[i]} PROVE x \in ToSet(t)
    <3>1. PICK k \in 1..Len(s) : x = s[k] BY <1>2 DEF ToSet
    <3>2. k # i BY <2>2, <3>1
    <3>3. PICK j \in 1..Len(s) - 1 : t[j] = s[k] BY <1>6, <3>2
    <3> QED BY <1>2, <3>1, <3>3 DEF ToSet
  <2> QED BY <2>1, <2>2
<1> QED BY <1>7, <1>8 DEF t

\* At either end of a sequence, a new element is there besides the others.
LEMMA Added ==
  ASSUME NEW S, NEW s \in Seq(S), NEW x \in S
  PROVE  /\ Append(s, x) \in Seq(S) /\ Len(Append(s, x)) = Len(s) + 1 /\ Append(s, x)[Len(s) + 1] = x
         /\ \A j \in 1..Len(s) : Append(s, x)[j] = s[j]
         /\ <<x>> \o s \in Seq(S) /\ Len(<<x>> \o s) = Len(s) + 1 /\ (<<x>> \o s)[1] = x
         /\ \A j \in 1..Len(s) : (<<x>> \o s)[j + 1] = s[j]
<1>1. /\ Append(s, x) \in Seq(S) /\ Len(Append(s, x)) = Len(s) + 1 /\ Append(s, x)[Len(s) + 1] = x
      /\ \A j \in 1..Len(s) : Append(s, x)[j] = s[j]
  BY AppendProperties
<1>2. <<x>> \in Seq(S) OBVIOUS
<1>3. PICK u \in Seq(S) : u = <<x>> BY <1>2
<1>4. Len(u) = 1 /\ u[1] = x /\ Len(s) \in Nat BY <1>3
<1>5. /\ u \o s \in Seq(S) /\ Len(u \o s) = Len(u) + Len(s)
      /\ \A j \in 1..Len(u) + Len(s) : (u \o s)[j] = IF j <= Len(u) THEN u[j] ELSE s[j - Len(u)]
  BY ConcatProperties
<1>6. Len(u \o s) = Len(s) + 1 BY <1>4, <1>5
<1>7. (u \o s)[1] = x BY <1>4, <1>5
<1>8. ASSUME NEW j \in 1..Len(s) PROVE (u \o s)[j + 1] = s[j]
  <2>1. j + 1 \in 1..Len(u) + Len(s) /\ ~(j + 1 <= Len(u)) /\ (j + 1) - Len(u) = j BY <1>4
  <2> QED BY <1>5, <2>1
<1> QED BY <1>1, <1>3, <1>5, <1>6, <1>7, <1>8

\* A sequence to which a new element is added stays without duplicates.
LEMMA AddedSet ==
  ASSUME NEW S, NEW s \in Seq(S), IsInjective(s), NEW x \in S, x \notin ToSet(s),
         NEW t, Extends(s, x, t)
  PROVE  t \in Seq(S) /\ IsInjective(t) /\ ToSet(t) = ToSet(s) \cup {x}
<1>0. t \in {<<x>> \o s, Append(s, x)} BY DEF Extends
<1>1. DOMAIN s = 1..Len(s) /\ Len(s) \in Nat OBVIOUS
<1>2. \A j \in 1..Len(s) : s[j] # x BY <1>1 DEF ToSet
<1>3. \A j, k \in 1..Len(s) : s[j] = s[k] => j = k BY <1>1 DEF IsInjective
<1>a. /\ Append(s, x) \in Seq(S) /\ Len(Append(s, x)) = Len(s) + 1
      /\ <<x>> \o s \in Seq(S) /\ Len(<<x>> \o s) = Len(s) + 1
  BY Added, Zenon
<1>4. t \in Seq(S) /\ Len(t) = Len(s) + 1
  <2>1. CASE t = <<x>> \o s BY <1>a, <2>1, Zenon
  <2>2. CASE t = Append(s, x) BY <1>a, <2>2, Zenon
  <2> QED BY <1>0, <2>1, <2>2
<1>5. DOMAIN t = 1..Len(s) + 1 BY <1>4
<1>6. CASE t = Append(s, x)
  <2>1. t[Len(s) + 1] = x /\ \A j \in 1..Len(s) : t[j] = s[j] BY <1>6, Added
  <2>2. \A j \in 1..Len(s) + 1 : j \in 1..Len(s) \/ j = Len(s) + 1 BY <1>1
  <2>3. IsInjective(t) BY <1>2, <1>3, <1>5, <2>1, <2>2 DEF IsInjective
  <2>4. ToSet(t) = ToSet(s) \cup {x}
    <3>1. ASSUME NEW y \in ToSet(t) PROVE y \in ToSet(s) \cup {x}
      <4>1. PICK j \in 1..Len(s) + 1 : y = t[j] BY <1>5, <3>1 DEF ToSet
      <4>2. j \in 1..Len(s) \/ j = Len(s) + 1 BY <2>2
      <4> QED BY <1>1, <2>1, <4>1, <4>2 DEF ToSet
    <3>2. ToSet(s) \subseteq ToSet(t)
      <4>1. 1..Len(s) \subseteq 1..Len(s) + 1 BY <1>1
      <4> QED BY <1>1, <1>5, <2>1, <4>1 DEF ToSet
    <3>3. x \in ToSet(t)
      <4>1. Len(s) + 1 \in 1..Len(s) + 1 BY <1>1
      <4> QED BY <1>5, <2>1, <4>1 DEF ToSet
    <3> QED BY <3>1, <3>2, <3>3
  <2> QED BY <1>4, <2>3, <2>4
<1>7. CASE t = <<x>> \o s
  <2>1. t[1] = x /\ \A j \in 1..Len(s) : t[j + 1] = s[j] BY <1>7, Added
  <2>2. \A j \in 1..Len(s) + 1 : j = 1 \/ \E k \in 1..Len(s) : j = k + 1
    <3> SUFFICES ASSUME NEW j \in 1..Len(s) + 1, j # 1 PROVE \E k \in 1..Len(s) : j = k + 1
      OBVIOUS
    <3>1. j - 1 \in 1..Len(s) /\ j = (j - 1) + 1 BY <1>1
    <3> QED BY <3>1
  <2>3. IsInjective(t)
    <3> SUFFICES ASSUME NEW a \in 1..Len(s) + 1, NEW b \in 1..Len(s) + 1, t[a] = t[b] PROVE a = b
      BY <1>5 DEF IsInjective
    <3>1. CASE a = 1 /\ b = 1 BY <3>1
    <3>2. CASE a = 1 /\ b # 1 BY <1>2, <2>1, <2>2, <3>2
    <3>3. CASE a # 1 /\ b = 1 BY <1>2, <2>1, <2>2, <3>3
    <3>4. CASE a # 1 /\ b # 1
      <4>1. PICK j \in 1..Len(s) : a = j + 1 BY <2>2, <3>4
      <4>2. PICK k \in 1..Len(s) : b = k + 1 BY <2>2, <3>4
      <4>3. s[j] = s[k] BY <2>1, <4>1, <4>2
      <4> QED BY <1>3, <4>1, <4>2, <4>3
    <3> QED BY <3>1, <3>2, <3>3, <3>4
  <2>4. ToSet(t) = ToSet(s) \cup {x}
    <3>1. ASSUME NEW y \in ToSet(t) PROVE y \in ToSet(s) \cup {x}
      <4>1. PICK j \in 1..Len(s) + 1 : y = t[j] BY <1>5, <3>1 DEF ToSet
      <4>2. CASE j = 1 BY <2>1, <4>1, <4>2
      <4>3. CASE j # 1
        <5>1. PICK k \in 1..Len(s) : j = k + 1 BY <2>2, <4>3
        <5> QED BY <1>1, <2>1, <4>1, <5>1 DEF ToSet
      <4> QED BY <4>2, <4>3
    <3>2. ASSUME NEW y \in ToSet(s) PROVE y \in ToSet(t)
      <4>1. PICK j \in 1..Len(s) : y = s[j] BY <1>1, <3>2 DEF ToSet
      <4>2. j + 1 \in 1..Len(s) + 1 BY <1>1
      <4> QED BY <1>5, <2>1, <4>1, <4>2 DEF ToSet
    <3>3. x \in ToSet(t)
      <4>1. 1 \in 1..Len(s) + 1 BY <1>1
      <4> QED BY <1>5, <2>1, <4>1 DEF ToSet
    <3> QED BY <3>1, <3>2, <3>3
  <2> QED BY <1>4, <2>3, <2>4
<1> QED BY <1>0, <1>6, <1>7

-----------------------------------------------------------------------------
(* Pages.                                                                  *)

\* The elements of two sequences in a row are the elements of both.
LEMMA JoinedSet ==
  ASSUME NEW S, NEW s \in Seq(S), NEW t \in Seq(S)
  PROVE  ToSet(s \o t) = ToSet(s) \cup ToSet(t)
<1>1. /\ s \o t \in Seq(S) /\ Len(s \o t) = Len(s) + Len(t)
      /\ \A i \in 1..Len(s) + Len(t) : (s \o t)[i] = IF i <= Len(s) THEN s[i] ELSE t[i - Len(s)]
  BY ConcatProperties
<1>2. PICK u \in Seq(S) : u = s \o t BY <1>1
<1>3. /\ DOMAIN s = 1..Len(s) /\ DOMAIN t = 1..Len(t) /\ DOMAIN u = 1..Len(s) + Len(t)
      /\ Len(s) \in Nat /\ Len(t) \in Nat
  BY <1>1, <1>2
<1>4. ASSUME NEW x \in ToSet(u) PROVE x \in ToSet(s) \cup ToSet(t)
  <2>1. PICK i \in 1..Len(s) + Len(t) : x = u[i] BY <1>3, <1>4 DEF ToSet
  <2>2. CASE i <= Len(s)
    <3>1. i \in 1..Len(s) /\ x = s[i] BY <1>1, <1>2, <1>3, <2>1, <2>2
    <3> QED BY <1>3, <3>1 DEF ToSet
  <2>3. CASE ~(i <= Len(s))
    <3>1. i - Len(s) \in 1..Len(t) /\ x = t[i - Len(s)] BY <1>1, <1>2, <1>3, <2>1, <2>3
    <3> QED BY <1>3, <3>1 DEF ToSet
  <2> QED BY <2>2, <2>3
<1>5. ASSUME NEW x \in ToSet(s) PROVE x \in ToSet(u)
  <2>1. PICK i \in 1..Len(s) : x = s[i] BY <1>3, <1>5 DEF ToSet
  <2>2. i \in 1..Len(s) + Len(t) /\ u[i] = x BY <1>1, <1>2, <1>3, <2>1
  <2> QED BY <1>3, <2>2 DEF ToSet
<1>6. ASSUME NEW x \in ToSet(t) PROVE x \in ToSet(u)
  <2>1. PICK i \in 1..Len(t) : x = t[i] BY <1>3, <1>6 DEF ToSet
  <2>2. i + Len(s) \in 1..Len(s) + Len(t) /\ ~(i + Len(s) <= Len(s)) /\ (i + Len(s)) - Len(s) = i
    BY <1>3
  <2>3. u[i + Len(s)] = x BY <1>1, <1>2, <2>1, <2>2
  <2> QED BY <1>3, <2>2, <2>3 DEF ToSet
<1> QED BY <1>2, <1>4, <1>5, <1>6

\* Numbers that ascend up to n, and then such that ascend from n, ascend.
LEMMA JoinedAscends ==
  ASSUME NEW s \in Seq(Nat), NEW t \in Seq(Nat), NEW n \in Nat, Ascending(s), Ascending(t),
         \A i \in 1..Len(s) : s[i] <= n, \A i \in 1..Len(t) : t[i] > n
  PROVE  Ascending(s \o t)
<1>1. /\ s \o t \in Seq(Nat) /\ Len(s \o t) = Len(s) + Len(t)
      /\ \A i \in 1..Len(s) + Len(t) : (s \o t)[i] = IF i <= Len(s) THEN s[i] ELSE t[i - Len(s)]
  BY ConcatProperties
<1>2. PICK u \in Seq(Nat) : u = s \o t BY <1>1
<1>3. /\ DOMAIN s = 1..Len(s) /\ DOMAIN t = 1..Len(t) /\ DOMAIN u = 1..Len(s) + Len(t)
      /\ Len(s) \in Nat /\ Len(t) \in Nat
  BY <1>1, <1>2
<1>4. ASSUME NEW i \in 1..Len(s) + Len(t), NEW j \in 1..Len(s) + Len(t), i < j PROVE u[i] < u[j]
  <2>1. CASE j <= Len(s)
    <3>1. i \in 1..Len(s) /\ j \in 1..Len(s) /\ u[i] = s[i] /\ u[j] = s[j]
      BY <1>1, <1>2, <1>3, <1>4, <2>1
    <3> QED BY <1>3, <1>4, <3>1 DEF Ascending
  <2>2. CASE i <= Len(s) /\ ~(j <= Len(s))
    <3>1. i \in 1..Len(s) /\ j - Len(s) \in 1..Len(t) /\ u[i] = s[i] /\ u[j] = t[j - Len(s)]
      BY <1>1, <1>2, <1>3, <1>4, <2>2
    <3>2. s[i] \in Nat /\ t[j - Len(s)] \in Nat /\ s[i] <= n /\ t[j - Len(s)] > n
      BY <3>1, ElementOfSeq
    <3>3. s[i] < t[j - Len(s)] BY <3>2
    <3> QED BY <3>1, <3>3, Zenon
  <2>3. CASE ~(i <= Len(s))
    <3>1. /\ i - Len(s) \in 1..Len(t) /\ j - Len(s) \in 1..Len(t) /\ i - Len(s) < j - Len(s)
          /\ ~(j <= Len(s))
      BY <1>3, <1>4, <2>3
    <3>2. u[i] = t[i - Len(s)] /\ u[j] = t[j - Len(s)]
      BY <1>1, <1>2, <2>3, <3>1
    <3> QED BY <1>3, <3>1, <3>2 DEF Ascending
  <2> QED BY <1>3, <1>4, <2>1, <2>2, <2>3
<1> QED BY <1>2, <1>3, <1>4 DEF Ascending

\* The first page of a set of numbers is in order and comes from the set; what
\* it leaves over only comes after a full page.
LEMMA FirstOfFacts ==
  ASSUME NEW rest \in SUBSET Nat, NEW p \in FirstOf(rest)
  PROVE  /\ p \in Seq(Nat) /\ Ascending(p) /\ ToSet(p) \subseteq rest
         /\ \A a \in rest \ ToSet(p) : p # <<>> /\ \A b \in ToSet(p) : b < a
<1>1. /\ p \in SeqOf(rest, PageSize) /\ Ascending(p)
      /\ \A a \in rest \ ToSet(p) : Len(p) = PageSize /\ \A b \in ToSet(p) : b < a
  BY DEF FirstOf
<1>2. PICK m \in 0..PageSize : p \in [1..m -> rest] BY <1>1 DEF SeqOf
<1>3. p \in Seq(rest) /\ p \in Seq(Nat) /\ DOMAIN p = 1..Len(p)
  <2>1. m \in Nat BY <1>2, TradingAssumption
  <2>2. p \in Seq(rest) /\ DOMAIN p = 1..m BY <1>2, <2>1
  <2>3. Len(p) = m BY <2>1, <2>2
  <2>4. p \in [1..m -> Nat] BY <1>2
  <2>5. p \in Seq(Nat) BY <2>1, <2>4
  <2> QED BY <2>2, <2>3, <2>5
<1>4. ToSet(p) \subseteq rest BY <1>2 DEF ToSet
<1>5. Len(p) = PageSize => p # <<>> BY TradingAssumption
<1> QED BY <1>1, <1>3, <1>4, <1>5

\* Assets and offers are numbers.
LEMMA Numbers ==
  /\ Assets \subseteq Nat /\ Offers \subseteq Nat /\ Creators \subseteq Nat
  /\ Assets \cap Offers = {}
  /\ PageSize \in Nat \ {0} /\ SchemaSize \in Nat
BY TradingAssumption DEF Assets, Creators

\* A part of a sequence that begins after position n.
LEMMA Part ==
  ASSUME NEW S, NEW s \in Seq(S), NEW n \in Nat, NEW to \in 0..Len(s)
  PROVE  /\ SubSeq(s, n + 1, to) \in Seq(S)
         /\ Len(SubSeq(s, n + 1, to)) = IF n < to THEN to - n ELSE 0
         /\ \A i \in 1..(to - n) : SubSeq(s, n + 1, to)[i] = s[n + i]
<1>1. Len(s) \in Nat /\ to \in Nat /\ \A i \in 1..Len(s) : s[i] \in S BY ElementOfSeq
<1>2. PICK a \in Int, b \in Int : a = n + 1 /\ b = to BY <1>1
<1>3. \A i \in a..b : s[i] \in S BY <1>1, <1>2
<1>4. /\ SubSeq(s, a, b) \in Seq(S) /\ Len(SubSeq(s, a, b)) = (IF a <= b THEN b - a + 1 ELSE 0)
      /\ \A i \in 1..b - a + 1 : SubSeq(s, a, b)[i] = s[a + i - 1]
  BY <1>3, SubSeqProperties
<1>5. (IF a <= b THEN b - a + 1 ELSE 0) = (IF n < to THEN to - n ELSE 0) BY <1>1, <1>2
<1>6. b - a + 1 = to - n /\ \A i \in 1..(to - n) : a + i - 1 = n + i BY <1>1, <1>2
<1> QED BY <1>2, <1>4, <1>5, <1>6

\* Numbers that ascend end with the greatest.
LEMMA LastIsGreatest ==
  ASSUME NEW p \in Seq(Nat), Ascending(p)
  PROVE  \A i \in 1..Len(p) : p[i] <= p[Len(p)]
<1> SUFFICES ASSUME NEW i \in 1..Len(p) PROVE p[i] <= p[Len(p)]
  OBVIOUS
<1>1. Len(p) \in 1..Len(p) /\ DOMAIN p = 1..Len(p) /\ p[i] \in Nat /\ p[Len(p)] \in Nat
  BY ElementOfSeq
<1>2. i < Len(p) => p[i] < p[Len(p)] BY <1>1 DEF Ascending
<1> QED BY <1>1, <1>2

\* What comes after n, and where a page ends.
Beyond(items, n) == {a \in items : a > n}
End(page) == IF page = <<>> THEN None ELSE page[Len(page)]

\* With the page that the site answers, an inventory has been read to its end
\* or up to the last asset of that page.
LEMMA InventoryServed ==
  ASSUME NEW items \in SUBSET Assets, NEW got \in Seq(Nat), NEW n \in Nat, NEW w, w.inv \subseteq items,
         InventoryRead(got, n, TRUE, w), NEW rest, rest = Beyond(items, n),
         NEW page \in FirstOf(rest), NEW end, end = End(page),
         NEW more, more <=> rest # ToSet(page)
  PROVE  InventoryRead(got \o page, end, more, w)
<1>1. rest \in SUBSET Nat /\ items \subseteq Nat BY Numbers DEF Beyond
<1>2. /\ page \in Seq(Nat) /\ Ascending(page) /\ ToSet(page) \subseteq rest
      /\ \A a \in rest \ ToSet(page) : page # <<>> /\ \A b \in ToSet(page) : b < a
  BY <1>1, FirstOfFacts
<1>3. /\ Ascending(got) /\ \A i \in 1..Len(got) : got[i] <= n
      /\ \A a \in w.inv : a \in ToSet(got) \/ a > n
  BY DEF InventoryRead
<1>4. DOMAIN page = 1..Len(page) /\ DOMAIN got = 1..Len(got) /\ Len(page) \in Nat /\ Len(got) \in Nat
  BY <1>2
<1>5. \A i \in 1..Len(page) : page[i] > n /\ page[i] \in Nat /\ page[i] \in ToSet(page)
  <2> SUFFICES ASSUME NEW i \in 1..Len(page) PROVE page[i] > n /\ page[i] \in Nat /\ page[i] \in ToSet(page)
    OBVIOUS
  <2>1. page[i] \in ToSet(page) BY <1>4 DEF ToSet
  <2> QED BY <1>1, <1>2, <2>1 DEF Beyond
<1>6. Ascending(got \o page) BY <1>2, <1>3, <1>5, JoinedAscends
<1>7. ToSet(got \o page) = ToSet(got) \cup ToSet(page) BY <1>2, JoinedSet
<1>8. page # <<>> => /\ Len(page) \in 1..Len(page) /\ end = page[Len(page)] /\ end \in Nat /\ end > n
                     /\ end \in ToSet(page)
                     /\ \A i \in 1..Len(page) : page[i] <= end
  <2> SUFFICES ASSUME page # <<>>
               PROVE  /\ Len(page) \in 1..Len(page) /\ end = page[Len(page)] /\ end \in Nat /\ end > n
                      /\ end \in ToSet(page)
                      /\ \A i \in 1..Len(page) : page[i] <= end
    OBVIOUS
  <2>1. Len(page) \in 1..Len(page) BY <1>2, <1>4
  <2>2. end = page[Len(page)] BY DEF End
  <2>3. \A i \in 1..Len(page) : page[i] <= page[Len(page)] BY <1>2, LastIsGreatest
  <2> QED BY <1>5, <2>1, <2>2, <2>3
<1>9. ASSUME more, NEW i \in 1..Len(got \o page)
      PROVE  (got \o page)[i] <= end
  <2>1. page # <<>> BY <1>2, <1>9
  <2>2. /\ Len(got \o page) = Len(got) + Len(page)
        /\ (got \o page)[i] = IF i <= Len(got) THEN got[i] ELSE page[i - Len(got)]
    <3>1. Len(got \o page) = Len(got) + Len(page) BY <1>2, ConcatProperties
    <3>2. i \in 1..Len(got) + Len(page) BY <3>1
    <3> QED BY <1>2, <3>1, <3>2, ConcatProperties
  <2>3. CASE i <= Len(got)
    <3>1. got[i] <= n /\ got[i] \in Nat BY <1>3, <1>4, <2>3, ElementOfSeq
    <3> QED BY <1>8, <2>1, <2>2, <2>3, <3>1
  <2>4. CASE ~(i <= Len(got))
    <3>1. i - Len(got) \in 1..Len(page) BY <1>4, <2>2, <2>4
    <3> QED BY <1>8, <2>1, <2>2, <2>4, <3>1
  <2> QED BY <2>3, <2>4
<1>10. ASSUME NEW a \in w.inv
       PROVE  a \in ToSet(got \o page) \/ (more /\ a > end)
  <2>1. CASE a \in ToSet(got) \/ a \in ToSet(page) BY <1>7, <2>1
  <2>2. CASE a \notin ToSet(got) /\ a \notin ToSet(page)
    <3>1. a \in rest \ ToSet(page) BY <1>3, <2>2 DEF Beyond
    <3>2. end < a BY <1>2, <1>8, <3>1
    <3>3. a \in Nat BY <1>1, <3>1
    <3>4. end \in Nat BY <1>2, <1>8, <3>1
    <3> QED BY <3>1, <3>2, <3>3, <3>4
  <2> QED BY <2>1, <2>2
<1> QED BY <1>6, <1>9, <1>10 DEF InventoryRead

\* The same for a page of listings, which begins at a position.
LEMMA ListingsServed ==
  ASSUME NEW S, NEW listed \in Seq(S), IsInjective(listed),
         NEW got \in Seq(Nat), NEW n \in Nat, NEW w, ListingsRead(listed, got, n, TRUE, w),
         NEW page \in Seq(Nat),
         \A i \in 1..Len(page) : n + i \in 1..Len(listed) /\ page[i] = listed[n + i]
  PROVE  ListingsRead(listed, got \o page, n + Len(page), n + Len(page) < Len(listed), w)
<1>1. Len(listed) \in Nat /\ DOMAIN listed = 1..Len(listed)
  OBVIOUS
<1>3. \A i \in 1..Len(page) : n + i \in 1..Len(listed) /\ page[i] = listed[n + i]
  OBVIOUS
<1>4. /\ DOMAIN page = 1..Len(page) /\ DOMAIN got = 1..Len(got)
      /\ Len(page) \in Nat /\ Len(got) \in Nat
  OBVIOUS
<1> DEFINE g == got \o page  m == n + Len(page)
<1>5. /\ g \in Seq(Nat) /\ Len(g) = Len(got) + Len(page) /\ DOMAIN g = 1..Len(got) + Len(page)
      /\ \A i \in 1..Len(got) + Len(page) : g[i] = IF i <= Len(got) THEN got[i] ELSE page[i - Len(got)]
  <2>1. /\ g \in Seq(Nat) /\ Len(g) = Len(got) + Len(page)
        /\ \A i \in 1..Len(got) + Len(page) : g[i] = IF i <= Len(got) THEN got[i] ELSE page[i - Len(got)]
    BY <1>4, ConcatProperties
  <2> QED BY <2>1
<1>6. ToSet(g) = ToSet(got) \cup ToSet(page) BY <1>4, JoinedSet
<1> HIDE DEF g
<1>7. ASSUME ~w.went, NEW a \in w.market
      PROVE  a \in ToSet(g) \/ (m < Len(listed) /\ Ahead(listed, a, m))
  <2>1. a \in ToSet(got) \/ Ahead(listed, a, n) BY <1>7 DEF ListingsRead
  <2>2. CASE a \in ToSet(got) BY <1>6, <2>2
  <2>3. CASE Ahead(listed, a, n)
    <3>1. PICK i \in 1..Len(listed) : i > n /\ listed[i] = a BY <2>3 DEF Ahead
    <3>2. CASE i <= m
      <4>1. i - n \in 1..Len(page) /\ n + (i - n) = i BY <1>1, <1>3, <1>4, <3>1, <3>2
      <4>2. page[i - n] = a BY <1>3, <3>1, <4>1
      <4>3. a \in ToSet(page) BY <1>4, <4>1, <4>2 DEF ToSet
      <4> QED BY <1>6, <4>3
    <3>3. CASE ~(i <= m)
      <4>1. i > m /\ m < Len(listed) BY <1>1, <1>4, <3>1, <3>3
      <4> QED BY <3>1, <4>1 DEF Ahead
    <3> QED BY <3>2, <3>3
  <2> QED BY <2>1, <2>2, <2>3
<1>8. ASSUME ~w.came
      PROVE  IsInjective(g) /\ \A i \in 1..Len(g) : Behind(listed, g[i], m)
  <2>1. IsInjective(got) /\ \A i \in 1..Len(got) : Behind(listed, got[i], n) BY <1>8 DEF ListingsRead
  <2>2. \A i, j \in 1..Len(listed) : listed[i] = listed[j] => i = j BY <1>1 DEF IsInjective
  <2>3. ASSUME NEW i \in 1..Len(got) PROVE Behind(listed, got[i], m)
    <3> SUFFICES ASSUME NEW j \in 1..Len(listed), listed[j] = got[i] PROVE j <= m
      BY DEF Behind
    <3>1. j <= n BY <2>1 DEF Behind
    <3> QED BY <1>4, <3>1
  <2>4. ASSUME NEW i \in 1..Len(page) PROVE Behind(listed, page[i], m)
    <3> SUFFICES ASSUME NEW j \in 1..Len(listed), listed[j] = page[i] PROVE j <= m
      BY DEF Behind
    <3>1. j = n + i BY <1>3, <2>2
    <3> QED BY <1>4, <3>1
  <2>5. ASSUME NEW i \in 1..Len(got), NEW j \in 1..Len(page) PROVE got[i] # page[j]
    <3> SUFFICES ASSUME got[i] = page[j] PROVE FALSE
      OBVIOUS
    <3>1. n + j \in 1..Len(listed) /\ listed[n + j] = got[i] BY <1>3
    <3>2. n + j <= n BY <2>1, <3>1 DEF Behind
    <3> QED BY <3>2
  <2>6. ASSUME NEW i \in 1..Len(page), NEW j \in 1..Len(page), page[i] = page[j] PROVE i = j
    <3>1. listed[n + i] = listed[n + j] /\ n + i \in 1..Len(listed) /\ n + j \in 1..Len(listed)
      BY <1>3, <2>6
    <3>2. n + i = n + j BY <2>2, <3>1
    <3> QED BY <1>4, <3>2
  <2>7. ASSUME NEW i \in 1..Len(g)
        PROVE  \/ i \in 1..Len(got) /\ g[i] = got[i]
               \/ i - Len(got) \in 1..Len(page) /\ g[i] = page[i - Len(got)]
    <3>1. CASE i <= Len(got) BY <1>4, <1>5, <3>1
    <3>2. CASE ~(i <= Len(got)) BY <1>4, <1>5, <3>2
    <3> QED BY <3>1, <3>2
  <2>8. \A i \in 1..Len(g) : Behind(listed, g[i], m) BY <2>3, <2>4, <2>7
  <2>9. ASSUME NEW i \in 1..Len(g), NEW j \in 1..Len(g), g[i] = g[j] PROVE i = j
    <3>1. CASE i \in 1..Len(got) /\ g[i] = got[i] /\ j \in 1..Len(got) /\ g[j] = got[j]
      BY <1>4, <2>1, <2>9, <3>1 DEF IsInjective
    <3>2. CASE /\ i - Len(got) \in 1..Len(page) /\ g[i] = page[i - Len(got)]
               /\ j - Len(got) \in 1..Len(page) /\ g[j] = page[j - Len(got)]
      <4>1. i - Len(got) = j - Len(got) BY <2>6, <2>9, <3>2
      <4> QED BY <1>4, <1>5, <4>1
    <3> QED BY <2>5, <2>7, <2>9, <3>1, <3>2
  <2>10. IsInjective(g) BY <1>5, <2>9 DEF IsInjective
  <2> QED BY <2>8, <2>10
<1>9. ListingsRead(listed, g, m, m < Len(listed), w) BY <1>7, <1>8 DEF ListingsRead
<1> QED BY <1>9 DEF g

\* Reading listings goes on across a change of the market that is watched.
LEMMA ListingsWatched ==
  ASSUME NEW listed \in Seq(Assets), IsInjective(listed), NEW listed2, MarketMoves(listed, listed2),
         NEW g, NEW n \in Nat, NEW more, NEW w, NEW w2,
         w2.market \subseteq w.market,
         w2.came <=> (w.came \/ ~(ToSet(listed2) \subseteq ToSet(listed))),
         w2.went <=> (w.went \/ ~(ToSet(listed) \subseteq ToSet(listed2))),
         ListingsRead(listed, g, n, more, w)
  PROVE  ListingsRead(listed2, g, n, more, w2)
<1>1. CASE listed2 = listed
  BY <1>1 DEF ListingsRead
<1>2. ASSUME NEW i \in 1..Len(listed), listed2 = RemoveAt(listed, i)
      PROVE  ListingsRead(listed2, g, n, more, w2)
  <2>1. /\ listed2 \in Seq(Assets) /\ Len(listed2) = Len(listed) - 1
        /\ \A j \in 1..Len(listed) - 1 : listed2[j] = IF j < i THEN listed[j] ELSE listed[j + 1]
    BY <1>2, Removed
  <2>2. ToSet(listed2) = ToSet(listed) \ {listed[i]} BY <1>2, RemovedSet
  <2>3. listed[i] \in ToSet(listed) BY DEF ToSet
  <2>4. w2.went BY <2>2, <2>3
  <2>5. ~w2.came => ~w.came OBVIOUS
  <2>6. ASSUME NEW a, Behind(listed, a, n) PROVE Behind(listed2, a, n)
    <3> SUFFICES ASSUME NEW j \in 1..Len(listed) - 1, listed2[j] = a PROVE j <= n
      BY <2>1 DEF Behind
    <3>1. j \in 1..Len(listed) /\ j + 1 \in 1..Len(listed) OBVIOUS
    <3>2. CASE j < i
      <4>1. listed[j] = a BY <2>1, <3>2
      <4> QED BY <2>6, <3>1, <4>1 DEF Behind
    <3>3. CASE ~(j < i)
      <4>1. listed[j + 1] = a BY <2>1, <3>3
      <4>2. j + 1 <= n BY <2>6, <3>1, <4>1 DEF Behind
      <4> QED BY <4>2
    <3> QED BY <3>2, <3>3
  <2> QED BY <2>4, <2>5, <2>6 DEF ListingsRead
<1>3. ASSUME NEW x \in Assets, x \notin ToSet(listed), Extends(listed, x, listed2)
      PROVE  ListingsRead(listed2, g, n, more, w2)
  <2>1. listed2 \in Seq(Assets) /\ ToSet(listed2) = ToSet(listed) \cup {x} BY <1>3, AddedSet
  <2>2. w2.came BY <1>3, <2>1
  <2>3. ~w2.went => ~w.went OBVIOUS
  <2>4. ASSUME NEW a, Ahead(listed, a, n) PROVE Ahead(listed2, a, n)
    <3>1. PICK i \in 1..Len(listed) : i > n /\ listed[i] = a BY <2>4 DEF Ahead
    <3>2. CASE listed2 = Append(listed, x)
      <4>1. Len(listed2) = Len(listed) + 1 /\ \A j \in 1..Len(listed) : listed2[j] = listed[j] BY <3>2, Added
      <4>2. i \in 1..Len(listed2) /\ listed2[i] = a BY <3>1, <4>1
      <4> QED BY <3>1, <4>2 DEF Ahead
    <3>3. CASE listed2 = <<x>> \o listed
      <4>1. Len(listed2) = Len(listed) + 1 /\ \A j \in 1..Len(listed) : listed2[j + 1] = listed[j] BY <3>3, Added
      <4>2. i + 1 \in 1..Len(listed2) /\ listed2[i + 1] = a /\ i + 1 > n BY <3>1, <4>1
      <4> QED BY <4>2 DEF Ahead
    <3> QED BY <1>3, <3>2, <3>3 DEF Extends
  <2> QED BY <2>2, <2>3, <2>4 DEF ListingsRead
<1> QED BY <1>1, <1>2, <1>3 DEF MarketMoves

\* The same of an inventory, of which less can only have stayed.
LEMMA InventoryWatched ==
  ASSUME NEW g, NEW n, NEW more, NEW w, NEW w2, w2.inv \subseteq w.inv, InventoryRead(g, n, more, w)
  PROVE  InventoryRead(g, n, more, w2)
BY DEF InventoryRead

-----------------------------------------------------------------------------
(* What the site does.                                                     *)

\* Confirmations that are removed leave the others in agreement with what is
\* pending.
LEMMA ConfRemoved ==
  ASSUME SiteTypes, ConfsMatch, NEW i \in 1..Len(confs), confs' = RemoveAt(confs, i),
         pending \ {confs[i].creator} \subseteq pending'
  PROVE  confs' \in Seq(Confirmations) /\ ConfsMatch'
<1>1. confs \in Seq(Confirmations) /\ Len(confs) \in Nat BY DEF SiteTypes
<1>2. confs' \in Seq(Confirmations) /\ Len(confs') = Len(confs) - 1 BY <1>1, Removed
<1>3. \A j \in 1..Len(confs) - 1 :
        /\ Place(i, j) \in 1..Len(confs) /\ Place(i, j) # i /\ confs'[j] = confs[Place(i, j)]
        /\ \A k \in 1..Len(confs) - 1 : Place(i, j) = Place(i, k) => j = k
  BY <1>1, RemovedPlaces
<1>4. ASSUME NEW j \in 1..Len(confs') PROVE confs'[j].creator \in pending'
  <2>1. confs'[j] = confs[Place(i, j)] /\ Place(i, j) \in 1..Len(confs) /\ Place(i, j) # i BY <1>2, <1>3
  <2>2. confs[Place(i, j)].creator \in pending \ {confs[i].creator} BY <2>1 DEF ConfsMatch
  <2> QED BY <2>1, <2>2
<1>5. ASSUME NEW j \in 1..Len(confs'), NEW k \in 1..Len(confs'), confs'[j].creator = confs'[k].creator
      PROVE  j = k
  <2>1. /\ confs'[j] = confs[Place(i, j)] /\ Place(i, j) \in 1..Len(confs)
        /\ confs'[k] = confs[Place(i, k)] /\ Place(i, k) \in 1..Len(confs)
    BY <1>2, <1>3
  <2>2. Place(i, j) = Place(i, k) BY <1>5, <2>1 DEF ConfsMatch
  <2> QED BY <1>2, <1>3, <2>2
<1> QED BY <1>2, <1>4, <1>5 DEF ConfsMatch

\* Settled is settled: x is not pending any more, and has no confirmation.
LEMMA Settled ==
  ASSUME SiteTypes, ConfsMatch, NEW x, Settle(x)
  PROVE  /\ pending' = pending \ {x} /\ pending' \subseteq Creators
         /\ confs' \in Seq(Confirmations) /\ ConfsMatch' /\ count' = count
<1>1. pending' = pending \ {x} /\ pending' \subseteq Creators /\ count' = count
  BY DEF Settle, SiteTypes
<1>2. CASE \E i \in DOMAIN confs : confs[i].creator = x /\ confs' = RemoveAt(confs, i)
  <2>1. PICK i \in 1..Len(confs) : confs[i].creator = x /\ confs' = RemoveAt(confs, i)
    BY <1>2 DEF SiteTypes
  <2>2. pending \ {confs[i].creator} \subseteq pending' BY <1>1, <2>1
  <2> QED BY <1>1, <2>1, <2>2, ConfRemoved
<1>3. CASE (\A i \in DOMAIN confs : confs[i].creator # x) /\ UNCHANGED confs
  <2>1. confs' = confs /\ \A i \in 1..Len(confs) : confs[i].creator # x BY <1>3 DEF SiteTypes
  <2>2. ConfsMatch' BY <1>1, <2>1 DEF ConfsMatch
  <2> QED BY <1>1, <2>1, <2>2 DEF SiteTypes
<1> QED BY <1>2, <1>3 DEF Settle

\* A new confirmation is the only one of its creator, which was not pending.
LEMMA Confirmed ==
  ASSUME SiteTypes, ConfsMatch, NEW x \in Creators, x \notin pending, NewConf(x)
  PROVE  /\ pending' = pending \cup {x} /\ pending' \subseteq Creators
         /\ confs' \in Seq(Confirmations) /\ ConfsMatch'
         /\ count' \in [confs : Nat, calls : Nat, events : Nat]
<1>1. /\ pending' = pending \cup {x} /\ pending' \subseteq Creators
      /\ count' \in [confs : Nat, calls : Nat, events : Nat]
  BY DEF NewConf, SiteTypes
<1>2. PICK f \in Confirmations : f.creator = x /\ confs' = Append(confs, f)
  <2>1. [id |-> count.confs + 1, creator |-> x] \in Confirmations BY DEF SiteTypes, Confirmations
  <2> QED BY <2>1 DEF NewConf
<1>3. confs \in Seq(Confirmations) /\ Len(confs) \in Nat BY DEF SiteTypes
<1>4. /\ confs' \in Seq(Confirmations) /\ Len(confs') = Len(confs) + 1
      /\ \A i \in 1..Len(confs) : confs'[i] = confs[i]
      /\ confs'[Len(confs) + 1] = f
  BY <1>2, <1>3, AppendProperties
<1>5. \A i \in 1..Len(confs') : i \in 1..Len(confs) \/ i = Len(confs) + 1 BY <1>3, <1>4
<1>6. \A i \in 1..Len(confs') : confs'[i].creator \in pending'
  BY <1>1, <1>2, <1>4, <1>5 DEF ConfsMatch
<1>7. \A i \in 1..Len(confs) : confs[i].creator # x BY DEF ConfsMatch
<1>8. \A i, j \in 1..Len(confs') : confs'[i].creator = confs'[j].creator => i = j
  BY <1>2, <1>4, <1>5, <1>7 DEF ConfsMatch
<1> QED BY <1>1, <1>4, <1>6, <1>8 DEF ConfsMatch

\* What a step leaves of the account.
Kept == SiteTypes' /\ Account' /\ MarketMoves(market, market')

\* An offer that is made or accepted.
LEMMA OfferedKeeps ==
  ASSUME SiteTypes, Account, NEW x \in Offers, offer[x] \in {"none", "incoming"},
         NEW state \in {"active", "closed"}, Offered(x, state)
  PROVE  Kept
<1>1. x \in Creators /\ x \notin Assets /\ x \notin pending
  BY Numbers DEF Account, Creators
<1>2. inv' = inv /\ market' = market BY DEF Offered
<1>3. CASE NewConf(x) /\ offer' = [offer EXCEPT ![x] = "pending"]
  <2>1. /\ pending' = pending \cup {x} /\ pending' \subseteq Creators
        /\ confs' \in Seq(Confirmations) /\ ConfsMatch'
        /\ count' \in [confs : Nat, calls : Nat, events : Nat]
    BY <1>1, <1>3, Confirmed DEF Account
  <2>2. SiteTypes' BY <1>2, <1>3, <2>1 DEF SiteTypes
  <2>3. x \notin inv /\ x \notin ToSet(market)
    <3>1. ToSet(market) \subseteq Assets BY DEF SiteTypes, ToSet
    <3> QED BY <1>1, <3>1 DEF SiteTypes
  <2>4. \A y \in pending' \cap Offers : offer'[y] = "pending"
    BY <1>3, <2>1 DEF SiteTypes, Account
  <2> QED BY <1>2, <2>1, <2>2, <2>3, <2>4 DEF Account, Kept, MarketMoves
<1>4. CASE Unconfirmed /\ offer' = [offer EXCEPT ![x] = state]
  <2>1. pending' = pending /\ confs' = confs /\ count' = count BY <1>4 DEF Unconfirmed
  <2>2. SiteTypes' BY <1>2, <1>4, <2>1 DEF SiteTypes
  <2>3. \A y \in pending' \cap Offers : offer'[y] = "pending"
    BY <1>1, <1>4, <2>1 DEF SiteTypes, Account
  <2> QED BY <1>2, <2>1, <2>2, <2>3 DEF Account, Kept, MarketMoves, ConfsMatch
<1> QED BY <1>3, <1>4 DEF Offered

\* Settling x leaves what is said of the other pending ones.
LEMMA ClosedKeeps ==
  ASSUME SiteTypes, Account, NEW x \in Offers, NEW state \in {"active", "closed"},
         Settle(x), offer' = [offer EXCEPT ![x] = state], UNCHANGED <<inv, market>>
  PROVE  Kept
<1>1. /\ pending' = pending \ {x} /\ pending' \subseteq Creators
      /\ confs' \in Seq(Confirmations) /\ ConfsMatch' /\ count' = count
  BY Settled DEF Account
<1>2. SiteTypes' BY <1>1 DEF SiteTypes
<1>3. \A y \in pending' \cap Offers : offer'[y] = "pending" BY <1>1 DEF SiteTypes, Account
<1> QED BY <1>1, <1>2, <1>3 DEF Account, Kept, MarketMoves

\* A confirmation that is accepted lists its asset, or settles its offer.
LEMMA AcceptKeeps ==
  ASSUME SiteTypes, Account, NEW x \in pending, Accept(x)
  PROVE  Kept
<1>1. CASE x \in Assets
  <2>1. Settle(x) /\ inv' = inv /\ Extends(market, x, market') /\ offer' = offer
    BY <1>1 DEF Accept, Extends
  <2>2. /\ pending' = pending \ {x} /\ pending' \subseteq Creators
        /\ confs' \in Seq(Confirmations) /\ ConfsMatch' /\ count' = count
    BY <2>1, Settled DEF Account
  <2>3. x \notin ToSet(market) /\ x \notin inv BY DEF Account
  <2>4. market' \in Seq(Assets) /\ IsInjective(market') /\ ToSet(market') = ToSet(market) \cup {x}
    <3>1. market \in Seq(Assets) /\ IsInjective(market) BY DEF SiteTypes, Account
    <3> QED BY <1>1, <2>1, <2>3, <3>1, AddedSet
  <2>5. SiteTypes' BY <2>1, <2>2, <2>4 DEF SiteTypes
  <2>6. Account' BY <2>1, <2>2, <2>3, <2>4 DEF Account
  <2> QED BY <1>1, <2>1, <2>3, <2>5, <2>6 DEF Kept, MarketMoves
<1>2. CASE x \notin Assets
  <2>1. x \in Offers BY <1>2 DEF SiteTypes, Creators
  <2>2. \E state \in {"active", "closed"} : offer' = [offer EXCEPT ![x] = state]
    BY <1>2 DEF Accept
  <2>3. Settle(x) /\ UNCHANGED <<inv, market>> BY <1>2 DEF Accept
  <2> QED BY <2>1, <2>2, <2>3, ClosedKeeps
<1> QED BY <1>1, <1>2

\* A confirmation that is rejected gives its asset back, or closes its offer.
LEMMA RejectKeeps ==
  ASSUME SiteTypes, Account, NEW x \in pending, Reject(x)
  PROVE  Kept
<1>1. CASE x \in Assets
  <2>1. Settle(x) /\ inv' = inv \cup {x} /\ market' = market /\ offer' = offer
    BY <1>1 DEF Reject
  <2>2. /\ pending' = pending \ {x} /\ pending' \subseteq Creators
        /\ confs' \in Seq(Confirmations) /\ ConfsMatch' /\ count' = count
    BY <2>1, Settled DEF Account
  <2>3. x \notin ToSet(market) BY DEF Account
  <2>4. SiteTypes' BY <1>1, <2>1, <2>2 DEF SiteTypes
  <2>5. Account' BY <2>1, <2>2, <2>3 DEF Account
  <2> QED BY <2>1, <2>4, <2>5 DEF Kept, MarketMoves
<1>2. CASE x \notin Assets
  <2>1. x \in Offers BY <1>2 DEF SiteTypes, Creators
  <2>2. Settle(x) /\ offer' = [offer EXCEPT ![x] = "closed"] /\ UNCHANGED <<inv, market>>
    BY <1>2 DEF Reject, Closed
  <2> QED BY <2>1, <2>2, ClosedKeeps
<1> QED BY <1>1, <1>2

\* An asset whose listing ends is on the market no longer.
LEMMA UnlistedKeeps ==
  ASSUME SiteTypes, Account, NEW x, Unlisted(x)
  PROVE  /\ market' \in Seq(Assets) /\ IsInjective(market')
         /\ ToSet(market') = ToSet(market) \ {x} /\ MarketMoves(market, market')
<1>1. market \in Seq(Assets) /\ IsInjective(market) BY DEF SiteTypes, Account
<1>2. PICK i \in 1..Len(market) : market[i] = x /\ market' = RemoveAt(market, i)
  BY <1>1 DEF Unlisted
<1>3. market' \in Seq(Assets) BY <1>1, <1>2, Removed
<1>4. IsInjective(market') /\ ToSet(market') = ToSet(market) \ {x} BY <1>1, <1>2, RemovedSet
<1> QED BY <1>2, <1>3, <1>4 DEF MarketMoves

\* What an operation is about.
LEMMA ArgumentKinds ==
  ASSUME NEW op, NEW x \in Arguments(op)
  PROVE  /\ op \in {"SendTradeOffer", "AcceptTradeOffer", "CancelTradeOffer", "DeclineTradeOffer"} => x \in Offers
         /\ op \in {"SellMarketItem", "CancelMarketListing"} => x \in Assets
         /\ x \in Creators \cup {None}
BY DEF Arguments, Confirming, Offers, Creators

\* Whatever an operation does to the account, it leaves the account in order.
LEMMA EffectKeeps ==
  ASSUME SiteTypes, Account, NEW k, k.on \in Arguments(k.op), Effect(k)
  PROVE  Kept
<1>1. CASE k.op = "SendTradeOffer"
  <2>1. k.on \in Offers BY <1>1, ArgumentKinds
  <2>2. offer[k.on] = "none" /\ Offered(k.on, "active") BY <1>1 DEF Effect
  <2> QED BY <2>1, <2>2, OfferedKeeps
<1>2. CASE k.op = "AcceptTradeOffer"
  <2>1. k.on \in Offers BY <1>2, ArgumentKinds
  <2>2. offer[k.on] = "incoming" /\ Offered(k.on, "closed") BY <1>2 DEF Effect
  <2> QED BY <2>1, <2>2, OfferedKeeps
<1>3. CASE k.op \in {"CancelTradeOffer", "DeclineTradeOffer"}
  <2>1. k.on \in Offers BY <1>3, ArgumentKinds
  <2>2. Closed(k.on) BY <1>3 DEF Effect
  <2> QED BY <2>1, <2>2, ClosedKeeps DEF Closed
<1>4. CASE k.op = "SellMarketItem"
  <2>1. PICK x \in inv : inv' = inv \ {x} /\ NewConf(x) /\ market' = market /\ offer' = offer
    BY <1>4 DEF Effect
  <2>2. x \in Creators /\ x \notin pending /\ x \notin ToSet(market) /\ x \notin Offers
    BY Numbers DEF SiteTypes, Account, Creators
  <2>3. /\ pending' = pending \cup {x} /\ pending' \subseteq Creators
        /\ confs' \in Seq(Confirmations) /\ ConfsMatch'
        /\ count' \in [confs : Nat, calls : Nat, events : Nat]
    BY <2>1, <2>2, Confirmed DEF Account
  <2>4. SiteTypes' BY <2>1, <2>3 DEF SiteTypes
  <2>5. Account' BY <2>1, <2>2, <2>3 DEF Account
  <2> QED BY <2>1, <2>4, <2>5 DEF Kept, MarketMoves
<1>5. CASE k.op = "CancelMarketListing"
  <2>1. PICK x : /\ x = k.on /\ x \in ToSet(market) /\ Unlisted(x) /\ inv' = inv \cup {x}
                 /\ Unconfirmed /\ offer' = offer
    BY <1>5 DEF Effect
  <2>2. x \in Assets /\ x \notin pending /\ ToSet(market) \subseteq Assets
    BY <2>1 DEF SiteTypes, Account, ToSet
  <2>3. /\ market' \in Seq(Assets) /\ IsInjective(market')
        /\ ToSet(market') = ToSet(market) \ {x} /\ MarketMoves(market, market')
    BY <2>1, UnlistedKeeps
  <2>4. pending' = pending /\ confs' = confs /\ count' = count BY <2>1 DEF Unconfirmed
  <2>5. SiteTypes' BY <2>1, <2>2, <2>3, <2>4 DEF SiteTypes
  <2>6. Account' BY <2>1, <2>2, <2>3, <2>4 DEF Account, ConfsMatch
  <2> QED BY <2>3, <2>5, <2>6 DEF Kept
<1>6. CASE k.op \in Confirming
  <2>1. k.conf \in ToSet(confs) /\ (Accept(k.conf.creator) \/ Reject(k.conf.creator))
    BY <1>6 DEF Effect, Confirming
  <2>2. k.conf.creator \in pending BY <2>1 DEF Account, ConfsMatch, ToSet, SiteTypes
  <2> QED BY <2>1, <2>2, AcceptKeeps, RejectKeeps
<1>7. CASE k.op \notin Confirming \cup {"SendTradeOffer", "AcceptTradeOffer", "CancelTradeOffer",
                                      "DeclineTradeOffer", "SellMarketItem", "CancelMarketListing"}
  <2>1. UNCHANGED <<site, count>> BY <1>7 DEF Effect, Confirming
  <2> QED BY <2>1 DEF site, Kept, SiteTypes, Account, ConfsMatch, MarketMoves
<1> QED BY <1>1, <1>2, <1>3, <1>4, <1>5, <1>6, <1>7

\* So does whatever happens to it besides.
LEMMA EventKeeps ==
  ASSUME SiteTypes, Account, ListingSold \/ ConfirmationExpires \/ ItemMoves
  PROVE  Kept
<1>0. Event => count' \in [confs : Nat, calls : Nat, events : Nat] BY DEF Event, SiteTypes
<1>1. CASE ListingSold
  <2>1. PICK x : Unlisted(x) BY <1>1 DEF ListingSold
  <2>2. /\ market' \in Seq(Assets) /\ IsInjective(market')
        /\ ToSet(market') = ToSet(market) \ {x} /\ MarketMoves(market, market')
    BY <2>1, UnlistedKeeps
  <2>3. UNCHANGED <<inv, pending, offer, confs>> /\ Event BY <1>1 DEF ListingSold
  <2>4. SiteTypes' BY <1>0, <2>2, <2>3 DEF SiteTypes
  <2>5. Account' BY <2>2, <2>3 DEF Account, ConfsMatch
  <2> QED BY <2>2, <2>4, <2>5 DEF Kept
<1>2. CASE ConfirmationExpires
  <2>1. PICK i \in 1..Len(confs) : confs' = RemoveAt(confs, i)
    BY <1>2 DEF ConfirmationExpires, SiteTypes
  <2>2. UNCHANGED <<inv, market, pending, offer>> /\ Event BY <1>2 DEF ConfirmationExpires
  <2>3. confs' \in Seq(Confirmations) /\ ConfsMatch' BY <2>1, <2>2, ConfRemoved DEF Account
  <2>4. SiteTypes' BY <1>0, <2>2, <2>3 DEF SiteTypes
  <2>5. Account' BY <2>2, <2>3 DEF Account
  <2> QED BY <2>2, <2>4, <2>5 DEF Kept, MarketMoves
<1>3. CASE ItemMoves
  <2>1. UNCHANGED <<market, pending, offer, confs>> /\ Event BY <1>3 DEF ItemMoves
  <2>2. inv' \subseteq Assets /\ inv' \cap ToSet(market) = {} /\ inv' \cap pending = {}
    BY <1>3 DEF ItemMoves, SiteTypes, Account
  <2>3. SiteTypes' BY <1>0, <2>1, <2>2 DEF SiteTypes
  <2>4. Account' BY <2>1, <2>2 DEF Account, ConfsMatch
  <2> QED BY <2>1, <2>3, <2>4 DEF Kept, MarketMoves
<1> QED BY <1>1, <1>2, <1>3

-----------------------------------------------------------------------------
(* What the code makes of an answer.                                       *)

Ways == {"status", "login", "eresult", "mark", "text", "detail", "absent"}

\* The endpoints whose failures go unnoticed in part.
Lenient == (Credulous \ {"BuyItem"}) \cup {"approveTransaction"}

\* Of every other endpoint, each way in which nothing was done is an error.
LEMMA Heeded ==
  ASSUME NEW e \in DOMAIN Endpoint
  PROVE  /\ Endpoint[e].says \subseteq Ways
         /\ e \notin Lenient => Endpoint[e].says \subseteq Endpoint[e].heeds
BY DEF Endpoint, Ways, Lenient, Credulous, Page, Checked, ApiChecked,
  SendTradeOffer, AcceptTradeOffer, CancelTradeOffer, GetConfirmations, respondToConfirmation,
  SellMarketItem, GetInventory, GetMarketListings, CancelMarketListing, GetMyMarketListingIDs,
  GetMyPendingMarketListings, GetMarketPriceOverview, GetFriendsList, AddFriend,
  AcceptFriendRequest, RemoveFriend, BlockUser, UnblockUser, ProfileData, SetPrivacySettings,
  EditProfile, UploadAvatar, ClearAliasHistory, GetTradeOfferURL, initBuyItem,
  approveTransaction, SendGift, SetDisplayLanguages, AddFreeLicense, RemoveLicense, phoneAjaxOp,
  HasPhone, GetWalletBalance, RedeemWalletCode, CreateWallet, GetUserData, GetSteamTime,
  GetTradeOffer, GetTradeOfferWithDescriptions, GetTradeOffers, AddAuthenticator,
  FinalizeAddAuthenticator, GetSchemaItems, GetAssetClassInfo

\* A call makes one exchange or two, each with an endpoint; only a credulous
\* call has one with a lenient endpoint.
LEMMA ExchangeFacts ==
  ASSUME NEW op \in Operations
  PROVE  /\ Len(Exchanges(op)) = IF op \in TwoSteps THEN 2 ELSE 1
         /\ \A i \in 1..Len(Exchanges(op)) : /\ Exchanges(op)[i] \in DOMAIN Endpoint
                                             /\ op \notin Credulous => Exchanges(op)[i] \notin Lenient
<1>1. CASE op \in Confirming
  <2>1. Exchanges(op) = <<"GetConfirmations", "respondToConfirmation">> BY <1>1 DEF Exchanges, Confirming
  <2>2. "GetConfirmations" \in DOMAIN Endpoint \ Lenient /\ "respondToConfirmation" \in DOMAIN Endpoint \ Lenient
    BY DEF Endpoint, Lenient, Credulous
  <2> QED BY <1>1, <2>1, <2>2 DEF TwoSteps
<1>2. CASE op = "BuyItem"
  <2>1. Exchanges(op) = <<"initBuyItem", "approveTransaction">> BY <1>2 DEF Exchanges, Confirming
  <2>2. "initBuyItem" \in DOMAIN Endpoint /\ "approveTransaction" \in DOMAIN Endpoint /\ op \in Credulous
    BY <1>2 DEF Endpoint, Credulous
  <2> QED BY <1>2, <2>1, <2>2 DEF TwoSteps
<1>3. CASE op = "DeclineTradeOffer"
  <2>1. Exchanges(op) = <<"CancelTradeOffer">> /\ op \notin TwoSteps
    BY <1>3 DEF Exchanges, Confirming, TwoSteps
  <2>2. "CancelTradeOffer" \in DOMAIN Endpoint \ Lenient BY DEF Endpoint, Lenient, Credulous
  <2> QED BY <2>1, <2>2
<1>4. CASE op \notin TwoSteps \cup {"DeclineTradeOffer"}
  <2>1. Exchanges(op) = <<op>> BY <1>4 DEF Exchanges, TwoSteps
  <2>2. op \in DOMAIN Endpoint /\ op # "approveTransaction" BY <1>4 DEF Operations, TwoSteps, Confirming
  <2> QED BY <1>4, <2>1, <2>2 DEF Lenient
<1> QED BY <1>1, <1>2, <1>3, <1>4 DEF TwoSteps

\* The page that a listing gets, and the answer of any other call.
LEMMA PageFacts ==
  ASSUME SiteTypes, NEW k \in Calls, NEW page \in Pages(k)
  PROVE  /\ page \in Seq(Nat) /\ More(k, page) \in BOOLEAN
         /\ k.op = "GetInventory" => /\ page \in FirstOf(Beyond(inv, k.cursor))
                                     /\ More(k, page) = (Beyond(inv, k.cursor) # ToSet(page))
         /\ k.op = "GetMarketListings" =>
              /\ \A i \in 1..Len(page) : k.cursor + i \in 1..Len(market) /\ page[i] = market[k.cursor + i]
              /\ More(k, page) = (k.cursor + Len(page) < Len(market))
<1>1. k.cursor \in Nat /\ market \in Seq(Assets) /\ Len(market) \in Nat
  <2>1. k.cursor \in Nat BY DEF Calls
  <2>2. market \in Seq(Assets) BY DEF SiteTypes
  <2> QED BY <2>1, <2>2
<1>2. More(k, page) \in BOOLEAN
  <2>1. More(k, page) = (IF k.op = "GetMarketListings" THEN k.cursor + Len(page) < Len(market)
                                                       ELSE Rest(k) # ToSet(page))
    BY DEF More
  <2>2. CASE k.op = "GetMarketListings" BY <2>1, <2>2
  <2>3. CASE k.op # "GetMarketListings" BY <2>1, <2>3
  <2> QED BY <2>2, <2>3
<1>3. CASE k.op = "GetMarketListings"
  <2>1. PICK to : /\ to = (IF k.cursor + PageSize < Len(market) THEN k.cursor + PageSize ELSE Len(market))
                  /\ page = SubSeq(market, k.cursor + 1, to)
    BY <1>3 DEF Pages
  <2>2. to \in 0..Len(market) BY <1>1, <2>1, Numbers
  <2>3. PICK n \in Nat : n = k.cursor BY <1>1
  <2>4. /\ page \in Seq(Assets) /\ Len(page) = (IF n < to THEN to - n ELSE 0)
        /\ \A i \in 1..(to - n) : page[i] = market[n + i]
    <3>1. PICK s \in Seq(Assets) : s = market BY <1>1
    <3>2. PICK m \in 0..Len(s) : m = to BY <2>2, <3>1
    <3>3. /\ SubSeq(s, n + 1, m) \in Seq(Assets)
          /\ Len(SubSeq(s, n + 1, m)) = (IF n < m THEN m - n ELSE 0)
          /\ \A i \in 1..(m - n) : SubSeq(s, n + 1, m)[i] = s[n + i]
      BY Part
    <3>4. page = SubSeq(s, n + 1, m) BY <2>1, <2>3, <3>1, <3>2
    <3> QED BY <3>1, <3>2, <3>3, <3>4
  <2>5. ASSUME NEW i \in 1..Len(page) PROVE n + i \in 1..Len(market) /\ page[i] = market[n + i]
    <3>1. n < to /\ i \in 1..(to - n) BY <2>2, <2>4
    <3> QED BY <1>1, <2>2, <2>4, <3>1
  <2>6. page \in Seq(Nat)
    <3>1. page \in [1..Len(page) -> Assets] /\ Len(page) \in Nat BY <2>4
    <3>2. page \in [1..Len(page) -> Nat] BY <3>1, Numbers
    <3> QED BY <3>1, <3>2
  <2>7. More(k, page) = (k.cursor + Len(page) < Len(market)) BY <1>3 DEF More
  <2> QED BY <1>2, <1>3, <2>3, <2>5, <2>6, <2>7
<1>4. CASE k.op # "GetMarketListings"
  <2>1. page \in FirstOf(Rest(k)) BY <1>4 DEF Pages
  <2>2. Rest(k) \subseteq Nat BY <1>4, Numbers DEF Rest, SiteTypes
  <2>3. page \in Seq(Nat) BY <2>1, <2>2, FirstOfFacts
  <2>4. k.op = "GetInventory" => Rest(k) = Beyond(inv, k.cursor) BY DEF Rest, Beyond
  <2>5. More(k, page) = (Rest(k) # ToSet(page)) BY <1>4 DEF More
  <2> QED BY <1>2, <1>4, <2>1, <2>3, <2>4, <2>5
<1> QED BY <1>3, <1>4

-----------------------------------------------------------------------------
(* Reading on.                                                             *)

\* w2 is what has become of w when the inventory and the listings have changed.
Watches(items2, listed, listed2, w, w2) ==
  /\ w2.inv = w.inv \cap items2 /\ w2.market \subseteq w.market
  /\ w2.came <=> (w.came \/ ~(ToSet(listed2) \subseteq ToSet(listed)))
  /\ w2.went <=> (w.went \/ ~(ToSet(listed) \subseteq ToSet(listed2)))

\* The numbers of a call.
LEMMA CallNumbers ==
  ASSUME NEW k \in Calls
  PROVE  /\ k.cursor \in Nat /\ k.got \in Seq(Nat) /\ k.page \in Seq(Nat) /\ Len(k.page) \in Nat
         /\ k.op = "GetMarketListings" => Cursor(k) = k.cursor + Len(k.page)
         /\ Cursor(k) \in Nat
<1>1. k.cursor \in Nat /\ k.got \in Seq(Nat) /\ k.page \in Seq(Nat) BY DEF Calls
<1>2. Len(k.page) \in Nat BY <1>1
<1>3. CASE k.op = "GetMarketListings" BY <1>1, <1>2, <1>3 DEF Cursor
<1>4. CASE k.op # "GetMarketListings" /\ k.page = <<>> BY <1>1, <1>2, <1>4 DEF Cursor, None
<1>5. CASE k.op # "GetMarketListings" /\ k.page # <<>>
  <2>1. Cursor(k) = k.page[Len(k.page)] /\ Len(k.page) \in 1..Len(k.page) BY <1>1, <1>2, <1>5 DEF Cursor
  <2>2. k.page[Len(k.page)] \in Nat BY <1>1, <2>1, ElementOfSeq
  <2> QED BY <1>1, <1>2, <1>5, <2>1, <2>2
<1> QED BY <1>3, <1>4, <1>5

\* What a call has read stays so whatever changes.
LEMMA ReadsGoOn ==
  ASSUME NEW listed \in Seq(Assets), IsInjective(listed), NEW listed2, MarketMoves(listed, listed2),
         NEW items, NEW items2, NEW k \in Calls, NEW w, NEW w2,
         Watches(items2, listed, listed2, w, w2), Reads(listed, items, k, w)
  PROVE  Reads(listed2, items2, k, w2)
<1>1. /\ w2.inv \subseteq w.inv /\ w2.inv \subseteq items2 /\ w2.market \subseteq w.market
      /\ w2.came <=> (w.came \/ ~(ToSet(listed2) \subseteq ToSet(listed)))
      /\ w2.went <=> (w.went \/ ~(ToSet(listed) \subseteq ToSet(listed2)))
  BY DEF Watches
<1>2. k.cursor \in Nat /\ Cursor(k) \in Nat BY CallNumbers
<1>3. \A g, n, more : InventoryRead(g, n, more, w) => InventoryRead(g, n, more, w2)
  BY <1>1, InventoryWatched
<1>4. \A g, more : \A n \in Nat :
        ListingsRead(listed, g, n, more, w) => ListingsRead(listed2, g, n, more, w2)
  BY <1>1, ListingsWatched
<1> QED BY <1>1, <1>2, <1>3, <1>4 DEF Reads

\* A page that is answered counts as read.
LEMMA PageRead ==
  ASSUME SiteTypes, Account, NEW k \in Calls, k.at = "sent", NEW w, Reads(market, inv, k, w),
         NEW page \in Pages(k), NEW k2 \in Calls,
         k2.op = k.op, k2.got = k.got, k2.cursor = k.cursor, k2.at = "answered",
         k2.page = page, k2.more = More(k, page)
  PROVE  Reads(market, inv, k2, w)
<1>1. k.cursor \in Nat /\ k.got \in Seq(Nat) BY CallNumbers
<1>2. Gathered(k2) = k.got \o page BY DEF Gathered
<1>3. k2.op \in Listing => w.inv \subseteq inv BY DEF Reads
<1>4. ASSUME k2.op = "GetInventory" PROVE InventoryRead(Gathered(k2), Cursor(k2), k2.more, w)
  <2>1. InventoryRead(k.got, k.cursor, TRUE, w) /\ w.inv \subseteq inv BY <1>4 DEF Reads, Listing
  <2>2. PICK n, rest, end : /\ n \in Nat /\ n = k.cursor
                            /\ rest = Beyond(inv, n) /\ end = End(page)
    BY <1>1
  <2>3. page \in FirstOf(rest) /\ k2.more = (rest # ToSet(page)) BY <1>4, <2>2, PageFacts
  <2>4. Cursor(k2) = end BY <1>4, <2>2 DEF Cursor, End
  <2>5. PICK items \in SUBSET Assets : items = inv BY DEF SiteTypes
  <2>6. InventoryRead(k.got, n, TRUE, w) /\ w.inv \subseteq items /\ rest = Beyond(items, n)
    BY <2>1, <2>2, <2>5
  <2>7. InventoryRead(k.got \o page, end, k2.more, w)
    <3>1. PICK got \in Seq(Nat) : got = k.got BY <1>1
    <3>2. InventoryRead(got, n, TRUE, w) BY <2>6, <3>1
    <3>3. InventoryRead(got \o page, end, k2.more, w)
      BY <2>2, <2>3, <2>6, <3>2, InventoryServed
    <3> QED BY <3>1, <3>3
  <2> QED BY <1>2, <2>3, <2>4, <2>7
<1>5. ASSUME k2.op = "GetMarketListings"
      PROVE  ListingsRead(market, Gathered(k2), Cursor(k2), k2.more, w)
  <2>1. ListingsRead(market, k.got, k.cursor, TRUE, w) BY <1>5 DEF Reads
  <2>2. PICK n \in Nat : n = k.cursor BY <1>1
  <2>3. /\ page \in Seq(Nat)
        /\ \A i \in 1..Len(page) : n + i \in 1..Len(market) /\ page[i] = market[n + i]
        /\ k2.more = (n + Len(page) < Len(market))
    BY <1>5, <2>2, PageFacts
  <2>4. Cursor(k2) = n + Len(page) BY <1>5, <2>2 DEF Cursor
  <2>5. market \in Seq(Assets) /\ IsInjective(market) BY DEF SiteTypes, Account
  <2>6. ListingsRead(market, k.got \o page, n + Len(page), n + Len(page) < Len(market), w)
    <3>1. ListingsRead(market, k.got, n, TRUE, w) BY <2>1, <2>2
    <3> QED BY <1>1, <2>3, <2>5, <3>1, ListingsServed
  <2> QED BY <1>2, <2>3, <2>4, <2>6
<1> QED BY <1>3, <1>4, <1>5 DEF Reads

-----------------------------------------------------------------------------
(* Steps.                                                                  *)

\* A caller that does not move only sees what changes.
LEMMA OthersSound ==
  ASSUME IInv, MarketMoves(market, market'), Watched, NEW d \in Callers, call'[d] = call[d]
  PROVE  Sound(market', inv', call'[d], watch'[d])
<1>1. PICK k \in Calls : k = call[d] /\ call'[d] = k BY DEF IInv, TypeOK
<1>2. PICK w, w2 : w = watch[d] /\ w2 = watch'[d] OBVIOUS
<1>3. Honest(k) /\ Reads(market, inv, k, w) /\ Complete(k, w) BY <1>1, <1>2 DEF IInv, Sound
<1>4. CASE k.op \notin Listing \/ k.at = "idle"
  <2>1. w2 = w BY <1>1, <1>2, <1>4 DEF Watched
  <2>2. Reads(market', inv', k, w2) BY <1>4 DEF Reads, Listing
  <2> QED BY <1>1, <1>2, <1>3, <2>1, <2>2 DEF Sound
<1>5. CASE k.op \in Listing /\ k.at # "idle"
  <2>1. w2 = [inv |-> w.inv \cap inv', market |-> w.market \cap ToSet(market'),
              came |-> w.came \/ ~(ToSet(market') \subseteq ToSet(market)),
              went |-> w.went \/ ~(ToSet(market) \subseteq ToSet(market'))]
    BY <1>1, <1>2, <1>5 DEF Watched
  <2>2. Watches(inv', market, market', w, w2) BY <2>1 DEF Watches
  <2>3. PICK listed \in Seq(Assets) : listed = market /\ IsInjective(listed)
    BY DEF IInv, TypeOK, Account
  <2>4. PICK listed2, items, items2 : listed2 = market' /\ items = inv /\ items2 = inv'
    OBVIOUS
  <2>5. Watches(items2, listed, listed2, w, w2) /\ MarketMoves(listed, listed2) /\ Reads(listed, items, k, w)
    BY <1>3, <2>2, <2>3, <2>4
  <2>6. Reads(listed2, items2, k, w2) BY <2>3, <2>5, ReadsGoOn
  <2>7. Complete(k, w2) BY <1>5 DEF Complete
  <2> QED BY <1>1, <1>2, <1>3, <2>4, <2>6, <2>7 DEF Sound
<1> QED BY <1>4, <1>5

\* What a caller watches stays of its kind.
LEMMA WatchTyped ==
  ASSUME TypeOK, SiteTypes', Watched
  PROVE  watch' \in [Callers -> [inv : SUBSET Assets, market : SUBSET Assets, came : BOOLEAN, went : BOOLEAN]]
<1> DEFINE W == [inv : SUBSET Assets, market : SUBSET Assets, came : BOOLEAN, went : BOOLEAN]
<1>1. ASSUME NEW c \in Callers PROVE watch'[c] \in W
  <2>1. PICK w \in W : w = watch[c] BY DEF TypeOK
  <2>2. CASE call[c].op \notin Listing \/ call[c].at = "idle" BY <2>1, <2>2 DEF Watched
  <2>3. CASE ~(call[c].op \notin Listing \/ call[c].at = "idle")
    <3>1. watch'[c] =
            [inv |-> w.inv \cap inv', market |-> w.market \cap ToSet(market'),
             came |-> w.came \/ ~(ToSet(market') \subseteq ToSet(market)),
             went |-> w.went \/ ~(ToSet(market) \subseteq ToSet(market'))]
      BY <2>1, <2>3 DEF Watched
    <3>2. w.inv \in SUBSET Assets /\ w.market \in SUBSET Assets BY <2>1
    <3> QED BY <3>1, <3>2
  <2> QED BY <2>2, <2>3
<1>2. DOMAIN watch' = Callers /\ watch' = [c \in Callers |-> watch'[c]] BY DEF Watched
<1> QED BY <1>1, <1>2

\* What happens besides keeps the invariant.
LEMMA EventsIInv ==
  ASSUME IInv, ListingSold \/ ConfirmationExpires \/ ItemMoves
  PROVE  IInv'
<1>1. SiteTypes /\ Account BY DEF IInv, TypeOK, SiteTypes
<1>2. SiteTypes' /\ Account' /\ MarketMoves(market, market') BY <1>1, EventKeeps DEF Kept
<1>3. menu' = menu /\ call' = call
  BY DEF ListingSold, ConfirmationExpires, ItemMoves
<1>4. CASE ListingSold \/ ItemMoves
  <2>1. Watched BY <1>4 DEF ListingSold, ItemMoves
  <2>2. \A d \in Callers : Sound(market', inv', call'[d], watch'[d]) BY <1>2, <1>3, <2>1, OthersSound
  <2>3. TypeOK' BY <1>1, <1>2, <1>3, <2>1, WatchTyped DEF IInv, TypeOK, SiteTypes
  <2> QED BY <1>2, <2>2, <2>3 DEF IInv
<1>5. CASE ConfirmationExpires
  <2>1. UNCHANGED <<inv, market, watch>> BY <1>5 DEF ConfirmationExpires
  <2>2. TypeOK' BY <1>2, <1>3, <2>1 DEF IInv, TypeOK, SiteTypes
  <2> QED BY <1>2, <1>3, <2>1, <2>2 DEF IInv
<1> QED BY <1>4, <1>5

\* Only the call of c has changed, to k.
Moves(c, k) == /\ call' = [d \in Callers |-> call'[d]] /\ call'[c] = k
               /\ \A d \in Callers \ {c} : call'[d] = call[d]

\* A call that goes on by itself only has to stay sound itself.
LEMMA CallMoves ==
  ASSUME IInv, NEW c \in Callers, NEW k2 \in Calls, Moves(c, k2),
         UNCHANGED <<menu, site, watch, count>>, Sound(market, inv, k2, watch[c])
  PROVE  IInv'
<1>1. UNCHANGED <<menu, inv, market, pending, offer, confs, watch, count>> BY DEF site
<1>2. call' \in [Callers -> Calls]
  <2>1. \A d \in Callers : call'[d] \in Calls BY DEF Moves, IInv, TypeOK
  <2> QED BY <2>1 DEF Moves
<1>3. TypeOK' BY <1>1, <1>2 DEF IInv, TypeOK
<1>4. Account' BY <1>1 DEF IInv, Account, ConfsMatch
<1>5. ASSUME NEW d \in Callers PROVE Sound(market', inv', call'[d], watch'[d])
  <2>1. CASE d = c BY <1>1, <2>1 DEF Moves
  <2>2. CASE d # c
    <3>1. call'[d] = call[d] BY <2>2 DEF Moves
    <3>2. Sound(market, inv, call[d], watch[d]) BY DEF IInv
    <3> QED BY <1>1, <3>1, <3>2
  <2> QED BY <2>1, <2>2
<1> QED BY <1>3, <1>4, <1>5 DEF IInv

\* A call in flight is at one of its exchanges.
LEMMA AtExchange ==
  ASSUME NEW k \in Calls, Honest(k), k.at # "idle"
  PROVE  /\ k.op \in Operations /\ k.on \in Arguments(k.op)
         /\ k.step \in 1..Len(Exchanges(k.op))
         /\ k.step # Len(Exchanges(k.op)) => k.op \in TwoSteps
         /\ k.op \notin TwoSteps => k.step = 1 /\ Len(Exchanges(k.op)) = 1
         /\ k.op \in TwoSteps => Len(Exchanges(k.op)) = 2
         /\ Endpoint[Exchanges(k.op)[k.step]].says \subseteq Ways
         /\ k.op \notin Credulous =>
              Endpoint[Exchanges(k.op)[k.step]].says \subseteq Endpoint[Exchanges(k.op)[k.step]].heeds
<1>1. k.op \in Operations /\ k.on \in Arguments(k.op) /\ (k.step = 2 => k.op \in TwoSteps)
  BY DEF Honest
<1>2. k.step \in {1, 2} BY DEF Calls
<1>3. Len(Exchanges(k.op)) = IF k.op \in TwoSteps THEN 2 ELSE 1 BY <1>1, ExchangeFacts
<1>4. /\ k.step \in 1..Len(Exchanges(k.op))
      /\ k.step # Len(Exchanges(k.op)) => k.op \in TwoSteps
      /\ k.op \notin TwoSteps => k.step = 1 /\ Len(Exchanges(k.op)) = 1
      /\ k.op \in TwoSteps => Len(Exchanges(k.op)) = 2
  <2>1. CASE k.op \in TwoSteps BY <1>2, <1>3, <2>1
  <2>2. CASE k.op \notin TwoSteps BY <1>1, <1>2, <1>3, <2>2
  <2> QED BY <2>1, <2>2
<1>5. PICK e : e = Exchanges(k.op)[k.step] OBVIOUS
<1>6. e \in DOMAIN Endpoint /\ (k.op \notin Credulous => e \notin Lenient)
  BY <1>1, <1>4, <1>5, ExchangeFacts
<1>7. Endpoint[e].says \subseteq Ways /\ (k.op \notin Credulous => Endpoint[e].says \subseteq Endpoint[e].heeds)
  BY <1>6, Heeded
<1> QED BY <1>1, <1>4, <1>5, <1>7

\* A call that ends is sound, if it has not read pages and does not lie.
LEMMA EndsKeeps ==
  ASSUME IInv, NEW c \in Callers, call[c].at # "idle", NEW how \in {"error", "ok"}, Ends(c, how),
         how = "ok" => call[c].op \notin Listing /\ (call[c].did \/ call[c].op \in Credulous),
         UNCHANGED <<menu, site, watch, count>>
  PROVE  IInv'
<1>1. PICK k \in Calls : k = call[c] BY DEF IInv, TypeOK
<1>2. PICK w : w = watch[c] OBVIOUS
<1>3. Honest(k) BY <1>1 DEF IInv, Sound
<1>4. PICK k2 : k2 = [NoCall EXCEPT !.op = k.op, !.on = k.on, !.ended = how, !.did = k.did, !.conf = k.conf]
  OBVIOUS
<1>5. k2 = [op |-> k.op, on |-> k.on, step |-> 1, at |-> "idle", conf |-> k.conf, list |-> <<>>,
            page |-> <<>>, more |-> FALSE, cursor |-> None, got |-> <<>>, said |-> "", did |-> k.did,
            ended |-> how]
  BY <1>4 DEF NoCall
<1>6. k2 \in Calls
  <2>1. <<>> \in Seq(Confirmations) /\ <<>> \in Seq(Nat) /\ None \in Nat BY DEF None
  <2> QED BY <1>5, <2>1 DEF Calls
<1>7. Honest(k2)
  <2>1. /\ k2.at = "idle" /\ k2.op = k.op /\ k2.on = k.on /\ k2.step = 1 /\ k2.did = k.did
        /\ k2.conf = k.conf /\ k2.ended = how
    BY <1>5
  <2>2. k2.op \in Confirming /\ (k2.step = 2 \/ k2.did) => k2.conf.creator = k2.on
    BY <1>3, <2>1 DEF Honest
  <2>3. k2.ended = "ok" => k2.did \/ k2.op \in Credulous BY <1>1, <2>1
  <2> QED BY <2>1, <2>2, <2>3 DEF Honest
<1>8. Reads(market, inv, k2, w) BY <1>5 DEF Reads
<1>9. Complete(k2, w) BY <1>1, <1>5 DEF Complete, Listing
<1>10. Moves(c, k2)
  <2>1. call' = [call EXCEPT ![c] = k2] BY <1>1, <1>4 DEF Ends
  <2>2. call \in [Callers -> Calls] BY DEF IInv, TypeOK
  <2> QED BY <2>1, <2>2 DEF Moves
<1> QED BY <1>2, <1>6, <1>7, <1>8, <1>9, <1>10, CallMoves DEF Sound

\* An exchange that is refused.
LEMMA RefuseIInv ==
  ASSUME IInv, NEW c \in Callers, Refuse(c)
  PROVE  IInv'
<1>1. PICK k \in Calls : k = call[c] BY DEF IInv, TypeOK
<1>2. PICK w : w = watch[c] OBVIOUS
<1>3. Honest(k) /\ Reads(market, inv, k, w) BY <1>1, <1>2 DEF IInv, Sound
<1>4. k.at = "sent" BY <1>1 DEF Refuse
<1>5. PICK way \in Endpoint[Exchanges(k.op)[k.step]].says : call' = [call EXCEPT
        ![c].at = "answered", ![c].said = way, ![c].did = FALSE,
        ![c].list = <<>>, ![c].page = <<>>, ![c].more = FALSE]
  BY <1>1 DEF Refuse, EndpointOf
<1>6. way \in Ways BY <1>3, <1>4, <1>5, AtExchange
<1>7. PICK k2 : k2 = [k EXCEPT !.at = "answered", !.said = way, !.did = FALSE,
                               !.list = <<>>, !.page = <<>>, !.more = FALSE]
  OBVIOUS
<1>8. /\ k2 \in Calls /\ k2.op = k.op /\ k2.on = k.on /\ k2.step = k.step /\ k2.conf = k.conf
      /\ k2.at = "answered" /\ k2.said = way /\ k2.did = FALSE
  <2>1. <<>> \in Seq(Confirmations) /\ <<>> \in Seq(Nat) OBVIOUS
  <2>2. way \in {"", "done", "status", "login", "eresult", "mark", "text", "detail", "absent"}
    BY <1>6 DEF Ways
  <2> QED BY <1>7, <2>1, <2>2 DEF Calls
<1>9. Moves(c, k2)
  <2>1. call \in [Callers -> Calls] BY DEF IInv, TypeOK
  <2> QED BY <1>1, <1>5, <1>7, <2>1 DEF Moves, Calls
<1>10. Honest(k2)
  <2>1. k2.said # "done" BY <1>6, <1>8 DEF Ways
  <2> QED BY <1>3, <1>4, <1>5, <1>8, <2>1 DEF Honest
<1>11. Reads(market, inv, k2, w)
  <2>1. k2.said # "done" BY <1>6, <1>8 DEF Ways
  <2> QED BY <1>3, <1>4, <1>8, <2>1 DEF Reads
<1>12. Complete(k2, w) BY <1>8 DEF Complete
<1>13. UNCHANGED <<menu, site, watch, count>> BY DEF Refuse
<1> QED BY <1>2, <1>8, <1>9, <1>10, <1>11, <1>12, <1>13, CallMoves DEF Sound

\* A call that gets no answer ends in an error.
LEMMA LoseIInv ==
  ASSUME IInv, NEW c \in Callers, Lose(c)
  PROVE  IInv'
<1>1. /\ call[c].at # "idle" /\ Ends(c, "error") /\ UNCHANGED <<menu, site, watch, count>>
  BY DEF Lose
<1> QED BY <1>1, EndsKeeps

\* An exchange that the site does.
LEMMA ServeIInv ==
  ASSUME IInv, NEW c \in Callers, Serve(c)
  PROVE  IInv'
<1>1. PICK k \in Calls : k = call[c] BY DEF IInv, TypeOK
<1>2. PICK w : w = watch[c] OBVIOUS
<1>3. Honest(k) /\ Reads(market, inv, k, w) BY <1>1, <1>2 DEF IInv, Sound
<1>4. k.at = "sent" /\ Watched /\ menu' = menu BY <1>1 DEF Serve
<1>5. SiteTypes /\ Account BY DEF IInv, TypeOK, SiteTypes
<1>6. Kept
  <2>1. CASE Final(c)
    <3>1. Effect(k) BY <1>1, <2>1 DEF Serve
    <3>2. k.on \in Arguments(k.op) BY <1>3, <1>4, AtExchange
    <3> QED BY <1>5, <3>1, <3>2, EffectKeeps
  <2>2. CASE ~Final(c)
    <3>1. UNCHANGED <<inv, market, pending, offer, confs, count>> BY <2>2 DEF Serve, site
    <3> QED BY <1>5, <3>1 DEF Kept, SiteTypes, Account, ConfsMatch, MarketMoves
  <2> QED BY <2>1, <2>2
<1>7. SiteTypes' /\ Account' /\ MarketMoves(market, market') BY <1>6 DEF Kept
<1>8. PICK did \in BOOLEAN : did = Final(c) BY DEF Final
<1>9. PICK list \in Seq(Confirmations) : list = IF Final(c) THEN <<>> ELSE confs
  <2>1. <<>> \in Seq(Confirmations) /\ confs \in Seq(Confirmations) BY <1>5 DEF SiteTypes
  <2> QED BY <2>1
<1>10. PICK page \in Pages(k) : call' = [call EXCEPT
        ![c].at = "answered", ![c].said = "done", ![c].did = did,
        ![c].list = list, ![c].page = page, ![c].more = More(k, page)]
  BY <1>1, <1>8, <1>9 DEF Serve
<1>11. PICK more : more = More(k, page) OBVIOUS
<1>12. page \in Seq(Nat) /\ more \in BOOLEAN BY <1>5, <1>11, PageFacts
<1>13. PICK k2 : k2 = [k EXCEPT !.at = "answered", !.said = "done", !.did = did,
                                !.list = list, !.page = page, !.more = more]
  OBVIOUS
<1>14. /\ k2 \in Calls /\ k2.op = k.op /\ k2.on = k.on /\ k2.step = k.step /\ k2.conf = k.conf
       /\ k2.at = "answered" /\ k2.said = "done" /\ k2.did = did
       /\ k2.got = k.got /\ k2.cursor = k.cursor /\ k2.page = page /\ k2.more = more
  BY <1>12, <1>13 DEF Calls
<1>15. Moves(c, k2)
  <2>1. call \in [Callers -> Calls] BY DEF IInv, TypeOK
  <2> QED BY <1>1, <1>10, <1>11, <1>13, <2>1 DEF Moves, Calls
<1>16. did <=> k.step = Len(Exchanges(k.op)) BY <1>1, <1>8 DEF Final
<1>17. Honest(k2)
  <2>1. k.op \in Confirming /\ did => k.step = 2
    <3>1. k.op \in TwoSteps => Len(Exchanges(k.op)) = 2 BY <1>3, <1>4, AtExchange
    <3> QED BY <1>16, <3>1 DEF TwoSteps
  <2> QED BY <1>3, <1>4, <1>14, <1>16, <2>1 DEF Honest
<1>18. Reads(market, inv, k2, w)
  BY <1>3, <1>4, <1>5, <1>11, <1>14, PageRead
<1>19. Sound(market', inv', k2, watch'[c])
  <2>1. PICK w2 : w2 = watch'[c] OBVIOUS
  <2>2. Complete(k2, w2) BY <1>14 DEF Complete
  <2>3. CASE k.op \notin Listing
    <3>1. Reads(market', inv', k2, w2) BY <1>14, <2>3 DEF Reads, Listing
    <3> QED BY <1>17, <2>1, <2>2, <3>1 DEF Sound
  <2>4. CASE k.op \in Listing
    <3>1. w2 = [inv |-> w.inv \cap inv', market |-> w.market \cap ToSet(market'),
                came |-> w.came \/ ~(ToSet(market') \subseteq ToSet(market)),
                went |-> w.went \/ ~(ToSet(market) \subseteq ToSet(market'))]
      BY <1>1, <1>2, <1>4, <2>1, <2>4 DEF Watched
    <3>2. Watches(inv', market, market', w, w2) BY <3>1 DEF Watches
    <3>3. PICK listed \in Seq(Assets) : listed = market /\ IsInjective(listed)
      BY <1>5 DEF SiteTypes, Account
    <3>4. PICK listed2, items, items2 : listed2 = market' /\ items = inv /\ items2 = inv'
      OBVIOUS
    <3>5. Watches(items2, listed, listed2, w, w2) /\ MarketMoves(listed, listed2) /\ Reads(listed, items, k2, w)
      BY <1>7, <1>18, <3>2, <3>3, <3>4
    <3>6. Reads(listed2, items2, k2, w2) BY <1>14, <3>3, <3>5, ReadsGoOn
    <3> QED BY <1>17, <2>1, <2>2, <3>4, <3>6 DEF Sound
  <2> QED BY <2>3, <2>4
<1>20. \A d \in Callers : Sound(market', inv', call'[d], watch'[d])
  <2> SUFFICES ASSUME NEW d \in Callers PROVE Sound(market', inv', call'[d], watch'[d])
    OBVIOUS
  <2>1. CASE d = c BY <1>15, <1>19, <2>1 DEF Moves
  <2>2. CASE d # c
    <3>1. call'[d] = call[d] BY <1>15, <2>2 DEF Moves
    <3> QED BY <1>4, <1>7, <3>1, OthersSound
  <2> QED BY <2>1, <2>2
<1>21. TypeOK'
  <2>1. call' \in [Callers -> Calls]
    <3>1. \A d \in Callers : call'[d] \in Calls BY <1>14, <1>15 DEF Moves, IInv, TypeOK
    <3> QED BY <1>15, <3>1 DEF Moves
  <2>2. watch' \in [Callers -> [inv : SUBSET Assets, market : SUBSET Assets, came : BOOLEAN, went : BOOLEAN]]
    BY <1>4, <1>7, WatchTyped DEF IInv
  <2> QED BY <1>4, <1>7, <2>1, <2>2 DEF IInv, TypeOK, SiteTypes
<1> QED BY <1>7, <1>20, <1>21 DEF IInv

\* What is known when a call has succeeded.
LEMMA Succeeds ==
  ASSUME NEW k \in Calls, Honest(k), k.at = "answered",
         k.said \notin Endpoint[Exchanges(k.op)[k.step]].heeds, k.step = Len(Exchanges(k.op))
  PROVE  /\ k.did \/ k.op \in Credulous
         /\ k.op \notin Credulous => k.said = "done"
<1>1. k.op \notin Credulous =>
        Endpoint[Exchanges(k.op)[k.step]].says \subseteq Endpoint[Exchanges(k.op)[k.step]].heeds
  BY AtExchange
<1>2. k.said = "done" \/ k.said \in Endpoint[Exchanges(k.op)[k.step]].says BY DEF Honest
<1>3. k.op \notin Credulous => k.said = "done" BY <1>1, <1>2
<1>4. k.said = "done" => k.did BY DEF Honest
<1> QED BY <1>3, <1>4

\* The next exchange of a call that makes two.
LEMMA SecondStep ==
  ASSUME IInv, NEW c \in Callers, NEW k \in Calls, k = call[c], k.at = "answered",
         NEW k2 \in Calls, Moves(c, k2), k2.op = k.op, k2.on = k.on, k2.at = "sent", k2.step = 2,
         k.op \in TwoSteps, k.op \in Confirming => k2.conf.creator = k.on,
         UNCHANGED <<menu, site, watch, count>>
  PROVE  IInv'
<1>1. Honest(k) BY DEF IInv, Sound
<1>2. Honest(k2) BY <1>1 DEF Honest
<1>3. k2.op \notin Listing BY DEF TwoSteps, Confirming, Listing
<1>4. PICK w : w = watch[c] OBVIOUS
<1>5. Reads(market, inv, k2, w) BY <1>3 DEF Reads, Listing
<1>6. Complete(k2, w) BY DEF Complete
<1> QED BY <1>2, <1>4, <1>5, <1>6, CallMoves DEF Sound

\* A page that the code takes.
LEMMA ReadIInv ==
  ASSUME IInv, NEW c \in Callers, call[c].at = "answered", call[c].op \in Listing,
         call[c].said \notin EndpointOf(c).heeds, Read(c), UNCHANGED <<menu, site, watch, count>>
  PROVE  IInv'
<1>1. PICK k \in Calls : k = call[c] BY DEF IInv, TypeOK
<1>2. PICK w : w = watch[c] OBVIOUS
<1>3. Honest(k) /\ Reads(market, inv, k, w) BY <1>1, <1>2 DEF IInv, Sound
<1>4. k.at = "answered" /\ k.op \in Listing BY <1>1
<1>5. k.said \notin Endpoint[Exchanges(k.op)[k.step]].heeds BY <1>1 DEF EndpointOf
<1>6. k.op \notin TwoSteps BY <1>4 DEF TwoSteps, Listing, Confirming
<1>7. k.step = 1 /\ k.step = Len(Exchanges(k.op)) BY <1>3, <1>4, <1>6, AtExchange
<1>8. (k.did \/ k.op \in Credulous) /\ (k.op \notin Credulous => k.said = "done")
  BY <1>3, <1>4, <1>5, <1>7, Succeeds
<1>9. PICK got, cursor, at, ended :
        /\ got = Gathered(k) /\ cursor = Cursor(k)
        /\ at = (IF k.more THEN "sent" ELSE "idle") /\ ended = (IF k.more THEN "none" ELSE "ok")
  OBVIOUS
<1>10. got \in Seq(Nat) /\ cursor \in Nat
  <2>1. k.got \in Seq(Nat) /\ k.page \in Seq(Nat) /\ cursor \in Nat BY <1>9, CallNumbers
  <2> QED BY <1>9, <2>1 DEF Gathered
<1>11. k.more \in BOOLEAN BY DEF Calls
<1>12. PICK k2 : k2 = [k EXCEPT !.got = got, !.cursor = cursor, !.at = at, !.ended = ended,
                                !.page = <<>>, !.more = FALSE, !.said = ""]
  OBVIOUS
<1>13. /\ k2 \in Calls /\ k2.op = k.op /\ k2.on = k.on /\ k2.step = k.step /\ k2.did = k.did
       /\ k2.got = got /\ k2.cursor = cursor /\ k2.at = at /\ k2.ended = ended /\ k2.said = ""
  <2>1. at \in {"idle", "sent", "answered"} /\ ended \in {"none", "ok", "error"} BY <1>9
  <2>2. <<>> \in Seq(Nat) OBVIOUS
  <2> QED BY <1>10, <1>12, <2>1, <2>2 DEF Calls
<1>14. call' = [call EXCEPT ![c] = k2]
  <2>1. call' = [call EXCEPT ![c] =
          [[k EXCEPT !.got = Gathered(k), !.cursor = Cursor(k)]
            EXCEPT !.at = IF k.more THEN "sent" ELSE "idle", !.ended = IF k.more THEN "none" ELSE "ok",
                   !.page = <<>>, !.more = FALSE, !.said = ""]]
    <3>1. [k EXCEPT !.got = Gathered(k), !.cursor = Cursor(k)].more = k.more BY DEF Calls
    <3> QED BY <1>1, <3>1 DEF Read
  <2> QED BY <1>9, <1>12, <2>1
<1>15. Moves(c, k2)
  <2>1. call \in [Callers -> Calls] BY DEF IInv, TypeOK
  <2> QED BY <1>14, <2>1 DEF Moves
<1>16. Honest(k2)
  <2>1. at # "answered" BY <1>9
  <2>2. k2.op \notin Confirming BY <1>4, <1>13 DEF Listing, Confirming
  <2>3. k.op \in Operations /\ k.on \in Arguments(k.op) BY <1>3, <1>4, AtExchange
  <2>4. k2.at # "answered" /\ k2.op \in Operations /\ k2.on \in Arguments(k2.op) BY <1>13, <2>1, <2>3
  <2>5. k2.step # 2
    <3>1. k.step = 1 BY <1>7, Zenon
    <3>2. k2.step = k.step BY <1>13, Zenon
    <3> QED BY <3>1, <3>2
  <2>6. k2.did \/ k2.op \in Credulous BY <1>8, <1>13
  <2> QED BY <2>2, <2>4, <2>5, <2>6 DEF Honest
<1>17. /\ k.op # "GetSchemaItems" => k.op \notin Credulous
       /\ k.op \in {"GetInventory", "GetMarketListings"} => k.said = "done"
  BY <1>4, <1>8 DEF Listing, Credulous
<1>18. CASE k.more
  <2>1. at = "sent" BY <1>9, <1>18
  <2>2. k.op = "GetInventory" => InventoryRead(got, cursor, TRUE, w)
    <3>1. k.op = "GetInventory" => InventoryRead(got, cursor, k.more, w)
      BY <1>3, <1>4, <1>9, <1>17 DEF Reads
    <3> QED BY <1>18, <3>1 DEF InventoryRead
  <2>3. k.op = "GetMarketListings" => ListingsRead(market, got, cursor, TRUE, w)
    <3>1. k.op = "GetMarketListings" => ListingsRead(market, got, cursor, k.more, w)
      BY <1>3, <1>4, <1>9, <1>17 DEF Reads
    <3> QED BY <1>18, <3>1 DEF ListingsRead
  <2>4. w.inv \subseteq inv BY <1>3, <1>4 DEF Reads
  <2>5. Reads(market, inv, k2, w) BY <1>13, <2>1, <2>2, <2>3, <2>4 DEF Reads
  <2>6. Complete(k2, w) BY <1>13, <2>1 DEF Complete
  <2> QED BY <1>2, <1>13, <1>15, <1>16, <2>5, <2>6, CallMoves DEF Sound
<1>19. CASE ~k.more
  <2>1. at = "idle" BY <1>9, <1>19
  <2>2. k.op = "GetInventory" => Ascending(got) /\ w.inv \subseteq ToSet(got)
    <3>1. k.op = "GetInventory" => InventoryRead(got, cursor, k.more, w)
      BY <1>3, <1>4, <1>9, <1>17 DEF Reads
    <3> QED BY <1>19, <3>1 DEF InventoryRead
  <2>3. k.op = "GetMarketListings" =>
          (w.went \/ w.market \subseteq ToSet(got)) /\ (w.came \/ IsInjective(got))
    <3>1. k.op = "GetMarketListings" => ListingsRead(market, got, cursor, k.more, w)
      BY <1>3, <1>4, <1>9, <1>17 DEF Reads
    <3> QED BY <1>19, <3>1 DEF ListingsRead
  <2>4. Reads(market, inv, k2, w) BY <1>13, <2>1 DEF Reads
  <2>5. Complete(k2, w) BY <1>13, <2>2, <2>3 DEF Complete
  <2> QED BY <1>2, <1>13, <1>15, <1>16, <2>4, <2>5, CallMoves DEF Sound
<1> QED BY <1>18, <1>19

\* An answer that the code looks at.
LEMMA DeliverIInv ==
  ASSUME IInv, NEW c \in Callers, Deliver(c)
  PROVE  IInv'
<1>1. PICK k \in Calls : k = call[c] BY DEF IInv, TypeOK
<1>2. Honest(k) BY <1>1 DEF IInv, Sound
<1>3. k.at = "answered" /\ call[c].at # "idle" /\ UNCHANGED <<menu, site, watch, count>>
  BY <1>1 DEF Deliver
<1>4. call \in [Callers -> Calls] BY DEF IInv, TypeOK
<1>5. CASE call[c].said \in EndpointOf(c).heeds
  <2>1. Ends(c, "error") BY <1>5 DEF Deliver, Fails
  <2> QED BY <1>3, <2>1, EndsKeeps
<1>6. CASE call[c].said \notin EndpointOf(c).heeds /\ call[c].op \in Listing
  <2>1. Read(c) BY <1>6 DEF Deliver
  <2> QED BY <1>1, <1>3, <1>6, <2>1, ReadIInv
<1>7. CASE call[c].said \notin EndpointOf(c).heeds /\ call[c].op \notin Listing /\ Final(c)
  <2>1. Ends(c, "ok") BY <1>7 DEF Deliver
  <2>2. k.step = Len(Exchanges(k.op)) /\ k.said \notin Endpoint[Exchanges(k.op)[k.step]].heeds
    BY <1>1, <1>7 DEF Final, EndpointOf
  <2>3. k.did \/ k.op \in Credulous BY <1>2, <1>3, <2>2, Succeeds
  <2> QED BY <1>1, <1>3, <1>7, <2>1, <2>3, EndsKeeps
<1>8. CASE /\ call[c].said \notin EndpointOf(c).heeds /\ call[c].op \notin Listing /\ ~Final(c)
           /\ call[c].op = "BuyItem"
  <2>1. call' = [call EXCEPT ![c].at = "sent", ![c].step = 2] BY <1>8 DEF Deliver
  <2>2. PICK k2 : k2 = [k EXCEPT !.at = "sent", !.step = 2] OBVIOUS
  <2>3. k2 \in Calls /\ k2.op = k.op /\ k2.on = k.on /\ k2.at = "sent" /\ k2.step = 2
    BY <2>2 DEF Calls
  <2>4. Moves(c, k2) BY <1>1, <1>4, <2>1, <2>2 DEF Moves, Calls
  <2>5. k.op \in TwoSteps /\ k.op \notin Confirming BY <1>1, <1>8 DEF TwoSteps, Confirming
  <2> QED BY <1>1, <1>3, <2>3, <2>4, <2>5, SecondStep
<1>9. CASE /\ call[c].said \notin EndpointOf(c).heeds /\ call[c].op \notin Listing /\ ~Final(c)
           /\ call[c].op # "BuyItem"
  <2>1. FindConfirmation(c) BY <1>9 DEF Deliver
  <2>2. CASE Ends(c, "error") BY <1>3, <2>2, EndsKeeps
  <2>3. CASE ~Ends(c, "error")
    <3>1. PICK i \in DOMAIN k.list :
            /\ Matches(k.list[i], k.on)
            /\ call' = [call EXCEPT ![c].at = "sent", ![c].step = 2, ![c].conf = k.list[i]]
      BY <1>1, <2>1, <2>3 DEF FindConfirmation
    <3>2. k.list \in Seq(Confirmations) BY DEF Calls
    <3>3. PICK f \in Confirmations : f = k.list[i] BY <3>1, <3>2, ElementOfSeq
    <3>4. PICK k2 : k2 = [k EXCEPT !.at = "sent", !.step = 2, !.conf = f] OBVIOUS
    <3>5. /\ k2 \in Calls /\ k2.op = k.op /\ k2.on = k.on /\ k2.at = "sent" /\ k2.step = 2
          /\ k2.conf = f
      BY <3>4 DEF Calls
    <3>6. Moves(c, k2) BY <1>1, <1>4, <3>1, <3>3, <3>4 DEF Moves, Calls
    <3>7. k.op \in TwoSteps
      <4>1. k.step # Len(Exchanges(k.op)) BY <1>1, <1>9 DEF Final
      <4> QED BY <1>2, <1>3, <4>1, AtExchange
    <3>8. f.creator = k.on BY <3>1, <3>3 DEF Matches
    <3> QED BY <1>1, <1>3, <3>5, <3>6, <3>7, <3>8, SecondStep
  <2> QED BY <2>2, <2>3
<1> QED BY <1>5, <1>6, <1>7, <1>8, <1>9

\* A new call has read nothing, and everything is ahead of it.
LEMMA NothingRead ==
  ASSUME NEW listed \in Seq(Assets), NEW items \in SUBSET Assets,
         NEW w, w.inv = items, w.market = ToSet(listed)
  PROVE  InventoryRead(<<>>, None, TRUE, w) /\ ListingsRead(listed, <<>>, None, TRUE, w)
<1>1. DOMAIN listed = 1..Len(listed) /\ Len(listed) \in Nat OBVIOUS
<1>a. <<>> \in Seq(Nat) OBVIOUS
<1>2. PICK e \in Seq(Nat) : e = <<>> BY <1>a
<1>3. Len(e) = 0 /\ DOMAIN e = {}
  <2>1. Len(e) = 0 BY <1>2
  <2> QED BY <2>1
<1>4. Ascending(e) /\ IsInjective(e) BY <1>3 DEF Ascending, IsInjective
<1>5. 1..Len(e) = {} BY <1>3
<1>6. \A a \in items : a > None BY DEF Assets, None
<1>7. \A a \in ToSet(listed) : Ahead(listed, a, None)
  <2> SUFFICES ASSUME NEW i \in 1..Len(listed) PROVE Ahead(listed, listed[i], None)
    BY <1>1 DEF ToSet
  <2>1. i > None BY DEF None
  <2> QED BY <2>1 DEF Ahead
<1>8. InventoryRead(e, None, TRUE, w) BY <1>4, <1>5, <1>6 DEF InventoryRead
<1>9. ListingsRead(listed, e, None, TRUE, w) BY <1>4, <1>5, <1>7 DEF ListingsRead
<1> QED BY <1>2, <1>8, <1>9

\* A call begins.
LEMMA BeginIInv ==
  ASSUME IInv, NEW c \in Callers, Begin(c)
  PROVE  IInv'
<1>1. PICK op \in menu : \E x \in Arguments(op) :
        call' = [call EXCEPT ![c] = [NoCall EXCEPT !.op = op, !.on = x, !.at = "sent"]]
  BY DEF Begin
<1>2. PICK x \in Arguments(op) :
        call' = [call EXCEPT ![c] = [NoCall EXCEPT !.op = op, !.on = x, !.at = "sent"]]
  BY <1>1
<1>3. op \in Operations /\ x \in Creators \cup {None} BY ArgumentKinds DEF IInv, TypeOK
<1>4. PICK k : k = [NoCall EXCEPT !.op = op, !.on = x, !.at = "sent"] OBVIOUS
<1>5. k = [op |-> op, on |-> x, step |-> 1, at |-> "sent", conf |-> NoConf, list |-> <<>>,
           page |-> <<>>, more |-> FALSE, cursor |-> None, got |-> <<>>, said |-> "", did |-> FALSE,
           ended |-> "none"]
  BY <1>4 DEF NoCall
<1>6. k \in Calls
  <2>1. <<>> \in Seq(Confirmations) /\ <<>> \in Seq(Nat) /\ None \in Nat BY DEF None
  <2>2. NoConf \in Confirmations BY DEF NoConf, None, Confirmations
  <2> QED BY <1>3, <1>5, <2>1, <2>2 DEF Calls
<1>7. call \in [Callers -> Calls] /\ watch \in [Callers -> [inv : SUBSET Assets, market : SUBSET Assets,
                                                          came : BOOLEAN, went : BOOLEAN]]
      /\ market \in Seq(Assets) /\ inv \subseteq Assets
  BY DEF IInv, TypeOK
<1>8. Moves(c, k) BY <1>2, <1>4, <1>7 DEF Moves
<1>9. PICK w : w = IF op \in Listing
        THEN [inv |-> inv, market |-> ToSet(market), came |-> FALSE, went |-> FALSE] ELSE Unwatched
  OBVIOUS
<1>10. watch' = [watch EXCEPT ![c] = w]
  <2>1. k.op = op BY <1>5
  <2>2. call'[c] = k BY <1>8 DEF Moves
  <2>3. call'[c].op = op BY <2>1, <2>2
  <2> QED BY <1>9, <2>3 DEF Begin
<1>11. w \in [inv : SUBSET Assets, market : SUBSET Assets, came : BOOLEAN, went : BOOLEAN]
  <2>1. ToSet(market) \subseteq Assets BY <1>7 DEF ToSet
  <2> QED BY <1>7, <1>9, <2>1 DEF Unwatched
<1>12. UNCHANGED <<menu, inv, market, pending, offer, confs>> BY DEF Begin, site
<1>13. count' \in [confs : Nat, calls : Nat, events : Nat]
  <2>1. count' = [count EXCEPT !.calls = @ + 1] BY DEF Begin
  <2>2. count \in [confs : Nat, calls : Nat, events : Nat] BY DEF IInv, TypeOK
  <2> QED BY <2>1, <2>2
<1>14. TypeOK'
  <2>1. call' \in [Callers -> Calls] BY <1>2, <1>4, <1>6, <1>7
  <2>2. watch' \in [Callers -> [inv : SUBSET Assets, market : SUBSET Assets, came : BOOLEAN, went : BOOLEAN]]
    BY <1>7, <1>10, <1>11
  <2> QED BY <1>12, <1>13, <2>1, <2>2 DEF IInv, TypeOK
<1>15. Account' BY <1>12 DEF IInv, Account, ConfsMatch
<1>16. Honest(k)
  <2>1. k.at = "sent" /\ k.op = op /\ k.on = x /\ k.did = FALSE BY <1>5
  <2>2. k.step # 2
    <3>1. k.step = 1 BY <1>5
    <3> QED BY <3>1
  <2> QED BY <1>3, <2>1, <2>2 DEF Honest
<1>17. Reads(market, inv, k, w)
  <2>1. k.op = op /\ k.at = "sent" /\ k.got = <<>> /\ k.cursor = None BY <1>5
  <2>2. CASE op \in Listing
    <3>1. w.inv = inv /\ w.market = ToSet(market) BY <1>9, <2>2
    <3>2. PICK listed \in Seq(Assets), items \in SUBSET Assets : listed = market /\ items = inv BY <1>7
    <3>3. InventoryRead(<<>>, None, TRUE, w) /\ ListingsRead(market, <<>>, None, TRUE, w)
      BY <3>1, <3>2, NothingRead
    <3> QED BY <2>1, <3>1, <3>3 DEF Reads
  <2>3. CASE op \notin Listing BY <2>1, <2>3 DEF Reads, Listing
  <2> QED BY <2>2, <2>3
<1>18. Complete(k, w) BY <1>5 DEF Complete
<1>19. ASSUME NEW d \in Callers PROVE Sound(market', inv', call'[d], watch'[d])
  <2>1. CASE d = c
    <3>1. call'[d] = k /\ watch'[d] = w BY <1>7, <1>8, <1>10, <2>1 DEF Moves
    <3> QED BY <1>12, <1>16, <1>17, <1>18, <3>1 DEF Sound
  <2>2. CASE d # c
    <3>1. call'[d] = call[d] /\ watch'[d] = watch[d] BY <1>7, <1>8, <1>10, <2>2 DEF Moves
    <3>2. Sound(market, inv, call[d], watch[d]) BY DEF IInv
    <3> QED BY <1>12, <3>1, <3>2
  <2> QED BY <2>1, <2>2
<1> QED BY <1>14, <1>15, <1>19 DEF IInv

\* At the start nobody has called, and what waits has its confirmation.
LEMMA InitIInv == Init => IInv
<1> SUFFICES ASSUME Init PROVE IInv
  OBVIOUS
<1>1. PICK n \in Scenarios : /\ menu = n.menu /\ market = n.market /\ pending = ToSet(n.waiting)
                             /\ inv = Assets \ (ToSet(market) \cup pending \cup n.away)
                             /\ confs = [i \in DOMAIN n.waiting |-> [id |-> None, creator |-> n.waiting[i]]]
  BY DEF Init
<1>2. PICK waiting : waiting = n.waiting OBVIOUS
<1>3. /\ menu \subseteq Operations /\ market \in Seq(Assets) /\ IsInjective(market)
      /\ waiting \in Seq(Creators) /\ IsInjective(waiting)
      /\ pending = ToSet(waiting) /\ ToSet(market) \cap pending = {}
      /\ inv = Assets \ (ToSet(market) \cup pending \cup n.away)
      /\ confs = [i \in DOMAIN waiting |-> [id |-> None, creator |-> waiting[i]]]
  <2>1. /\ n.menu \subseteq Operations /\ n.market \in Seq(Assets) /\ IsInjective(n.market)
        /\ n.waiting \in Seq(Creators) /\ IsInjective(n.waiting)
        /\ ToSet(n.market) \cap ToSet(n.waiting) = {}
    BY TradingAssumption
  <2> QED BY <1>1, <1>2, <2>1
<1>4. PICK m \in Nat : m = Len(waiting) /\ DOMAIN waiting = 1..m /\ \A i \in 1..m : waiting[i] \in Creators
  <2>1. Len(waiting) \in Nat /\ DOMAIN waiting = 1..Len(waiting) BY <1>3
  <2> QED BY <1>3, <2>1, ElementOfSeq
<1>5. /\ confs = [i \in 1..m |-> [id |-> None, creator |-> waiting[i]]]
      /\ confs \in Seq(Confirmations) /\ Len(confs) = m
  <2>1. confs = [i \in 1..m |-> [id |-> None, creator |-> waiting[i]]] BY <1>3, <1>4
  <2>2. \A i \in 1..m : [id |-> None, creator |-> waiting[i]] \in Confirmations
    BY <1>4 DEF Confirmations, None
  <2>3. confs \in [1..m -> Confirmations] BY <2>1, <2>2
  <2> QED BY <2>1, <2>3
<1>6. ConfsMatch
  <2>1. \A i \in 1..m : confs[i].creator = waiting[i] BY <1>5
  <2>2. \A i \in 1..m : waiting[i] \in pending BY <1>3, <1>4 DEF ToSet
  <2>3. \A i, j \in 1..m : waiting[i] = waiting[j] => i = j BY <1>3, <1>4 DEF IsInjective
  <2> QED BY <1>5, <2>1, <2>2, <2>3 DEF ConfsMatch
<1>7. pending \subseteq Creators BY <1>3, <1>4 DEF ToSet
<1>8. inv \subseteq Assets /\ inv \cap ToSet(market) = {} /\ pending \cap (inv \cup ToSet(market)) = {}
  BY <1>3
<1>9. /\ offer \in [Offers -> {"none", "incoming", "pending", "active", "closed"}]
      /\ \A x \in pending \cap Offers : offer[x] = "pending"
  BY DEF Init
<1>10. NoCall \in Calls
  <2>1. <<>> \in Seq(Confirmations) /\ <<>> \in Seq(Nat) BY Zenon, EmptySeq
  <2>2. NoConf \in Confirmations BY DEF NoConf, None, Confirmations
  <2> QED BY <2>1, <2>2 DEF NoCall, Calls, None
<1>11. call = [c \in Callers |-> NoCall] /\ watch = [c \in Callers |-> Unwatched]
       /\ count = [confs |-> 0, calls |-> 0, events |-> 0]
  BY DEF Init
<1>12. watch \in [Callers -> [inv : SUBSET Assets, market : SUBSET Assets, came : BOOLEAN, went : BOOLEAN]]
  <2>1. Unwatched \in [inv : SUBSET Assets, market : SUBSET Assets, came : BOOLEAN, went : BOOLEAN]
    BY DEF Unwatched
  <2> QED BY <1>11, <2>1
<1>13. TypeOK
  BY <1>3, <1>5, <1>7, <1>8, <1>9, <1>10, <1>11, <1>12 DEF TypeOK
<1>14. Account BY <1>3, <1>6, <1>8, <1>9 DEF Account
<1>15. ASSUME NEW c \in Callers PROVE Sound(market, inv, call[c], watch[c])
  <2>1. PICK k : k = call[c] /\ k = NoCall BY <1>11
  <2>2. k.op = "none" /\ k.at = "idle" /\ k.ended = "none"
    <3>1. NoCall.op = "none" /\ NoCall.at = "idle" /\ NoCall.ended = "none" BY DEF NoCall
    <3> QED BY <2>1, <3>1
  <2>3. Honest(k) BY <2>2 DEF Honest, Confirming
  <2>4. Reads(market, inv, k, watch[c]) BY <2>2 DEF Reads
  <2>5. Complete(k, watch[c]) BY <2>2 DEF Complete
  <2> QED BY <2>1, <2>3, <2>4, <2>5 DEF Sound
<1> QED BY <1>13, <1>14, <1>15 DEF IInv

\* Every step keeps the invariant.
LEMMA NextIInv == IInv /\ [Next]_vars => IInv'
<1> SUFFICES ASSUME IInv, [Next]_vars PROVE IInv'
  OBVIOUS
<1>1. ASSUME NEW c \in Callers, Begin(c) \/ Proceeds(c) PROVE IInv'
  <2>1. CASE Begin(c) BY <2>1, BeginIInv
  <2>2. CASE Lose(c) BY <2>2, LoseIInv
  <2>3. CASE Refuse(c) BY <2>3, RefuseIInv
  <2>4. CASE Serve(c) BY <2>4, ServeIInv
  <2>5. CASE Deliver(c) BY <2>5, DeliverIInv
  <2> QED BY <1>1, <2>1, <2>2, <2>3, <2>4, <2>5 DEF Proceeds
<1>2. CASE ListingSold \/ ConfirmationExpires \/ ItemMoves BY <1>2, EventsIInv
<1>3. CASE UNCHANGED vars
  <2>1. UNCHANGED <<menu, inv, market, pending, offer, confs, call, watch, count>> BY <1>3 DEF vars, site
  <2> QED BY <2>1 DEF IInv, TypeOK, Account, ConfsMatch
<1> QED BY <1>1, <1>2, <1>3 DEF Next

-----------------------------------------------------------------------------
(* Results.                                                                *)

\* The inductive invariant holds in every state of every behaviour.
THEOREM Invariance == Spec => []IInv
BY InitIInv, NextIInv, PTL DEF Spec

\* Type correctness.
THEOREM TypeCorrect == Spec => []TypeOK
<1>1. IInv => TypeOK BY DEF IInv
<1> QED BY <1>1, Invariance, PTL

\* When a call reports success, the site has done what was asked, but for the
\* calls that the code lets through unread (Deliver, and Endpoint's "heeds").
THEOREM ReportsAreTrue == Spec => []OkMeansDone
<1>1. IInv => OkMeansDone BY DEF IInv, Sound, Honest, OkMeansDone
<1> QED BY <1>1, Invariance, PTL

\* Accepting or rejecting by creator ID (FindConfirmation) answers no other
\* confirmation, whatever has come into the list or left it since it was read.
THEOREM ConfirmsOnlyThat == Spec => []ConfirmsWhatWasAsked
<1>1. IInv => ConfirmsWhatWasAsked BY DEF IInv, Sound, Honest, ConfirmsWhatWasAsked
<1> QED BY <1>1, Invariance, PTL

\* What GetInventory and GetMarketListings read page by page adds up, for every
\* size of a page and any number of items and listings that come and go.
THEOREM PagesComplete == Spec => []PagesAddUp
<1>1. IInv => InventoryComplete BY DEF IInv, Sound, Complete, InventoryComplete, Ended
<1>2. IInv => ListingsComplete BY DEF IInv, Sound, Complete, ListingsComplete, Ended
<1>3. IInv => PagesAddUp BY <1>1, <1>2 DEF PagesAddUp
<1> QED BY <1>3, Invariance, PTL
=============================================================================
