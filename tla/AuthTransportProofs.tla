-------------------------- MODULE AuthTransportProofs --------------------------
(***************************************************************************)
(* authTransport for any number of requests: at most one of them refreshes *)
(* at a time, the expiry it goes by is that of a token in the jar, waiting *)
(* requests share a refresh, and one revocation is hidden from a caller.   *)
(***************************************************************************)
EXTENDS AuthTransport, FiniteSetTheorems, TLAPS

\* The stages with the mutex held, those of them after a new token has been
\* issued, and those before.
Held == Refreshing \cup {"recheck", "patch", "release"}
Minted == {"others", "extract", "cookies", "parse", "write"}
Unminted == {"finalize", "transfer", "generate"}
Stages == {"idle", "check", "lock", "replay", "send", "done"} \cup Held

Types ==
  /\ platform \in {"web", "mobile"}
  /\ pc \in [Requests -> Stages]
  /\ mode \in [Requests -> {"none", "proactive", "reactive"}]
  /\ cookie \in [Requests -> Nat]
  /\ result \in [Requests -> {"none", "ok", "redirect", "error"}]
  /\ mu \in Requests \cup {NoOne}
  /\ expiry \in Nat /\ access \in Nat /\ jar \in Nat /\ issued \in Nat
  /\ aged \subseteq 1..issued /\ spoiled \subseteq 1..issued
  /\ expires \in 0..MaxExpires /\ failed \subseteq Requests

\* What a token is called, the later the greater, orders where it can be.
Tokens == expiry <= jar /\ jar <= issued /\ access <= issued /\ 1 <= issued

\* The mutex is held in the stages between Lock and the unlocks.
Locked(q) == pc[q] \in Held <=> mu = q

\* Why a request refreshes, and when it has a result.
Reason(q) ==
  /\ pc[q] \in Held \cup {"lock", "replay"} => mode[q] # "none"
  /\ pc[q] \in {"recheck", "patch"} => mode[q] = "proactive"
  /\ pc[q] \in {"release", "replay"} => mode[q] = "reactive"
  /\ pc[q] \in {"idle", "check"} => mode[q] = "none"
  /\ result[q] # "none" <=> pc[q] = "done"

\* A refresh under way keeps the token of the session ahead of its own cookie.
Ordered(q) ==
  /\ cookie[q] <= jar
  /\ pc[q] \in {"parse", "write"} => access = jar
  /\ pc[q] = "cookies" => access = issued /\ cookie[q] < access

\* A request that has been redirected has a cookie that is not accepted, until
\* it is sent again with a later one.
Fresh(q) ==
  mode[q] = "reactive" =>
    /\ pc[q] \in Held \cup {"lock", "replay"} => cookie[q] \in spoiled
    /\ pc[q] \in {"others", "extract", "parse", "write", "release", "replay"} => cookie[q] < jar
    /\ pc[q] = "send" => \E t \in spoiled : t < cookie[q]

Sane(q) == Locked(q) /\ Reason(q) /\ Ordered(q) /\ Fresh(q)

Inv == Types /\ Tokens /\ \A q \in Requests : Sane(q)

\* The bound on tokens is a number.
LEMMA TokenBound == MaxToken \in Nat
<1>1. Cardinality(Requests) \in Nat BY ConstantsAssumption, FS_CardinalityType
<1> QED BY <1>1 DEF MaxToken

-----------------------------------------------------------------------------
(* The steps of one request and the state of the others.                   *)

\* A request moves nothing of another one, and leaves the tokens and the
\* expiry alone unless it holds the mutex.
LEMMA Apart ==
  ASSUME Types, NEW r \in Requests, Begin(r) \/ RoundTrips(r)
  PROVE  /\ UNCHANGED <<platform, aged, spoiled, expires>>
         /\ \A q \in Requests \ {r} :
              /\ pc'[q] = pc[q] /\ mode'[q] = mode[q]
              /\ cookie'[q] = cookie[q] /\ result'[q] = result[q]
         /\ mu' # mu => (mu = NoOne /\ mu' = r) \/ (pc[r] \in Held /\ mu' = NoOne)
         /\ pc[r] \notin Held => UNCHANGED <<expiry, access, jar, issued>>
<1> USE DEF Types, Goto, Ends, Moves, Held, Refreshing, session, site, request
<1>1. CASE Begin(r) \/ Check(r) \/ Lock(r) \/ Recheck(r)
  BY <1>1 DEF Begin, Check, Lock, Recheck
<1>2. CASE Finalize(r) \/ Transfer(r) \/ TransferOthers(r) \/ Extract(r) \/ Generate(r)
  BY <1>2 DEF Finalize, Transfer, TransferOthers, Extract, Generate
<1>3. CASE SetWebCookies(r) \/ Parse(r) \/ WriteExpiry(r) \/ RefreshFails(r)
  BY <1>3 DEF SetWebCookies, Parse, WriteExpiry, RefreshFails
<1>4. CASE Patch(r) \/ Release(r) \/ Replay(r) \/ GetBodyFails(r)
  BY <1>4 DEF Patch, Release, Replay, GetBodyFails, Patched
<1>5. CASE Accepted(r) \/ SendFails(r) \/ Redirected(r)
  BY <1>5 DEF Accepted, SendFails, Redirected
<1> QED BY <1>1, <1>2, <1>3, <1>4, <1>5 DEF RoundTrips, Refreshes

\* The types and the order of the tokens after a step of a request.
LEMMA TypesStep ==
  ASSUME Inv, NEW r \in Requests, Begin(r) \/ RoundTrips(r)
  PROVE  Types' /\ Tokens' /\ jar <= jar' /\ issued <= issued'
<1>0. Types /\ Tokens /\ Ordered(r) BY DEF Inv, Sane
<1>1. UNCHANGED <<platform, aged, spoiled, expires>> BY <1>0, Apart
<1>2. /\ \E l \in Stages : pc' = [pc EXCEPT ![r] = l]
      /\ mode' = mode \/ \E m \in {"none", "proactive", "reactive"} : mode' = [mode EXCEPT ![r] = m]
      /\ cookie' = cookie \/ cookie' = [cookie EXCEPT ![r] = jar]
      /\ \/ result' = result
         \/ \E o \in {"none", "ok", "redirect", "error"} : result' = [result EXCEPT ![r] = o]
      /\ mu' \in {mu, r, NoOne} /\ failed' \in {failed, failed \cup {r}}
  <2> USE DEF RoundTrips, Refreshes, Begin, Check, Lock, Recheck, Finalize, Transfer,
              TransferOthers, Extract, Generate, SetWebCookies, Parse, WriteExpiry, RefreshFails,
              Patch, Release, Replay, GetBodyFails, Accepted, SendFails, Redirected, Moves
  <2>1. \E l \in Stages : pc' = [pc EXCEPT ![r] = l]
    BY DEF FirstStep, Goto, Ends, Held, Refreshing, Stages
  <2>2. mode' = mode \/ \E m \in {"none", "proactive", "reactive"} : mode' = [mode EXCEPT ![r] = m]
    OBVIOUS
  <2>3. cookie' = cookie \/ cookie' = [cookie EXCEPT ![r] = jar] BY DEF Patched
  <2>4. \/ result' = result
        \/ \E o \in {"none", "ok", "redirect", "error"} : result' = [result EXCEPT ![r] = o]
    BY DEF Ends
  <2>5. mu' \in {mu, r, NoOne} /\ failed' \in {failed, failed \cup {r}} OBVIOUS
  <2> QED BY <2>1, <2>2, <2>3, <2>4, <2>5
<1>3. /\ expiry' \in Nat /\ access' \in Nat /\ jar' \in Nat /\ issued' \in Nat
      /\ Tokens' /\ jar <= jar' /\ issued <= issued'
  <2> USE <1>0 DEF Types, Tokens, Moves, session
  <2>1. CASE Transfer(r) \/ Generate(r) BY <2>1 DEF Transfer, Generate
  <2>2. CASE Extract(r) BY <2>2 DEF Extract
  <2>3. CASE SetWebCookies(r) BY <2>3 DEF SetWebCookies, CookieSet, Ordered
  <2>4. CASE WriteExpiry(r) BY <2>4 DEF WriteExpiry, Ordered
  <2>5. CASE UNCHANGED <<expiry, session>> BY <2>5
  <2>6. CASE ~(Transfer(r) \/ Generate(r) \/ Extract(r) \/ SetWebCookies(r) \/ WriteExpiry(r))
    BY <2>5, <2>6 DEF RoundTrips, Refreshes, Begin, Check, Lock, Recheck, Finalize, TransferOthers,
              Parse, RefreshFails, Patch, Release, Replay, GetBodyFails, Accepted, SendFails,
              Redirected
  <2> QED BY <2>1, <2>2, <2>3, <2>4, <2>6
<1>4. /\ pc' \in [Requests -> Stages]
      /\ mode' \in [Requests -> {"none", "proactive", "reactive"}]
      /\ cookie' \in [Requests -> Nat]
      /\ result' \in [Requests -> {"none", "ok", "redirect", "error"}]
  BY <1>0, <1>2 DEF Types
<1>5. aged' \subseteq 1..issued' /\ spoiled' \subseteq 1..issued'
  BY <1>0, <1>1, <1>3 DEF Types
<1> QED BY <1>0, <1>1, <1>2, <1>3, <1>4, <1>5 DEF Types

\* What a request relies on is not disturbed by another one.
LEMMA OthersSane ==
  ASSUME Inv, NEW r \in Requests, Begin(r) \/ RoundTrips(r), NEW q \in Requests \ {r}
  PROVE  Sane(q)'
<1>1. /\ UNCHANGED <<aged, spoiled>>
      /\ pc'[q] = pc[q] /\ mode'[q] = mode[q] /\ cookie'[q] = cookie[q] /\ result'[q] = result[q]
      /\ mu' # mu => (mu = NoOne /\ mu' = r) \/ (pc[r] \in Held /\ mu' = NoOne)
      /\ pc[r] \notin Held => UNCHANGED <<expiry, access, jar, issued>>
  BY Apart DEF Inv
<1>2. jar <= jar' /\ jar \in Nat /\ jar' \in Nat /\ cookie[q] \in Nat
  BY TypesStep DEF Inv, Types
<1>3. Sane(q) /\ Locked(r) /\ NoOne \notin Requests BY ConstantsAssumption DEF Inv, Sane
<1>4. Locked(q)' BY <1>1, <1>3 DEF Sane, Locked
<1>5. Reason(q)' BY <1>1, <1>3 DEF Sane, Reason
<1>6. pc[q] \in Held => UNCHANGED <<expiry, access, jar, issued>>
  BY <1>1, <1>3 DEF Sane, Locked
<1>7. Ordered(q)'
  BY <1>1, <1>2, <1>3, <1>6 DEF Sane, Ordered, Held, Refreshing
<1>8. Fresh(q)'
  BY <1>1, <1>2, <1>3, <1>6 DEF Sane, Fresh, Held, Refreshing
<1> QED BY <1>4, <1>5, <1>7, <1>8 DEF Sane

\* A request takes the mutex before it refreshes and gives it back at the end.
LEMMA OwnLocked ==
  ASSUME Inv, NEW r \in Requests, Begin(r) \/ RoundTrips(r)
  PROVE  Locked(r)'
<1> USE ConstantsAssumption
<1>0. Types /\ Locked(r) BY DEF Inv, Sane
<1> USE DEF Types, Locked, Goto, Ends, Moves, Held, Refreshing
<1>1. CASE Begin(r) \/ Check(r) \/ Lock(r) \/ Recheck(r)
  BY <1>0, <1>1 DEF Begin, Check, Lock, Recheck, FirstStep
<1>2. CASE Finalize(r) \/ Transfer(r) \/ TransferOthers(r) \/ Extract(r) \/ Generate(r)
  BY <1>0, <1>2 DEF Finalize, Transfer, TransferOthers, Extract, Generate
<1>3. CASE SetWebCookies(r) \/ Parse(r) \/ WriteExpiry(r) \/ RefreshFails(r)
  BY <1>0, <1>3 DEF SetWebCookies, Parse, WriteExpiry, RefreshFails
<1>4. CASE Patch(r) \/ Release(r) \/ Replay(r) \/ GetBodyFails(r)
  BY <1>0, <1>4 DEF Patch, Release, Replay, GetBodyFails
<1>5. CASE Accepted(r) \/ SendFails(r) \/ Redirected(r)
  BY <1>0, <1>5 DEF Accepted, SendFails, Redirected
<1> QED BY <1>1, <1>2, <1>3, <1>4, <1>5 DEF RoundTrips, Refreshes

\* A request refreshes for a reason, and has a result when it is done.
LEMMA OwnReason ==
  ASSUME Inv, NEW r \in Requests, Begin(r) \/ RoundTrips(r)
  PROVE  Reason(r)'
<1>0. Types /\ Reason(r) BY DEF Inv, Sane
<1> USE DEF Types, Reason, Goto, Ends, Moves, Held, Refreshing
<1>1. CASE Begin(r) \/ Check(r) \/ Lock(r) \/ Recheck(r)
  BY <1>0, <1>1 DEF Begin, Check, Lock, Recheck, FirstStep
<1>2. CASE Finalize(r) \/ Transfer(r) \/ TransferOthers(r) \/ Extract(r) \/ Generate(r)
  BY <1>0, <1>2 DEF Finalize, Transfer, TransferOthers, Extract, Generate
<1>3. CASE SetWebCookies(r) \/ Parse(r) \/ WriteExpiry(r) \/ RefreshFails(r)
  BY <1>0, <1>3 DEF SetWebCookies, Parse, WriteExpiry, RefreshFails
<1>4. CASE Patch(r) \/ Release(r) \/ Replay(r) \/ GetBodyFails(r)
  BY <1>0, <1>4 DEF Patch, Release, Replay, GetBodyFails
<1>5. CASE Accepted(r) \/ SendFails(r) \/ Redirected(r)
  BY <1>0, <1>5 DEF Accepted, SendFails, Redirected
<1> QED BY <1>1, <1>2, <1>3, <1>4, <1>5 DEF RoundTrips, Refreshes

\* The new token reaches the session and the jar before the expiry is read
\* from it, and is later than the one in the request.
LEMMA OwnOrdered ==
  ASSUME Inv, NEW r \in Requests, Begin(r) \/ RoundTrips(r)
  PROVE  Ordered(r)'
<1>0. Types /\ Tokens /\ Ordered(r) BY DEF Inv, Sane
<1> USE DEF Types, Tokens, Ordered, Goto, Ends, Moves, session
<1>1. CASE Begin(r) \/ Check(r) \/ Lock(r) \/ Recheck(r)
  BY <1>0, <1>1 DEF Begin, Check, Lock, Recheck, FirstStep
<1>2. CASE Finalize(r) \/ Transfer(r) \/ TransferOthers(r) \/ Extract(r) \/ Generate(r)
  BY <1>0, <1>2 DEF Finalize, Transfer, TransferOthers, Extract, Generate
<1>3. CASE SetWebCookies(r) \/ Parse(r) \/ WriteExpiry(r) \/ RefreshFails(r)
  BY <1>0, <1>3 DEF SetWebCookies, Parse, WriteExpiry, RefreshFails, CookieSet
<1>4. CASE Patch(r) \/ Release(r) \/ Replay(r) \/ GetBodyFails(r)
  BY <1>0, <1>4 DEF Patch, Release, Replay, GetBodyFails, Patched
<1>5. CASE Accepted(r) \/ SendFails(r) \/ Redirected(r)
  BY <1>0, <1>5 DEF Accepted, SendFails, Redirected
<1> QED BY <1>1, <1>2, <1>3, <1>4, <1>5 DEF RoundTrips, Refreshes

\* A redirected request is sent again with a later cookie only.
LEMMA OwnFresh ==
  ASSUME Inv, NEW r \in Requests, Begin(r) \/ RoundTrips(r)
  PROVE  Fresh(r)'
<1>0. Types /\ Tokens /\ Reason(r) /\ Ordered(r) /\ Fresh(r) /\ UNCHANGED spoiled
  BY Apart DEF Inv, Sane
<1> USE DEF Types, Tokens, Fresh, Goto, Ends, Moves, session, Held, Refreshing
<1>1. CASE Begin(r) \/ Check(r) \/ Lock(r) \/ Recheck(r)
  BY <1>0, <1>1 DEF Begin, Check, Lock, Recheck, FirstStep, Reason
<1>2. CASE Finalize(r) \/ Transfer(r) \/ TransferOthers(r) \/ Extract(r) \/ Generate(r)
  BY <1>0, <1>2 DEF Finalize, Transfer, TransferOthers, Extract, Generate, Ordered
<1>3. CASE SetWebCookies(r) \/ Parse(r) \/ WriteExpiry(r) \/ RefreshFails(r)
  BY <1>0, <1>3 DEF SetWebCookies, Parse, WriteExpiry, RefreshFails, CookieSet, Ordered
<1>4. CASE Patch(r) \/ Release(r) \/ Replay(r) \/ GetBodyFails(r)
  BY <1>0, <1>4 DEF Patch, Release, Replay, GetBodyFails, Patched, Reason
<1>5. CASE Accepted(r) \/ SendFails(r) \/ Redirected(r)
  BY <1>0, <1>5 DEF Accepted, SendFails, Redirected
<1> QED BY <1>1, <1>2, <1>3, <1>4, <1>5 DEF RoundTrips, Refreshes

-----------------------------------------------------------------------------
\* The transport as GetWebCookies installs it.
LEMMA InvInit ==
  Init => Inv
BY ConstantsAssumption
DEF Init, Initial, Inv, Types, Tokens, Sane, Locked, Reason, Ordered, Fresh, Stages, Held, Refreshing

\* Every step keeps the invariant: the request that moves, the others beside
\* it, and the site and the caller of ExpireAuthTransportToken.
LEMMA InvKept ==
  ASSUME Inv, [Next]_vars
  PROVE  Inv'
<1>1. ASSUME NEW r \in Requests, Begin(r) \/ RoundTrips(r)
      PROVE  Inv'
  <2>1. Types' /\ Tokens' BY <1>1, TypesStep
  <2>2. Sane(r)' BY <1>1, OwnLocked, OwnReason, OwnOrdered, OwnFresh DEF Sane
  <2>3. \A q \in Requests \ {r} : Sane(q)' BY <1>1, OthersSane
  <2> QED BY <2>1, <2>2, <2>3 DEF Inv
<1>2. CASE Expire \/ (\E t \in 1..MaxToken : Ages(t) \/ Spoils(t)) \/ UNCHANGED vars
  <2>0. Types /\ Tokens /\ MaxExpires \in Nat /\ MaxToken \in Nat
    BY ConstantsAssumption, TokenBound DEF Inv
  <2>1. Types' /\ Tokens'
    <3> USE <2>0 DEF Types, Tokens, request, session, site
    <3>1. CASE Expire BY <3>1 DEF Expire
    <3>2. ASSUME NEW t \in 1..MaxToken, Ages(t) \/ Spoils(t) PROVE Types' /\ Tokens'
      <4>1. t \in 1..issued BY <3>2 DEF Ages, Spoils
      <4> QED BY <3>2, <4>1 DEF Ages, Spoils
    <3>3. CASE UNCHANGED vars BY <3>3 DEF vars
    <3> QED BY <1>2, <3>1, <3>2, <3>3
  <2>2. /\ UNCHANGED <<pc, mode, cookie, result, mu, access, jar, issued>>
        /\ spoiled \subseteq spoiled'
    BY <1>2 DEF Expire, Ages, Spoils, vars, request, session, site
  <2>3. \A q \in Requests : Sane(q)'
    BY <2>2 DEF Inv, Sane, Locked, Reason, Ordered, Fresh
  <2> QED BY <2>1, <2>3 DEF Inv
<1> QED BY <1>1, <1>2 DEF Next

\* The expiry the transport goes by is that of a token in the cookie jar or of
\* an earlier one, whatever fails half-way through a refresh.
THEOREM ExpiryStaysCovered == Spec => []ExpiryIsCovered
<1>1. Inv => ExpiryIsCovered BY DEF Inv, Tokens, ExpiryIsCovered
<1> QED BY <1>1, InvInit, InvKept, PTL DEF Spec

-----------------------------------------------------------------------------
(* One revocation.                                                         *)

\* Two different tokens are two.
LEMMA PairCount ==
  ASSUME NEW a, NEW b, a # b
  PROVE  Cardinality({a, b}) = 2
<1>1. {a, b} = {a} \cup {b} OBVIOUS
<1>2. IsFiniteSet({a}) /\ Cardinality({a}) = 1 BY FS_Singleton
<1>3. Cardinality({a} \cup {b}) = Cardinality({a}) + 1 BY <1>2, FS_AddElement
<1> QED BY <1>1, <1>2, <1>3

\* Tokens that are not accepted any more, counted.
LEMMA SpoiledCount ==
  ASSUME Inv, [Next]_vars
  PROVE  /\ IsFiniteSet(spoiled) /\ IsFiniteSet(spoiled') /\ spoiled \subseteq spoiled'
         /\ Cardinality(spoiled) \in Nat /\ Cardinality(spoiled') \in Nat
         /\ Cardinality(spoiled) <= Cardinality(spoiled')
<1>1. spoiled \subseteq spoiled'
  <2>1. ASSUME NEW r \in Requests, Begin(r) \/ RoundTrips(r) PROVE spoiled' = spoiled
    BY <2>1, Apart DEF Inv
  <2>2. CASE Expire \/ (\E t \in 1..MaxToken : Ages(t) \/ Spoils(t)) \/ UNCHANGED vars
    BY <2>2 DEF Expire, Ages, Spoils, vars, site
  <2> QED BY <2>1, <2>2 DEF Next
<1>2. spoiled' \subseteq 1..issued' /\ issued' \in Nat BY InvKept DEF Inv, Types
<1>3. IsFiniteSet(spoiled')
  <2>1. IsFiniteSet(1..issued') BY <1>2, FS_Interval
  <2> QED BY <1>2, <2>1, FS_Subset
<1> QED BY <1>1, <1>3, FS_Subset, FS_CardinalityType

\* A redirect ends the request of a replayable one only at the second time,
\* and then two tokens are not accepted any more.
LEMMA HiddenStep ==
  ASSUME Inv, RevocationIsHidden, [Next]_vars
  PROVE  RevocationIsHidden'
<1>0. /\ IsFiniteSet(spoiled) /\ IsFiniteSet(spoiled') /\ spoiled \subseteq spoiled'
      /\ Cardinality(spoiled) \in Nat /\ Cardinality(spoiled') \in Nat
      /\ Cardinality(spoiled) <= Cardinality(spoiled')
  BY SpoiledCount
<1> SUFFICES ASSUME Cardinality(spoiled') <= 1, NEW q \in Replayable \ failed'
             PROVE  result'[q] # "redirect"
  BY DEF RevocationIsHidden
<1>1. q \in Requests /\ Cardinality(spoiled) <= 1 BY <1>0, ConstantsAssumption
<1>2. Types BY DEF Inv
<1>3. q \notin failed => result[q] # "redirect" BY <1>1 DEF RevocationIsHidden
<1>4. ASSUME NEW r \in Requests, Begin(r) \/ RoundTrips(r)
      PROVE  result'[q] # "redirect"
  <2> USE DEF Moves, Ends, Goto
  <2>1. failed \subseteq failed' /\ (result'[q] = result[q] \/ q = r)
    <3>1. failed \subseteq failed'
      BY <1>4 DEF RoundTrips, Refreshes, Begin, Check, Lock, Recheck, Finalize, Transfer,
              TransferOthers, Extract, Generate, SetWebCookies, Parse, WriteExpiry, RefreshFails,
              Patch, Release, Replay, GetBodyFails, Accepted, SendFails, Redirected
    <3> QED BY <1>1, <1>2, <1>4, <3>1, Apart
  <2>2. CASE UNCHANGED result BY <1>3, <2>1, <2>2
  <2>3. CASE q = r
    <3>1. CASE RefreshFails(r) \/ GetBodyFails(r)
      BY <2>3, <3>1 DEF RefreshFails, GetBodyFails
    <3>2. CASE Accepted(r) \/ SendFails(r)
      BY <1>1, <1>2, <2>3, <3>2 DEF Accepted, SendFails, Types
    <3>3. CASE Redirected(r)
      <4>1. CASE Retries(r) BY <1>3, <2>1, <3>3, <4>1 DEF Redirected
      <4>2. CASE ~Retries(r)
        <5>1. mode[r] = "reactive" /\ pc[r] = "send" /\ cookie[r] \in spoiled
          BY <2>3, <3>3, <4>2 DEF Retries, Redirected
        <5>2. PICK t \in spoiled : t < cookie[r]
          BY <5>1 DEF Inv, Sane, Fresh
        <5>3. t # cookie[r] BY <1>1, <1>2, <5>2 DEF Types
        <5>4. Cardinality({t, cookie[r]}) = 2 BY <5>3, PairCount
        <5>5. Cardinality({t, cookie[r]}) <= Cardinality(spoiled)
          BY <1>0, <5>1, <5>2, FS_Subset
        <5> QED BY <1>0, <1>1, <5>4, <5>5
      <4> QED BY <4>1, <4>2
    <3>4. CASE UNCHANGED result BY <1>3, <2>1, <3>4
    <3> QED
      BY <1>4, <3>1, <3>2, <3>3, <3>4 DEF RoundTrips, Refreshes, Begin, Check, Lock, Recheck,
              Finalize, Transfer, TransferOthers, Extract, Generate, SetWebCookies, Parse,
              WriteExpiry, Patch, Release, Replay
  <2> QED BY <1>3, <2>1, <2>3
<1>5. CASE Expire \/ (\E t \in 1..MaxToken : Ages(t) \/ Spoils(t)) \/ UNCHANGED vars
  BY <1>3, <1>5 DEF Expire, Ages, Spoils, vars, request
<1> QED BY <1>4, <1>5 DEF Next

\* One revocation, whenever it comes, is not seen by the caller of a request
\* that can be replayed and whose refresh does not fail.
THEOREM RevocationStaysHidden == Spec => []RevocationIsHidden
<1>1. Init => RevocationIsHidden BY ConstantsAssumption DEF Init, RevocationIsHidden
<1> QED BY <1>1, InvInit, InvKept, HiddenStep, PTL DEF Spec

-----------------------------------------------------------------------------
(* Shared refreshes.                                                       *)

\* The tokens before the present one that have aged.
Due == Cardinality(aged \ {issued})

\* The expiry is that of the newest token, or of the login's beside the first
\* in the jar; one that the caller has cleared leaves room for a new token.
Matches ==
  IF expiry = 0 THEN issued < Initial + Due + expires
                ELSE expiry = issued \/ (expiry = 1 /\ issued = Initial)

\* As long as nothing fails and every token is accepted, each new token is
\* accounted for by one that has aged or by a call of ExpireAuthTransportToken.
Account ==
  /\ \A q \in Requests : mode[q] # "reactive"
  /\ (\A q \in Requests : pc[q] # "cookies") => jar = issued
  /\ issued <= Initial + Due + expires
  /\ (\A q \in Requests : pc[q] \notin Minted) => Matches
  /\ \A q \in Requests : pc[q] \in Unminted => NeedsRefresh

Shared == failed = {} /\ spoiled = {} => Account

\* Sets of aged tokens are finite and grow.
LEMMA DueGrows ==
  ASSUME Inv
  PROVE  /\ IsFiniteSet(aged) /\ Cardinality(aged) \in Nat /\ Due \in Nat
         /\ Due = (IF issued \in aged THEN Cardinality(aged) - 1 ELSE Cardinality(aged))
         /\ issued + 1 \notin aged
<1>1. aged \subseteq 1..issued /\ issued \in Nat BY DEF Inv, Types
<1>2. IsFiniteSet(aged)
  <2>1. IsFiniteSet(1..issued) BY <1>1, FS_Interval
  <2> QED BY <1>1, <2>1, FS_Subset
<1>3. Due = IF issued \in aged THEN Cardinality(aged) - 1 ELSE Cardinality(aged)
  BY <1>2, FS_RemoveElement DEF Due
<1>4. Cardinality(aged) \in Nat BY <1>2, FS_CardinalityType
<1>5. Due \in Nat
  <2>1. IsFiniteSet(aged \ {issued}) BY <1>2, FS_RemoveElement
  <2> QED BY <2>1, FS_CardinalityType DEF Due
<1> QED BY <1>1, <1>2, <1>3, <1>4, <1>5

\* A new token is issued only where the last one had aged or been expired.
LEMMA SharedMint ==
  ASSUME Inv, Account, NEW r \in Requests, Transfer(r) \/ Generate(r)
  PROVE  Account'
<1> USE DEF Moves, Goto, Minted, Unminted, Held, Refreshing
<1>1. Types /\ Tokens /\ \A q \in Requests : Locked(q) BY DEF Inv, Sane
<1>2. /\ pc[r] \in Unminted /\ UNCHANGED <<expiry, aged, expires, mode>>
      /\ issued' = issued + 1 /\ pc'[r] \in Minted
      /\ pc'[r] # "cookies" => jar' = issued'
      /\ \A q \in Requests \ {r} : pc'[q] = pc[q]
  BY <1>1 DEF Transfer, Generate, Types, session, site
<1>0. Initial' = Initial /\ Initial \in Nat /\ Initial >= 1
  BY DEF Transfer, Generate, Initial
<1>3. \A q \in Requests \ {r} : pc[q] \notin Held
  BY <1>1, <1>2, ConstantsAssumption DEF Locked
<1>4. \A q \in Requests : pc[q] \notin Minted BY <1>2, <1>3
<1>5. issued' <= Initial' + Due' + expires'
  <2>1. /\ Cardinality(aged) \in Nat /\ Due \in Nat /\ issued + 1 \notin aged
        /\ Due = (IF issued \in aged THEN Cardinality(aged) - 1 ELSE Cardinality(aged))
    BY DueGrows
  <2>2. Due' = Cardinality(aged)
    <3>1. aged \ {issued + 1} = aged BY <2>1
    <3> QED BY <1>2, <3>1 DEF Due
  <2>3. issued \in Nat /\ expires \in Nat BY <1>1, ConstantsAssumption DEF Types
  <2>4. CASE expiry = 0
    <3>1. issued < Initial + Due + expires BY <1>4, <2>4 DEF Account, Matches
    <3> QED BY <1>0, <1>2, <2>1, <2>2, <2>3, <3>1
  <2>5. CASE expiry # 0
    <3>1. expiry = issued \/ (expiry = 1 /\ issued = Initial)
      BY <1>4, <2>5 DEF Account, Matches
    <3>2. expiry \in aged BY <1>2, <2>5 DEF Account, NeedsRefresh
    <3>3. issued <= Initial + Due + expires BY DEF Account
    <3>4. CASE expiry = issued
      BY <1>0, <1>2, <2>1, <2>2, <2>3, <3>2, <3>3, <3>4
    <3>5. CASE issued = Initial
      <4>1. Cardinality(aged) # 0
        <5>1. IsFiniteSet(aged) BY DueGrows
        <5> QED BY <3>2, <5>1, FS_EmptySet
      <4> QED BY <1>0, <1>2, <2>1, <2>2, <2>3, <3>5, <4>1
    <3> QED BY <3>1, <3>4, <3>5
  <2> QED BY <2>4, <2>5
<1>6. \A q \in Requests : mode'[q] # "reactive" BY <1>2 DEF Account
<1>7. \A q \in Requests : pc'[q] \notin Unminted BY <1>2, <1>3
<1>8. ~ \A q \in Requests : pc'[q] \notin Minted BY <1>2
<1>9. (\A q \in Requests : pc'[q] # "cookies") => jar' = issued' BY <1>2
<1> QED BY <1>5, <1>6, <1>7, <1>8, <1>9 DEF Account

\* The other steps of a request issue no token; a refresh that has succeeded
\* leaves the expiry of the newest one behind.
LEMMA SharedStep ==
  ASSUME Inv, Account, failed' = {}, spoiled = {}, NEW r \in Requests, Begin(r) \/ RoundTrips(r)
  PROVE  Account'
<1> USE DEF Moves, Goto, Ends, Minted, Unminted, Held, Refreshing
<1>1. Types /\ Tokens /\ Sane(r) /\ \A q \in Requests : Locked(q) BY DEF Inv, Sane
<1>2. /\ UNCHANGED <<platform, aged, spoiled, expires>>
      /\ \A q \in Requests \ {r} : pc'[q] = pc[q] /\ mode'[q] = mode[q]
  BY <1>1, Apart
<1>3. ASSUME UNCHANGED issued, mode'[r] # "reactive",
             (\A q \in Requests : pc'[q] # "cookies") => jar' = issued,
             (\A q \in Requests : pc'[q] \notin Minted) => Matches',
             \A q \in Requests : pc'[q] \in Unminted => NeedsRefresh'
      PROVE  Account'
  <2>1. Due' = Due /\ Initial' = Initial BY <1>2, <1>3 DEF Due, Initial
  <2>2. \A q \in Requests : mode'[q] # "reactive" BY <1>2, <1>3 DEF Account
  <2> QED BY <1>2, <1>3, <2>1, <2>2 DEF Account
<1>4. ASSUME UNCHANGED <<expiry, jar, issued>>, mode'[r] # "reactive",
             pc'[r] # "cookies", pc[r] # "cookies", pc[r] \in Minted <=> pc'[r] \in Minted,
             pc'[r] \in Unminted => NeedsRefresh
      PROVE  Account'
  <2>1. \A q \in Requests : pc'[q] \in Unminted => NeedsRefresh'
    BY <1>2, <1>4 DEF Account, NeedsRefresh
  <2>2. (\A q \in Requests : pc'[q] \notin Minted) => \A q \in Requests : pc[q] \notin Minted
    BY <1>2, <1>4
  <2>3. (\A q \in Requests : pc'[q] # "cookies") => \A q \in Requests : pc[q] # "cookies"
    BY <1>2, <1>4
  <2>4. (\A q \in Requests : pc'[q] # "cookies") => jar' = issued
    BY <1>4, <2>3 DEF Account
  <2>6. Due' = Due /\ Initial' = Initial BY <1>2, <1>4 DEF Due, Initial
  <2>5. (\A q \in Requests : pc'[q] \notin Minted) => Matches'
    BY <1>2, <1>4, <2>2, <2>6 DEF Account, Matches
  <2> QED BY <1>3, <1>4, <2>1, <2>4, <2>5
<1>5. mode[r] # "reactive" BY DEF Account
<1>6. CASE Begin(r) \/ Check(r) \/ Lock(r) \/ Recheck(r)
  BY <1>1, <1>4, <1>5, <1>6 DEF Begin, Check, Lock, Recheck, FirstStep, StillNeeded, Types, Sane,
                                Reason, session
<1>7. CASE Finalize(r)
  <2>1. NeedsRefresh BY <1>7 DEF Finalize, Account
  <2> QED BY <1>1, <1>4, <1>5, <1>7, <2>1 DEF Finalize, Types, session
<1>8. CASE Transfer(r) \/ Generate(r) BY <1>8, SharedMint
<1>9. CASE TransferOthers(r) \/ Extract(r) \/ Parse(r)
  BY <1>1, <1>4, <1>5, <1>9 DEF TransferOthers, Extract, Parse, Types, session
<1>10. CASE SetWebCookies(r) \/ WriteExpiry(r)
  <2>1. \A q \in Requests \ {r} : pc'[q] \notin Held
    BY <1>1, <1>2, <1>10, ConstantsAssumption DEF Locked, SetWebCookies, WriteExpiry
  <2>2. UNCHANGED <<issued, mode>> BY <1>10 DEF SetWebCookies, WriteExpiry, session
  <2>3. CASE SetWebCookies(r)
    <3>1. jar' = issued /\ pc'[r] = "parse"
      BY <1>1, <2>3 DEF SetWebCookies, CookieSet, Types, Sane, Ordered
    <3> QED BY <1>3, <1>5, <2>1, <2>2, <3>1
  <2>4. CASE WriteExpiry(r)
    <3>1. pc[r] = "write" /\ pc'[r] \notin Held \ {"patch", "release"}
      BY <1>1, <2>4 DEF WriteExpiry, Types
    <3>2. expiry' = jar /\ UNCHANGED jar
      BY <1>1, <2>4 DEF WriteExpiry, Sane, Ordered, session
    <3>3. \A q \in Requests : pc[q] # "cookies" BY <1>2, <2>1, <3>1
    <3>4. jar = issued /\ issued # 0 BY <1>1, <3>3 DEF Account, Tokens, Types
    <3>5. Matches' BY <2>2, <3>2, <3>4 DEF Matches
    <3> QED BY <1>3, <1>5, <2>1, <2>2, <3>1, <3>2, <3>4, <3>5
  <2> QED BY <1>10, <2>3, <2>4
<1>11. CASE RefreshFails(r) \/ GetBodyFails(r)
  BY <1>11 DEF RefreshFails, GetBodyFails
<1>12. CASE Patch(r) \/ Release(r) \/ Replay(r)
  BY <1>1, <1>4, <1>5, <1>12 DEF Patch, Release, Replay, Types, session
<1>13. CASE Accepted(r) \/ SendFails(r) \/ Redirected(r)
  BY <1>1, <1>4, <1>5, <1>13 DEF Accepted, SendFails, Redirected, Types, session
<1> QED
  BY <1>6, <1>7, <1>8, <1>9, <1>10, <1>11, <1>12, <1>13 DEF RoundTrips, Refreshes

\* Every step keeps the account of the new tokens.
LEMMA SharedKept ==
  ASSUME Inv, Shared, [Next]_vars
  PROVE  Shared'
<1> SUFFICES ASSUME failed' = {}, spoiled' = {} PROVE Account'
  BY DEF Shared
<1>0. Types /\ Tokens /\ \A q \in Requests : Locked(q) BY DEF Inv, Sane
<1>1. spoiled = {} BY SpoiledCount
<1>2. ASSUME NEW r \in Requests, Begin(r) \/ RoundTrips(r)
      PROVE  Account'
  <2>1. failed = {}
    BY <1>2 DEF RoundTrips, Refreshes, Begin, Check, Lock, Recheck, Finalize, Transfer,
              TransferOthers, Extract, Generate, SetWebCookies, Parse, WriteExpiry, RefreshFails,
              Patch, Release, Replay, GetBodyFails, Accepted, SendFails, Redirected, Moves
  <2> QED BY <1>1, <1>2, <2>1, SharedStep DEF Shared
<1>3. ASSUME Account, UNCHANGED <<platform, pc, mode, mu, jar, issued>>
      PROVE  /\ Expire => Account'
             /\ UNCHANGED <<expiry, expires>> /\ aged \subseteq aged' => Account'
  <2>0. /\ \A q \in Requests : mode'[q] # "reactive"
        /\ (\A q \in Requests : pc'[q] # "cookies") => jar' = issued'
        /\ Due \in Nat /\ issued \in Nat /\ expires \in Nat
        /\ Initial' = Initial /\ Initial \in Nat
    BY <1>0, <1>3, DueGrows, ConstantsAssumption DEF Account, Types, Initial
  <2>1. ASSUME Expire PROVE Account'
    <3>1. /\ expiry' = 0 /\ expires' = expires + 1 /\ mu = NoOne /\ Due' = Due
      BY <1>3, <2>1 DEF Expire, site, Due
    <3>2. \A q \in Requests : pc[q] \notin Held
      BY <1>0, <3>1, ConstantsAssumption DEF Locked
    <3>3. issued <= Initial + Due + expires BY <1>3 DEF Account
    <3>5. Matches' /\ issued' <= Initial' + Due' + expires'
      BY <1>3, <2>0, <3>1, <3>3 DEF Matches
    <3>4. \A q \in Requests : pc'[q] \notin Unminted
      BY <1>3, <3>2 DEF Held, Unminted, Refreshing
    <3> QED BY <1>3, <2>0, <3>1, <3>4, <3>5 DEF Account
  <2>2. ASSUME UNCHANGED <<expiry, expires>>, aged \subseteq aged' PROVE Account'
    <3>1. Due' \in Nat /\ Due <= Due'
      <4>1. IsFiniteSet(aged' \ {issued}) /\ Due' = Cardinality(aged' \ {issued})
        <5>1. aged' \subseteq 1..issued' /\ issued' \in Nat BY InvKept DEF Inv, Types
        <5>2. IsFiniteSet(1..issued') BY <5>1, FS_Interval
        <5>3. IsFiniteSet(aged') BY <5>1, <5>2, FS_Subset
        <5> QED BY <1>3, <5>3, FS_RemoveElement DEF Due
      <4>2. aged \ {issued} \subseteq aged' \ {issued} BY <2>2
      <4>3. Cardinality(aged \ {issued}) <= Cardinality(aged' \ {issued}) BY <4>1, <4>2, FS_Subset
      <4>4. Due' \in Nat BY <4>1, FS_CardinalityType
      <4> QED BY <4>1, <4>3, <4>4 DEF Due
    <3>2. NeedsRefresh => NeedsRefresh' BY <2>2 DEF NeedsRefresh
    <3>0. PICK m \in Nat, n \in Nat : m = Due /\ n = Due' /\ m <= n BY <2>0, <3>1
    <3>6. m <= n /\ issued \in Nat /\ expires \in Nat /\ Initial \in Nat BY <2>0, <3>0
    <3>3. issued' <= Initial' + Due' + expires'
      <4>1. issued <= Initial + m + expires BY <1>3, <3>0 DEF Account
      <4>2. issued <= Initial + n + expires BY <3>6, <4>1
      <4>3. issued' = issued /\ expires' = expires /\ Initial' = Initial BY <1>3, <2>0, <2>2
      <4> QED BY <3>0, <4>2, <4>3
    <3>4. ASSUME \A q \in Requests : pc'[q] \notin Minted
          PROVE  Matches'
      <4>1. IF expiry = 0 THEN issued < Initial + m + expires
                          ELSE expiry = issued \/ (expiry = 1 /\ issued = Initial)
        BY <1>3, <3>0, <3>4 DEF Account, Matches
      <4>2. IF expiry = 0 THEN issued < Initial + n + expires
                          ELSE expiry = issued \/ (expiry = 1 /\ issued = Initial)
        BY <3>6, <4>1
      <4> QED BY <1>3, <2>0, <2>2, <3>0, <4>2 DEF Matches
    <3>5. \A q \in Requests : pc'[q] \in Unminted => NeedsRefresh'
      BY <1>3, <3>2 DEF Account
    <3> QED BY <2>0, <3>3, <3>4, <3>5 DEF Account
  <2> QED BY <2>1, <2>2
<1>4. CASE Expire \/ (\E t \in 1..MaxToken : Ages(t) \/ Spoils(t)) \/ UNCHANGED vars
  <2>1. UNCHANGED <<platform, pc, mode, mu, jar, issued, failed>>
    BY <1>4 DEF Expire, Ages, Spoils, vars, request, session
  <2>2. Expire \/ (UNCHANGED <<expiry, expires>> /\ aged \subseteq aged')
    BY <1>4 DEF Ages, Spoils, vars, site
  <2>3. Account BY <1>1, <2>1 DEF Shared
  <2> QED BY <1>3, <2>1, <2>2, <2>3
<1> QED BY <1>2, <1>4 DEF Next

\* Requests that wait for the mutex while one of them refreshes share what it
\* brings.
THEOREM RefreshesAreShared == Spec => []RefreshIsShared
<1>1. Init => Shared
  <2> SUFFICES ASSUME Init PROVE Account
    BY DEF Shared
  <2>1. Due = 0
    <3>1. aged \ {issued} = {} BY DEF Init
    <3> QED BY <3>1, FS_EmptySet DEF Due
  <2>2. Matches /\ issued <= Initial + Due + expires BY <2>1 DEF Init, Initial, Matches
  <2> QED BY <2>2 DEF Init, Account, Minted, Unminted
<1>2. Inv /\ Shared => RefreshIsShared
  <2> SUFFICES ASSUME Inv, Account PROVE issued <= Initial + Cardinality(aged) + expires
    BY DEF Shared, RefreshIsShared
  <2>1. Due \in Nat /\ Cardinality(aged) \in Nat /\ Due <= Cardinality(aged) BY DueGrows
  <2>2. issued \in Nat /\ expires \in Nat /\ Initial \in Nat
    BY ConstantsAssumption DEF Inv, Types, Initial
  <2> QED BY <2>1, <2>2 DEF Account
<1> QED BY <1>1, <1>2, InvInit, InvKept, SharedKept, PTL DEF Spec

-----------------------------------------------------------------------------
(* The number of tokens.                                                   *)

\* The requests that may have brought a new token before or instead of a
\* retry, and those that may have brought one for it.
First(q) ==
  \/ mode[q] = "reactive"
  \/ mode[q] = "proactive" /\ pc[q] \notin {"lock", "recheck"} \cup Unminted
Second(q) == mode[q] = "reactive" /\ pc[q] \notin {"lock"} \cup Unminted
Firsts == {q \in Requests : First(q)}
Seconds == {q \in Requests : Second(q)}

Counted == issued <= 2 + Cardinality(Firsts) + Cardinality(Seconds)

\* What a request has brought it does not bring again.
LEMMA OnceEach ==
  ASSUME Inv, NEW r \in Requests, Begin(r) \/ RoundTrips(r)
  PROVE  /\ Firsts \subseteq Firsts' /\ Seconds \subseteq Seconds'
         /\ \/ issued' = issued
            \/ issued' = issued + 1 /\ r \in Firsts' \ Firsts
            \/ issued' = issued + 1 /\ r \in Seconds' \ Seconds
<1>1. Types /\ Reason(r) BY DEF Inv, Sane
<1>2. \A q \in Requests \ {r} : pc'[q] = pc[q] /\ mode'[q] = mode[q] BY <1>1, Apart
<1>3. (First(r) => First(r)') /\ (Second(r) => Second(r)')
  <2> USE <1>1 DEF Types, First, Second, Reason, Unminted, Goto, Ends, Moves, Held, Refreshing
  <2>1. CASE Begin(r) \/ Check(r) \/ Lock(r) \/ Recheck(r)
    BY <2>1 DEF Begin, Check, Lock, Recheck, FirstStep
  <2>2. CASE Finalize(r) \/ Transfer(r) \/ TransferOthers(r) \/ Extract(r) \/ Generate(r)
    BY <2>2 DEF Finalize, Transfer, TransferOthers, Extract, Generate
  <2>3. CASE SetWebCookies(r) \/ Parse(r) \/ WriteExpiry(r) \/ RefreshFails(r)
    BY <2>3 DEF SetWebCookies, Parse, WriteExpiry, RefreshFails
  <2>4. CASE Patch(r) \/ Release(r) \/ Replay(r) \/ GetBodyFails(r)
    BY <2>4 DEF Patch, Release, Replay, GetBodyFails
  <2>5. CASE Accepted(r) \/ SendFails(r) \/ Redirected(r)
    BY <2>5 DEF Accepted, SendFails, Redirected, Retries
  <2> QED BY <2>1, <2>2, <2>3, <2>4, <2>5 DEF RoundTrips, Refreshes
<1>4. Firsts \subseteq Firsts'
  BY <1>2, <1>3 DEF Firsts, First
<1>5. Seconds \subseteq Seconds'
  BY <1>2, <1>3 DEF Seconds, Second
<1>6. CASE Transfer(r) \/ Generate(r)
  <2>1. /\ issued' = issued + 1 /\ mode'[r] = mode[r] /\ mode[r] \in {"proactive", "reactive"}
        /\ pc[r] \in Unminted /\ pc'[r] \in {"others", "cookies"}
    BY <1>1, <1>6 DEF Transfer, Generate, Moves, Goto, Types, Reason, Held, Refreshing, Unminted
  <2>2. CASE mode[r] = "proactive"
    BY <1>4, <1>5, <2>1, <2>2 DEF Firsts, First, Unminted
  <2>3. CASE mode[r] = "reactive"
    BY <1>4, <1>5, <2>1, <2>3 DEF Seconds, Second, Unminted
  <2> QED BY <1>4, <1>5, <2>1, <2>2, <2>3
<1>7. CASE ~(Transfer(r) \/ Generate(r))
  <2>1. UNCHANGED issued
    BY <1>7 DEF RoundTrips, Refreshes, Begin, Check, Lock, Recheck, Finalize, TransferOthers,
                Extract, SetWebCookies, Parse, WriteExpiry, RefreshFails, Patch, Release, Replay,
                GetBodyFails, Accepted, SendFails, Redirected, session
  <2> QED BY <1>4, <1>5, <2>1
<1> QED BY <1>6, <1>7

\* Every new token has its request.
LEMMA CountedKept ==
  ASSUME Inv, Counted, [Next]_vars
  PROVE  Counted'
<1>1. /\ Firsts \subseteq Firsts' /\ Seconds \subseteq Seconds'
      /\ \/ issued' = issued
         \/ \E r \in Requests : issued' = issued + 1 /\ r \in Firsts' \ Firsts
         \/ \E r \in Requests : issued' = issued + 1 /\ r \in Seconds' \ Seconds
  <2>1. CASE Expire \/ (\E t \in 1..MaxToken : Ages(t) \/ Spoils(t)) \/ UNCHANGED vars
    <3>1. UNCHANGED <<pc, mode, issued>>
      BY <2>1 DEF Expire, Ages, Spoils, vars, request, session
    <3> QED BY <3>1 DEF Firsts, Seconds, First, Second
  <2> QED BY <2>1, OnceEach DEF Next
<1>2. /\ IsFiniteSet(Firsts) /\ IsFiniteSet(Firsts')
      /\ IsFiniteSet(Seconds) /\ IsFiniteSet(Seconds')
  BY FS_Subset, ConstantsAssumption DEF Firsts, Seconds
<1>3. PICK a \in Nat, b \in Nat, c \in Nat, d \in Nat :
        /\ a = Cardinality(Firsts) /\ b = Cardinality(Firsts')
        /\ c = Cardinality(Seconds) /\ d = Cardinality(Seconds')
  BY <1>2, FS_CardinalityType
<1>4. a <= b /\ c <= d
  <2>1. Cardinality(Firsts) <= Cardinality(Firsts') BY <1>1, <1>2, FS_Subset
  <2>2. Cardinality(Seconds) <= Cardinality(Seconds') BY <1>1, <1>2, FS_Subset
  <2> QED BY <1>3, <2>1, <2>2
<1>5. issued \in Nat /\ issued <= 2 + a + c BY <1>3 DEF Inv, Types, Counted
<1>6. CASE issued' = issued
  <2>1. issued <= 2 + b + d BY <1>4, <1>5
  <2> QED BY <1>3, <1>6, <2>1 DEF Counted
<1>7. CASE \E r \in Requests : issued' = issued + 1 /\ r \in Firsts' \ Firsts
  <2>1. a # b
    <3>1. Firsts # Firsts' BY <1>7
    <3>2. Cardinality(Firsts) # Cardinality(Firsts') BY <1>1, <1>2, <3>1, FS_Subset
    <3> QED BY <1>3, <3>2
  <2>2. issued + 1 <= 2 + b + d BY <1>4, <1>5, <2>1
  <2> QED BY <1>3, <1>7, <2>2 DEF Counted
<1>8. CASE \E r \in Requests : issued' = issued + 1 /\ r \in Seconds' \ Seconds
  <2>1. c # d
    <3>1. Seconds # Seconds' BY <1>8
    <3>2. Cardinality(Seconds) # Cardinality(Seconds') BY <1>1, <1>2, <3>1, FS_Subset
    <3> QED BY <1>3, <3>2
  <2>2. issued + 1 <= 2 + b + d BY <1>4, <1>5, <2>1
  <2> QED BY <1>3, <1>8, <2>2 DEF Counted
<1> QED BY <1>1, <1>6, <1>7, <1>8

\* The values stay within their types: no request refreshes more than twice.
THEOREM TypeCorrect == Spec => []TypeOK
<1>1. Init => Counted
  <2>1. ASSUME Init PROVE Firsts = {} /\ Seconds = {}
    BY <2>1 DEF Init, Firsts, Seconds, First, Second
  <2> QED BY <2>1, FS_EmptySet DEF Init, Initial, Counted
<1>2. Inv /\ Counted => TypeOK
  <2> SUFFICES ASSUME Inv, Counted PROVE TypeOK
    OBVIOUS
  <2>1. Types /\ Tokens BY DEF Inv
  <2>2. issued <= MaxToken
    <3>1. /\ Cardinality(Firsts) <= Cardinality(Requests)
          /\ Cardinality(Seconds) <= Cardinality(Requests)
          /\ IsFiniteSet(Firsts) /\ IsFiniteSet(Seconds)
      BY FS_Subset, ConstantsAssumption DEF Firsts, Seconds
    <3>2. /\ Cardinality(Firsts) \in Nat /\ Cardinality(Seconds) \in Nat
          /\ Cardinality(Requests) \in Nat
      BY <3>1, FS_CardinalityType, ConstantsAssumption
    <3> QED BY <2>1, <3>1, <3>2 DEF Counted, MaxToken, Types
  <2>3. \A q \in Requests : cookie[q] \in 0..MaxToken
    BY <2>1, <2>2, TokenBound DEF Inv, Sane, Ordered, Types, Tokens
  <2>4. /\ expiry \in 0..MaxToken /\ access \in 0..MaxToken
        /\ jar \in 0..MaxToken /\ issued \in 0..MaxToken
        /\ aged \subseteq 1..MaxToken /\ spoiled \subseteq 1..MaxToken
    BY <2>1, <2>2, TokenBound DEF Types, Tokens
  <2> QED BY <2>1, <2>3, <2>4 DEF Types, TypeOK, Stages, Held
<1> QED BY <1>1, <1>2, InvInit, InvKept, CountedKept, PTL DEF Spec
=============================================================================
