---------------------------- MODULE AuthTransport ----------------------------
(***************************************************************************)
(* authTransport: concurrent requests to steamcommunity.com that refresh   *)
(* the access token before it expires (proactive) or after the site has    *)
(* answered with a redirect to its login page (reactive, one retry).  The  *)
(* mutex covers the refresh; the expiry is read outside of it, the cookie  *)
(* jar has a lock of its own, and the site may revoke a token at any time. *)
(* Abstraction: a token is its number in order of issue; a request carries *)
(* the token its Cookie header was made from; tokenExpiry is the token     *)
(* whose expiry it holds, 0 for the zero time.                             *)
(***************************************************************************)
EXTENDS Integers, FiniteSets

CONSTANTS
  Requests,    \* requests to steamcommunity.com
  Replayable,  \* those without a body, or whose GetBody is set
  NoOne,       \* holds the mutex when it is free
  MaxSpoils,   \* bound: tokens the site stops accepting
  MaxExpires   \* bound: calls of ExpireAuthTransportToken

ASSUME ConstantsAssumption ==
  /\ IsFiniteSet(Requests) /\ Replayable \subseteq Requests /\ NoOne \notin Requests
  /\ MaxSpoils \in Nat /\ MaxExpires \in Nat

\* A request refreshes at most twice.
MaxToken == 2 + 2 * Cardinality(Requests)

VARIABLES
  platform, \* of the session, fixed: "web" (WebBrowser) or "mobile" (MobileApp)
  pc,       \* where each request is
  mode,     \* why it last refreshed: "none", "proactive" or "reactive"
  cookie,   \* the token in its Cookie header
  result,   \* "none", "ok", "redirect" or "error"
  mu,       \* who holds authTransport.mu
  expiry,   \* tokenExpiry
  access,   \* Session.AccessToken
  jar,      \* the token in the cookie jar for steamcommunity.com
  issued,   \* tokens issued so far
  aged,     \* tokens within the refresh margin of their expiry
  spoiled,  \* tokens the site has stopped accepting
  expires,  \* calls of ExpireAuthTransportToken
  failed    \* requests whose refresh or replay failed

request == <<pc, mode, cookie, result>>
session == <<platform, access, jar, issued>>
site    == <<aged, spoiled>>
vars == <<request, mu, expiry, session, site, expires, failed>>

Refreshing == {"finalize", "transfer", "others", "extract",
               "generate", "cookies", "parse", "write"}

TypeOK ==
  /\ platform \in {"web", "mobile"}
  /\ pc \in [Requests -> {"idle", "check", "lock", "recheck", "patch", "release",
                          "replay", "send", "done"} \cup Refreshing]
  /\ mode \in [Requests -> {"none", "proactive", "reactive"}]
  /\ cookie \in [Requests -> 0..MaxToken]
  /\ result \in [Requests -> {"none", "ok", "redirect", "error"}]
  /\ mu \in Requests \cup {NoOne}
  /\ expiry \in 0..MaxToken /\ access \in 0..MaxToken
  /\ jar \in 0..MaxToken /\ issued \in 0..MaxToken
  /\ aged \subseteq 1..MaxToken /\ spoiled \subseteq 1..MaxToken
  /\ expires \in 0..MaxExpires
  /\ failed \subseteq Requests

\* Token 1 came with the login.  On WebBrowser it never reaches the jar: there
\* FinalizeLogin has put another one.
Initial == IF platform = "web" THEN 2 ELSE 1

\* GetWebCookies has installed the transport, with the expiry of token 1.
Init ==
  /\ platform \in {"web", "mobile"}
  /\ pc = [r \in Requests |-> "idle"]
  /\ mode = [r \in Requests |-> "none"]
  /\ cookie = [r \in Requests |-> 0]
  /\ result = [r \in Requests |-> "none"]
  /\ mu = NoOne
  /\ expiry = 1 /\ access = 1 /\ jar = Initial /\ issued = Initial
  /\ aged = {} /\ spoiled = {} /\ expires = 0 /\ failed = {}

Goto(r, l) == pc' = [pc EXCEPT ![r] = l]

Ends(r, outcome) ==
  /\ Goto(r, "done")
  /\ result' = [result EXCEPT ![r] = outcome]

-----------------------------------------------------------------------------
(* RoundTrip up to the first answer.                                       *)

\* The http.Client puts the jar's cookies on the request.
Begin(r) ==
  /\ pc[r] = "idle"
  /\ cookie' = [cookie EXCEPT ![r] = jar]
  /\ Goto(r, "check")
  /\ UNCHANGED <<mode, result, mu, expiry, session, site, expires, failed>>

NeedsRefresh == expiry = 0 \/ expiry \in aged

\* needsRefresh without the mutex: a read that races with the write of
\* tokenExpiry may find either answer.
UnlockedAnswers ==
  IF \E q \in Requests : pc[q] = "write" THEN BOOLEAN ELSE {NeedsRefresh}

Check(r) ==
  /\ pc[r] = "check"
  /\ \E needed \in UnlockedAnswers :
       /\ Goto(r, IF needed THEN "lock" ELSE "send")
       /\ mode' = [mode EXCEPT ![r] = IF needed THEN "proactive" ELSE "none"]
  /\ UNCHANGED <<cookie, result, mu, expiry, session, site, expires, failed>>

FirstStep == IF platform = "mobile" THEN "generate" ELSE "finalize"

Lock(r) ==
  /\ pc[r] = "lock" /\ mu = NoOne
  /\ mu' = r
  /\ Goto(r, IF mode[r] = "proactive" THEN "recheck" ELSE FirstStep)
  /\ UNCHANGED <<mode, cookie, result, expiry, session, site, expires, failed>>

\* refreshAndPatchRequest asks again, and returns nil if another goroutine
\* refreshed while this one waited.
StillNeededBug_NotAsked == TRUE
StillNeeded == NeedsRefresh

Recheck(r) ==
  /\ pc[r] = "recheck"
  /\ IF StillNeeded
     THEN Goto(r, FirstStep) /\ UNCHANGED mu
     ELSE Goto(r, "send") /\ mu' = NoOne
  /\ UNCHANGED <<mode, cookie, result, expiry, session, site, expires, failed>>

-----------------------------------------------------------------------------
(* refresh, with the mutex held.                                           *)

Moves(r, from, to) ==
  /\ pc[r] = from /\ Goto(r, to)
  /\ UNCHANGED <<mode, cookie, result, mu, site, expires, failed>>

\* WebBrowser: the finalizelogin request of FinalizeLogin.
Finalize(r) == Moves(r, "finalize", "transfer") /\ UNCHANGED <<expiry, session>>

\* submitTransferInfo goes to steamcommunity.com through this very transport;
\* the bypass key in its context keeps it from needing the mutex.
BypassedBug_Forgotten == FALSE
Bypassed == TRUE

GetsThrough == Bypassed \/ ~NeedsRefresh

Transfer(r) ==
  /\ GetsThrough
  /\ Moves(r, "transfer", "others")
  /\ issued' = issued + 1
  /\ jar' = issued'
  /\ UNCHANGED <<platform, expiry, access>>

\* The transfers for the other domains.
TransferOthers(r) == Moves(r, "others", "extract") /\ UNCHANGED <<expiry, session>>

\* accessTokenFromJar.
Extract(r) ==
  /\ Moves(r, "extract", "parse")
  /\ access' = jar
  /\ UNCHANGED <<platform, expiry, jar, issued>>

\* MobileApp: GenerateAccessTokenForApp, then setWebCookies.
Generate(r) ==
  /\ Moves(r, "generate", "cookies")
  /\ issued' = issued + 1
  /\ access' = issued'
  /\ UNCHANGED <<platform, expiry, jar>>

CookieSetBug_Skipped == jar
CookieSet == access

SetWebCookies(r) ==
  /\ Moves(r, "cookies", "parse")
  /\ jar' = CookieSet
  /\ UNCHANGED <<platform, expiry, access, issued>>

Parse(r) == Moves(r, "parse", "write") /\ UNCHANGED <<expiry, session>>

WriteExpiry(r) ==
  /\ Moves(r, "write", IF mode[r] = "proactive" THEN "patch" ELSE "release")
  /\ expiry' = access
  /\ UNCHANGED session

\* A refresh that fails keeps what it has done so far.  RoundTrip then returns
\* an error, or the redirect it tried to recover from.
RefreshFails(r) ==
  /\ pc[r] \in {"finalize", "transfer", "others", "extract", "generate", "parse"}
  /\ pc[r] = "transfer" => GetsThrough
  /\ Ends(r, IF mode[r] = "proactive" THEN "error" ELSE "redirect")
  /\ failed' = failed \cup {r}
  /\ mu' = NoOne
  /\ UNCHANGED <<mode, cookie, expiry, session, site, expires>>

-----------------------------------------------------------------------------
(* After the refresh.                                                      *)

PatchedBug_Kept(r) == cookie
Patched(r) == [cookie EXCEPT ![r] = jar]

\* patchRequestCookies of the proactive refresh, still under the mutex.
Patch(r) ==
  /\ pc[r] = "patch"
  /\ cookie' = Patched(r)
  /\ mu' = NoOne
  /\ Goto(r, "send")
  /\ UNCHANGED <<mode, result, expiry, session, site, expires, failed>>

\* The reactive one unlocks first, rewinds the body and then patches.
Release(r) ==
  /\ pc[r] = "release"
  /\ mu' = NoOne
  /\ Goto(r, "replay")
  /\ UNCHANGED <<mode, cookie, result, expiry, session, site, expires, failed>>

Replay(r) ==
  /\ pc[r] = "replay"
  /\ cookie' = Patched(r)
  /\ Goto(r, "send")
  /\ UNCHANGED <<mode, result, mu, expiry, session, site, expires, failed>>

GetBodyFails(r) ==
  /\ pc[r] = "replay"
  /\ Ends(r, "redirect")
  /\ failed' = failed \cup {r}
  /\ UNCHANGED <<mode, cookie, mu, expiry, session, site, expires>>

-----------------------------------------------------------------------------
(* The base transport and the site.                                        *)

Accepted(r) ==
  /\ pc[r] = "send" /\ cookie[r] \notin spoiled
  /\ Ends(r, "ok")
  /\ UNCHANGED <<mode, cookie, mu, expiry, session, site, expires, failed>>

SendFails(r) ==
  /\ pc[r] = "send"
  /\ Ends(r, "error")
  /\ UNCHANGED <<mode, cookie, mu, expiry, session, site, expires, failed>>

\* retryAfterRefresh is entered for the first redirect only.
Retries(r) == mode[r] # "reactive" /\ r \in Replayable

Redirected(r) ==
  /\ pc[r] = "send" /\ cookie[r] \in spoiled
  /\ IF Retries(r)
     THEN /\ Goto(r, "lock")
          /\ mode' = [mode EXCEPT ![r] = "reactive"]
          /\ UNCHANGED result
     ELSE Ends(r, "redirect") /\ UNCHANGED mode
  /\ UNCHANGED <<cookie, mu, expiry, session, site, expires, failed>>

\* ExpireAuthTransportToken.
Expire ==
  /\ mu = NoOne /\ expires < MaxExpires
  /\ expiry' = 0
  /\ expires' = expires + 1
  /\ UNCHANGED <<request, mu, session, site, failed>>

\* Time brings a token within the margin of its expiry.
Ages(t) ==
  /\ t <= issued /\ t \notin aged
  /\ aged' = aged \cup {t}
  /\ UNCHANGED <<request, mu, expiry, session, spoiled, expires, failed>>

\* The site revokes a token, or it expires.
Spoils(t) ==
  /\ t <= issued /\ t \notin spoiled /\ Cardinality(spoiled) < MaxSpoils
  /\ spoiled' = spoiled \cup {t}
  /\ UNCHANGED <<request, mu, expiry, session, aged, expires, failed>>

-----------------------------------------------------------------------------

Refreshes(r) ==
  \/ Finalize(r) \/ Transfer(r) \/ TransferOthers(r) \/ Extract(r)
  \/ Generate(r) \/ SetWebCookies(r)
  \/ Parse(r) \/ WriteExpiry(r) \/ RefreshFails(r)

RoundTrips(r) ==
  \/ Check(r) \/ Lock(r) \/ Recheck(r) \/ Refreshes(r)
  \/ Patch(r) \/ Release(r) \/ Replay(r) \/ GetBodyFails(r)
  \/ Accepted(r) \/ SendFails(r) \/ Redirected(r)

Next ==
  \/ \E r \in Requests : Begin(r) \/ RoundTrips(r)
  \/ Expire
  \/ \E t \in 1..MaxToken : Ages(t) \/ Spoils(t)

Spec == Init /\ [][Next]_vars

\* Goroutines run, and every HTTP exchange ends in an answer or an error.
FairSpec == Spec /\ \A r \in Requests : WF_vars(RoundTrips(r))

-----------------------------------------------------------------------------
\* The expiry the transport goes by is never that of a token that has not yet
\* reached the cookie jar: whatever fails half-way, it does not come to trust
\* a token the requests do not carry.
ExpiryIsCovered == expiry <= jar

\* Requests that wait for the mutex during a proactive refresh share it: as
\* long as nothing fails and the site accepts every token, there is one new
\* token at most for each that has aged or been expired by the caller.
RefreshIsShared ==
  (failed = {} /\ spoiled = {}) => issued <= Initial + Cardinality(aged) + expires

\* "If Steam responds with a redirect to the login page (e.g. server-side
\* token revocation), refreshes and retries once": one revocation, whenever it
\* comes, is not seen by the caller of a request that can be replayed.
RevocationIsHidden ==
  Cardinality(spoiled) <= 1 =>
    \A r \in Replayable \ failed : result[r] # "redirect"

\* Every request ends: the refresh, which itself sends requests through the
\* transport, never waits for the mutex it holds.
RequestsEnd == \A r \in Requests : (pc[r] = "check") ~> (pc[r] = "done")
=============================================================================
