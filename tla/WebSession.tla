------------------------------ MODULE WebSession ------------------------------
(***************************************************************************)
(* A web session from the password to the requests of the community client:*)
(* the login and its polling, the session file with crashes of the program *)
(* in between, the cookies for two domains, and the credentials that       *)
(* Community and Store copy out of the cookie jar.                         *)
(* Abstraction: the tokens of a login are its number, which is also that of*)
(* its pending authentication; session ids are numbers in order of creation*)
(* and an account is its SteamID.  0 stands for everything not yet there.  *)
(***************************************************************************)
EXTENDS Naturals, Sequences

CONSTANTS
  Platforms,     \* platform types: "browser", "mobile", "client"
  Accounts,      \* positive numbers
  Users,         \* goroutines that call methods of one Community
  MaxLogins,     \* bound on StartWithCredentials
  MaxIDs,        \* bound on GetWebCookies
  MaxCrashes,
  Spaced         \* no goroutine enters Community while another fills its cache

ASSUME SessionAssumption == Accounts \subseteq Nat \ {0} /\ MaxLogins \in Nat /\ MaxIDs \in Nat

VARIABLES
  platform,   \* the platform type that the Session was made with
  s,          \* the fields of Session
  main,       \* program counter of the goroutine that uses the Session
  loaded,     \* history: LoadFromFile has come after StartWithCredentials
  apart,      \* history: where a SteamID may stand beside another account's tokens
  logins,     \* the server's authentications: [owner, approved]
  file,       \* the session file
  jar,        \* the cookies of each domain
  com,        \* Community: its cached sessionID and SteamID
  user,       \* program counter of each goroutine in a method of Community
  shop,       \* Store: likewise, and whether New has returned
  stale,      \* com may differ from the jar: the Session has made other credentials since
  count       \* session ids and crashes so far

session_vars == <<s, main, loaded, apart>>
client_vars == <<com, user, shop, stale>>
vars == <<platform, session_vars, logins, file, jar, client_vars, count>>

Places == {"session", "file", "community", "store"}
Domains == <<"community", "store">>

NoSession == [client |-> 0, id |-> 0, refresh |-> 0, access |-> 0, sessionid |-> 0]
NoCookies == [d \in {"community", "store"} |-> [sessionid |-> 0, id |-> 0, token |-> 0]]
NoFile == [state |-> "absent", refresh |-> 0, access |-> 0, id |-> 0]
NoCreds == [sessionid |-> 0, id |-> 0]
NoShop == [sessionid |-> 0, id |-> 0, made |-> FALSE, stale |-> TRUE]

Init ==
  /\ platform \in Platforms
  /\ s = NoSession /\ main = "idle" /\ loaded = FALSE /\ apart = {}
  /\ logins = <<>>
  /\ file = NoFile /\ jar = NoCookies
  /\ com = NoCreds /\ user = [u \in Users |-> "idle"] /\ stale = TRUE
  /\ shop = NoShop
  /\ count = [ids |-> 0, crashes |-> 0]

-----------------------------------------------------------------------------
(* Login.                                                                  *)

\* What decides whether a call of IAuthenticationService succeeds: UpdateAuth-
\* SessionWithSteamGuardCode looks at nothing but the EResult header.
Answers == [ok : BOOLEAN, eresult : BOOLEAN, whole : BOOLEAN]
Accepted(a) == a.ok /\ a.eresult /\ a.whole
CodeAccepted(a) == a.eresult
\* What place has now comes from the Session, and is mixed if that is.
Copied(place) == apart' = IF "session" \in apart THEN apart \cup {place} ELSE apart \ {place}

Outdated == stale' = TRUE /\ shop' = [shop EXCEPT !.stale = TRUE]

\* Key, encrypted password, begin: nothing is assigned before both answers are
\* in.  Then the SteamID is the new account's, the tokens an earlier one's.
StartWithCredentials ==
  /\ main = "idle" /\ Len(logins) < MaxLogins
  /\ \E acct \in Accounts :
        /\ logins' = Append(logins, [owner |-> acct, approved |-> FALSE])
        /\ \E a \in Answers :
              IF Accepted(a)
              THEN /\ s' = [s EXCEPT !.client = Len(logins'), !.id = acct]
                   /\ loaded' = FALSE /\ apart' = apart \cup {"session"}
                   /\ Outdated
              ELSE UNCHANGED <<s, loaded, apart, stale, shop>>
  /\ UNCHANGED <<platform, main, file, jar, com, user, count>>

Approves(n) == logins' = [logins EXCEPT ![n].approved = TRUE]

\* The code may be wrong, or taken and its answer lost; it goes to the login
\* that was started last, whatever has been loaded since.
SubmitSteamGuardCode ==
  /\ main = "idle" /\ s.client # 0 /\ ~logins[s.client].approved
  /\ \E a \in Answers :
        IF CodeAccepted(a) THEN Approves(s.client) ELSE Approves(s.client) \/ UNCHANGED logins
  /\ UNCHANGED <<platform, session_vars, file, jar, client_vars, count>>

\* Another device may approve the login.
ApprovedElsewhere ==
  /\ \E n \in DOMAIN logins : ~logins[n].approved /\ Approves(n)
  /\ UNCHANGED <<platform, session_vars, file, jar, client_vars, count>>

\* The tokens of the login that the poll asked about, whole or not at all.
Taken(n) == [s EXCEPT !.refresh = n, !.access = n]

PollAuthSessionStatus ==
  /\ main = "idle" /\ main' = "poll"
  /\ UNCHANGED <<platform, s, loaded, apart, logins, file, jar, client_vars, count>>

\* The answer has the tokens of an approved login, none while it is pending.
\* They come beside the SteamID of that login, unless a file was loaded since.
PollAnswered ==
  /\ main = "poll" /\ s.client # 0
  /\ \/ /\ logins[s.client].approved
        /\ s' = Taken(s.client)
        /\ apart' = IF loaded THEN apart \cup {"session"} ELSE apart \ {"session"}
     \/ ~logins[s.client].approved /\ UNCHANGED <<s, apart>>   \* "access token is nil"
  /\ main' = "idle" /\ UNCHANGED loaded
  /\ UNCHANGED <<platform, logins, file, jar, client_vars, count>>

\* Any error is waited out, for ever, an expired login's too; only the context
\* ends the loop.
AfterErrorBug_GivesUp == "idle"
AfterError == "poll"

PollFails ==
  /\ main = "poll" /\ main' = AfterError
  /\ UNCHANGED <<platform, s, loaded, apart, logins, file, jar, client_vars, count>>

PollCancelled ==
  /\ \/ main = "poll" /\ main' = "cancelled"
     \/ main = "cancelled" /\ main' = "idle"
  /\ UNCHANGED <<platform, s, loaded, apart, logins, file, jar, client_vars, count>>

-----------------------------------------------------------------------------
(* The session file.                                                       *)

\* os.WriteFile truncates the file and then writes it.
SaveToFile ==
  /\ main = "idle" /\ s.refresh # 0
  /\ main' = "save" /\ file' = [NoFile EXCEPT !.state = "torn"]
  /\ UNCHANGED <<platform, s, loaded, apart, logins, jar, client_vars, count>>

Snapshot == [state |-> "whole", refresh |-> s.refresh, access |-> s.access, id |-> s.id]

Saved ==
  /\ main = "save" /\ main' = "idle"
  /\ file' = Snapshot /\ Copied("file")
  /\ UNCHANGED <<platform, s, loaded, logins, jar, client_vars, count>>

Readable == file.state = "whole"

RestoredBug_KeepsID == [s EXCEPT !.refresh = file.refresh, !.access = file.access]
Restored == [s EXCEPT !.refresh = file.refresh, !.access = file.access, !.id = file.id]

\* What cannot be read or unmarshalled changes nothing.  A login that is
\* pending stays so, and a later poll still asks about it.
LoadFromFile ==
  /\ main = "idle" /\ Readable
  /\ s' = Restored /\ Outdated
  /\ loaded' = (s.client # 0)
  /\ apart' = IF "file" \in apart THEN apart \cup {"session"} ELSE apart \ {"session"}
  /\ UNCHANGED <<platform, main, logins, file, jar, com, user, count>>

\* The program ends at any point and starts again; only the file stays.
Crash ==
  /\ count.crashes < MaxCrashes
  /\ s' = NoSession /\ main' = "idle" /\ loaded' = FALSE /\ apart' = apart \cap {"file"}
  /\ jar' = NoCookies /\ com' = NoCreds /\ user' = [u \in Users |-> "idle"] /\ stale' = TRUE
  /\ shop' = NoShop
  /\ count' = [count EXCEPT !.crashes = @ + 1]
  /\ UNCHANGED <<platform, logins, file>>

-----------------------------------------------------------------------------
(* Cookies.                                                                *)

\* A fresh session id at once, even if the rest then fails; a token that is
\* sent as it is may have expired.
GetWebCookies ==
  /\ main = "idle" /\ s.refresh # 0 /\ count.ids < MaxIDs
  /\ count' = [count EXCEPT !.ids = @ + 1]
  /\ s' = [s EXCEPT !.sessionid = count.ids + 1]
  /\ Outdated
  /\ main' \in IF platform = "browser" THEN {"finalize"} ELSE {"set1", "idle"}
  /\ UNCHANGED <<platform, loaded, apart, logins, file, jar, com, user>>

\* setWebCookies: sessionid and steamLoginSecure, one domain after the other.
LoginCookie == [sessionid |-> s.sessionid, id |-> s.id, token |-> s.access]

SetWebCookies(i) ==
  /\ main = <<"set1", "set2">>[i]
  /\ jar' = [jar EXCEPT ![Domains[i]] = LoginCookie] /\ Copied(Domains[i])
  /\ main' = <<"set2", "idle">>[i]
  /\ UNCHANGED <<platform, s, loaded, logins, file, client_vars, count>>

\* FinalizeLogin: one exchange, then for each domain the sessionid cookie and
\* the transfer whose answer sets the login cookie; the first failure ends it.
FinalizeAnswered ==
  /\ main = "finalize" /\ main' \in {"xfer1", "idle"}
  /\ UNCHANGED <<platform, s, loaded, apart, logins, file, jar, client_vars, count>>

SubmitTransferInfo(i) ==
  /\ main = <<"xfer1", "xfer2">>[i]
  /\ jar' = [jar EXCEPT ![Domains[i]].sessionid = s.sessionid]
  /\ main' = <<"post1", "post2">>[i]
  /\ UNCHANGED <<platform, s, loaded, apart, logins, file, client_vars, count>>

\* The server does not take another account's SteamID along with the nonce.
TransferAnswered(i) ==
  /\ main = <<"post1", "post2">>[i]
  /\ \/ /\ logins[s.refresh].owner = s.id
        /\ jar' = [jar EXCEPT ![Domains[i]].id = s.id, ![Domains[i]].token = s.refresh]
        /\ apart' = apart \ {Domains[i]}
        /\ main' = <<"xfer2", "idle">>[i]
     \/ main' = "idle" /\ UNCHANGED <<jar, apart>>
  /\ UNCHANGED <<platform, s, loaded, logins, file, client_vars, count>>

\* authTransport renews the token and the cookies of a domain beside all this;
\* module AuthTransport has the details.
Refresh ==
  /\ s.sessionid # 0 /\ platform # "client"
  /\ s.refresh # 0 /\ logins[s.refresh].owner = s.id
  /\ \E d \in DOMAIN jar :
        /\ jar' = [jar EXCEPT ![d] = [sessionid |-> s.sessionid, id |-> s.id, token |-> s.refresh]]
        /\ apart' = apart \ {d}
  /\ UNCHANGED <<platform, s, main, loaded, logins, file, client_vars, count>>

-----------------------------------------------------------------------------
(* Community and Store.                                                    *)

Filling(v) == user[v] \in {"take", "identify"}

\* The cookies are about to change, or lag behind a GetWebCookies that failed.
Unsettled(d) == jar[d].sessionid # s.sessionid \/ jar[d].id # s.id \/ main \in {"xfer1", "xfer2", "post1", "post2"}

\* ensureInit: a cached sessionID is enough.
Call(u) ==
  /\ user[u] = "idle"
  /\ Spaced => \A v \in Users : ~Filling(v)
  /\ user' = [user EXCEPT ![u] = IF com.sessionid # 0 THEN "request" ELSE "take"]
  /\ UNCHANGED <<platform, session_vars, logins, file, jar, com, shop, stale, count>>

TakeSessionID(u) ==
  /\ user[u] = "take"
  /\ com' = [com EXCEPT !.sessionid = jar["community"].sessionid]
  /\ user' = [user EXCEPT ![u] = IF com'.sessionid = 0 THEN "idle" ELSE "identify"]
  /\ stale' = Unsettled("community")
  /\ UNCHANGED <<platform, session_vars, logins, file, jar, shop, count>>

\* Without a login cookie the sessionID is dropped again, so that the next call retries.
CachedBug_KeepsSession(c) == [com EXCEPT !.id = c.id]
Cached(c) == IF c.token = 0 THEN NoCreds ELSE [com EXCEPT !.id = c.id]

TakeSteamID(u) ==
  /\ user[u] = "identify"
  /\ com' = Cached(jar["community"])
  /\ user' = [user EXCEPT ![u] = IF jar["community"].token = 0 THEN "idle" ELSE "request"]
  /\ UNCHANGED <<platform, session_vars, logins, file, jar, shop, stale, count>>

\* The form has what is cached by now; the cookies are added from the jar.
Requests(u) == user[u] = "request"
Whole == com.sessionid # 0 /\ com.id # 0
Fits == com.sessionid = jar["community"].sessionid /\ com.id = jar["community"].id

Request(u) ==
  /\ Requests(u)
  /\ user' = [user EXCEPT ![u] = "idle"]
  /\ UNCHANGED <<platform, session_vars, logins, file, jar, com, shop, stale, count>>

\* steamstore.New: both from the jar, once; without either there is no Store.
NewStore ==
  /\ main = "idle" /\ ~shop.made
  /\ jar["store"].sessionid # 0 /\ jar["store"].token # 0
  /\ shop' = [sessionid |-> jar["store"].sessionid, id |-> jar["store"].id, made |-> TRUE, stale |-> Unsettled("store")]
  /\ UNCHANGED <<platform, session_vars, logins, file, jar, com, user, stale, count>>

-----------------------------------------------------------------------------
Next ==
  \/ StartWithCredentials \/ SubmitSteamGuardCode \/ ApprovedElsewhere
  \/ PollAuthSessionStatus \/ PollAnswered \/ PollFails \/ PollCancelled
  \/ SaveToFile \/ Saved \/ LoadFromFile \/ Crash
  \/ GetWebCookies \/ FinalizeAnswered \/ Refresh
  \/ \E i \in 1..2 : SetWebCookies(i) \/ SubmitTransferInfo(i) \/ TransferAnswered(i)
  \/ \E u \in Users : Call(u) \/ TakeSessionID(u) \/ TakeSteamID(u) \/ Request(u)
  \/ NewStore

Spec == Init /\ [][Next]_vars

\* A poll repeated for long enough is answered, also about a login whose tokens
\* were handed out before.
FairSpec == Spec /\ WF_main(PollAnswered)

-----------------------------------------------------------------------------
TypeOK ==
  /\ s \in [client : 0..MaxLogins, id : Accounts \cup {0}, refresh : 0..MaxLogins,
            access : 0..MaxLogins, sessionid : 0..MaxIDs]
  /\ main \in {"idle", "poll", "cancelled", "save", "set1", "set2", "finalize", "xfer1", "xfer2", "post1", "post2"}
  /\ file.state \in {"absent", "torn", "whole"} /\ (Readable <=> file.refresh # 0)
  /\ \A d \in DOMAIN jar : jar[d].token # 0 => jar[d].sessionid # 0 /\ jar[d].id # 0
  /\ user \in [Users -> {"idle", "take", "identify", "request"}]
  /\ loaded \in BOOLEAN /\ apart \subseteq Places

\* Through logins of several accounts, polls, saving, crashes, loading and
\* refreshes, in any order, the SteamID in the session, the file and the cookies
\* is that of the account whose tokens stand beside it.  Only two calls part
\* them: StartWithCredentials, until its login has come or a file is loaded, and
\* a poll that is answered after a LoadFromFile, since neither SaveToFile nor
\* LoadFromFile ends a login; and what is saved or set as a cookie from a
\* Session whose two halves are apart is apart as well.
OneAccount ==
  /\ s.refresh # 0 /\ "session" \notin apart => logins[s.refresh].owner = s.id
  /\ Readable /\ "file" \notin apart =>
       logins[file.refresh].owner = file.id /\ file.access = file.refresh
  /\ \A d \in DOMAIN jar :
       jar[d].token # 0 /\ d \notin apart => logins[jar[d].token].owner = jar[d].id

\* What Community and Store have cached stays what the cookies say, whatever
\* fails or is refreshed, until the Session logs in, is loaded or asks for
\* cookies again; entered one at a
\* time, Community makes no request without an id or a session.
RequestsAgree ==
  /\ Spaced => \A u \in Users : Requests(u) => Whole /\ (Fits \/ stale)
  /\ shop.made /\ ~shop.stale => shop.sessionid = jar["store"].sessionid /\ shop.id = jar["store"].id

\* Errors do not end a poll: once the login is approved it brings the tokens.
PollSucceeds ==
  (main = "poll" /\ s.client # 0 /\ logins[s.client].approved)
    ~> (s.refresh = s.client \/ main = "cancelled")
=============================================================================
