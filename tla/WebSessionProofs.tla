--------------------------- MODULE WebSessionProofs ---------------------------
(***************************************************************************)
(* A web session for any number of accounts, logins, crashes, refreshes    *)
(* and users of one Community: where a SteamID stands beside the tokens of     *)
(* another account, and that Community and Store send what the cookies say.*)
(***************************************************************************)
EXTENDS WebSession, SequenceTheorems, TLAPS

Sites == {"community", "store"}

\* The stages of GetWebCookies after its session id is made.
Baking == {"set1", "set2", "finalize", "xfer1", "xfer2", "post1", "post2"}
MainPcs == {"idle", "poll", "cancelled", "save"} \cup Baking

LoginsType ==
  /\ logins \in Seq([owner : Accounts, approved : BOOLEAN])
  /\ count \in [ids : 0..MaxIDs, crashes : Nat]
SessionType ==
  /\ s \in [client : 0..Len(logins), id : Accounts \cup {0}, refresh : 0..Len(logins),
            access : 0..Len(logins), sessionid : 0..MaxIDs]
  /\ main \in MainPcs /\ loaded \in BOOLEAN /\ apart \subseteq Places
FileType ==
  file \in [state : {"absent", "torn", "whole"}, refresh : 0..Len(logins),
            access : 0..Len(logins), id : Accounts \cup {0}]
JarType ==
  jar \in [Sites -> [sessionid : 0..MaxIDs, id : Accounts \cup {0}, token : 0..Len(logins)]]
ClientType ==
  /\ com \in [sessionid : 0..MaxIDs, id : Accounts \cup {0}]
  /\ user \in [Users -> {"idle", "take", "identify", "request"}]

Types ==
  LoginsType /\ Len(logins) <= MaxLogins /\ SessionType /\ FileType /\ JarType /\ ClientType

-----------------------------------------------------------------------------
(* The server's authentications.                                           *)

\* An authentication, once begun, stays and keeps its owner.
LEMMA OwnersKept ==
  ASSUME Types, [Next]_vars
  PROVE  /\ LoginsType' /\ Len(logins) \in Nat /\ Len(logins') \in Nat
         /\ Len(logins) <= Len(logins') /\ Len(logins') <= MaxLogins
         /\ \A n \in 1..Len(logins) : logins'[n].owner = logins[n].owner
         /\ DOMAIN logins = 1..Len(logins)
<1> USE SessionAssumption
<1>0. /\ LoginsType /\ SessionType /\ Len(logins) \in Nat /\ Len(logins) <= MaxLogins
      /\ DOMAIN logins = 1..Len(logins)
  BY DEF Types, LoginsType
<1>1. ASSUME UNCHANGED logins, count' \in [ids : 0..MaxIDs, crashes : Nat]
      PROVE  /\ LoginsType' /\ Len(logins') \in Nat
             /\ Len(logins) <= Len(logins') /\ Len(logins') <= MaxLogins
             /\ \A n \in 1..Len(logins) : logins'[n].owner = logins[n].owner
  BY <1>0, <1>1 DEF LoginsType
<1>2. ASSUME NEW n \in 1..Len(logins), Approves(n), UNCHANGED count
      PROVE  /\ LoginsType' /\ Len(logins') \in Nat
             /\ Len(logins) <= Len(logins') /\ Len(logins') <= MaxLogins
             /\ \A m \in 1..Len(logins) : logins'[m].owner = logins[m].owner
  <2> DEFINE e == [logins[n] EXCEPT !.approved = TRUE]
             T == [owner : Accounts, approved : BOOLEAN]
  <2>1. logins' = [logins EXCEPT ![n] = e] BY <1>2 DEF Approves
  <2>2. logins \in Seq(T) /\ logins[n] \in T BY <1>0, ElementOfSeq DEF LoginsType
  <2>3. e \in T /\ e.owner = logins[n].owner BY <2>2
  <2>4. /\ logins' \in Seq(T) /\ Len(logins') = Len(logins)
        /\ \A m \in 1..Len(logins) : logins'[m] = IF m = n THEN e ELSE logins[m]
    <3> HIDE DEF e, T
    <3> QED BY <2>1, <2>2, <2>3, ExceptSeq
  <2>5. \A m \in 1..Len(logins) : logins'[m].owner = logins[m].owner BY <2>3, <2>4
  <2> QED BY <1>0, <1>2, <2>4, <2>5 DEF LoginsType
<1>3. CASE StartWithCredentials
  <2>1. PICK a \in Accounts : logins' = Append(logins, [owner |-> a, approved |-> FALSE])
    BY <1>3 DEF StartWithCredentials
  <2>2. Len(logins) < MaxLogins /\ UNCHANGED count BY <1>3 DEF StartWithCredentials
  <2>3. logins \in Seq([owner : Accounts, approved : BOOLEAN]) BY <1>0 DEF LoginsType
  <2>4. [owner |-> a, approved |-> FALSE] \in [owner : Accounts, approved : BOOLEAN] OBVIOUS
  <2>5. /\ logins' \in Seq([owner : Accounts, approved : BOOLEAN])
        /\ Len(logins') = Len(logins) + 1
        /\ \A n \in 1..Len(logins) : logins'[n] = logins[n]
    BY <2>1, <2>3, <2>4
  <2> QED BY <1>0, <2>2, <2>5 DEF LoginsType
<1>4. CASE SubmitSteamGuardCode
  <2>1. UNCHANGED count /\ s.client # 0 /\ (Approves(s.client) \/ UNCHANGED logins)
    BY <1>4 DEF SubmitSteamGuardCode
  <2>2. UNCHANGED logins => count' \in [ids : 0..MaxIDs, crashes : Nat]
    BY <1>0, <2>1 DEF LoginsType
  <2>3. s.client \in 0..Len(logins) BY <1>0 DEF SessionType
  <2> QED BY <1>0, <1>1, <1>2, <2>1, <2>2, <2>3
<1>5. CASE ApprovedElsewhere
  BY <1>0, <1>2, <1>5 DEF ApprovedElsewhere
<1>6. CASE Crash \/ GetWebCookies
  <2>1. UNCHANGED logins BY <1>6 DEF Crash, GetWebCookies
  <2>2. count' \in [ids : 0..MaxIDs, crashes : Nat]
    <3>1. \/ count' = [count EXCEPT !.crashes = @ + 1]
          \/ count.ids < MaxIDs /\ count' = [count EXCEPT !.ids = @ + 1]
      BY <1>6 DEF Crash, GetWebCookies
    <3>2. count \in [ids : 0..MaxIDs, crashes : Nat] BY <1>0 DEF LoginsType
    <3> QED BY <3>1, <3>2
  <2> QED BY <1>0, <1>1, <2>1, <2>2
<1>7. CASE UNCHANGED <<logins, count>>
  BY <1>0, <1>1, <1>7 DEF LoginsType
<1>8. CASE \/ PollAuthSessionStatus \/ PollAnswered \/ PollFails \/ PollCancelled
           \/ SaveToFile \/ Saved \/ LoadFromFile \/ FinalizeAnswered \/ Refresh \/ NewStore
           \/ UNCHANGED vars
  BY <1>7, <1>8 DEF PollAuthSessionStatus, PollAnswered, PollFails, PollCancelled, SaveToFile,
                    Saved, LoadFromFile, FinalizeAnswered, Refresh, NewStore, vars
<1>9. ASSUME NEW i \in 1..2, SetWebCookies(i) \/ SubmitTransferInfo(i) \/ TransferAnswered(i)
      PROVE UNCHANGED <<logins, count>>
  BY <1>9 DEF SetWebCookies, SubmitTransferInfo, TransferAnswered
<1>10. ASSUME NEW u \in Users, Call(u) \/ TakeSessionID(u) \/ TakeSteamID(u) \/ Request(u)
       PROVE UNCHANGED <<logins, count>>
  BY <1>10 DEF Call, TakeSessionID, TakeSteamID, Request
<1> QED
  BY <1>0, <1>3, <1>4, <1>5, <1>6, <1>7, <1>8, <1>9, <1>10 DEF Next

-----------------------------------------------------------------------------
(* Types.                                                                  *)

\* The numbers of the authentications stay what they are as more are begun.
LEMMA KeepsTypes ==
  ASSUME Types, [Next]_vars
  PROVE  /\ 0..Len(logins) \subseteq 0..Len(logins')
         /\ UNCHANGED session_vars => SessionType'
         /\ UNCHANGED file => FileType'
         /\ UNCHANGED jar => JarType'
         /\ UNCHANGED <<com, user>> => ClientType'
<1>1. 0..Len(logins) \subseteq 0..Len(logins') BY OwnersKept
<1>2. UNCHANGED session_vars => SessionType'
  <2> SUFFICES ASSUME UNCHANGED session_vars PROVE SessionType'
    OBVIOUS
  <2>1. s \in [client : 0..Len(logins'), id : Accounts \cup {0}, refresh : 0..Len(logins'),
               access : 0..Len(logins'), sessionid : 0..MaxIDs]
    BY <1>1 DEF Types, SessionType
  <2> QED BY <2>1 DEF Types, SessionType, session_vars
<1>3. UNCHANGED file => FileType' BY <1>1 DEF Types, FileType
<1>4. UNCHANGED jar => JarType'
  <2>1. \A d \in Sites : jar[d] \in
          [sessionid : 0..MaxIDs, id : Accounts \cup {0}, token : 0..Len(logins')]
    BY <1>1 DEF Types, JarType
  <2> QED BY <2>1 DEF Types, JarType
<1>5. UNCHANGED <<com, user>> => ClientType' BY DEF Types, ClientType
<1> QED BY <1>1, <1>2, <1>3, <1>4, <1>5

SessionRecord ==
  [client : 0..Len(logins), id : Accounts \cup {0}, refresh : 0..Len(logins),
   access : 0..Len(logins), sessionid : 0..MaxIDs]

\* Login and polling.
LEMMA LoginTypes ==
  ASSUME Types, [Next]_vars,
         \/ StartWithCredentials \/ SubmitSteamGuardCode \/ ApprovedElsewhere
         \/ PollAuthSessionStatus \/ PollAnswered \/ PollFails \/ PollCancelled
  PROVE  SessionType' /\ FileType' /\ JarType' /\ ClientType'
<1>0. /\ SessionType /\ Len(logins) \in Nat /\ Len(logins') \in Nat
      /\ 0..Len(logins) \subseteq 0..Len(logins')
  BY OwnersKept, KeepsTypes DEF Types
<1>1. UNCHANGED <<file, jar, com, user>>
  BY DEF StartWithCredentials, SubmitSteamGuardCode, ApprovedElsewhere, PollAuthSessionStatus,
         PollAnswered, PollFails, PollCancelled, client_vars
<1>2. SessionType'
  <2>1. CASE UNCHANGED <<s, loaded, apart>> /\ main' \in MainPcs
    BY <1>0, <2>1 DEF SessionType
  <2>2. CASE StartWithCredentials
    <3>1. Len(logins') \in Nat /\ Len(logins') # 0 /\ UNCHANGED main
      <4>1. PICK acct \in Accounts :
              logins' = Append(logins, [owner |-> acct, approved |-> FALSE])
        BY <2>2, Zenon DEF StartWithCredentials
      <4>2. Len(logins') = Len(logins) + 1 BY <1>0, <4>1
      <4>3. UNCHANGED main BY <2>2 DEF StartWithCredentials
      <4> QED BY <1>0, <4>2, <4>3
    <3>2. ASSUME NEW acct \in Accounts,
                 s' = [s EXCEPT !.client = Len(logins'), !.id = acct],
                 loaded' = FALSE, apart' = apart \cup {"session"}
          PROVE  SessionType'
      <4>1. s' \in SessionRecord'
        <5>1. s \in SessionRecord' BY <1>0 DEF SessionType, SessionRecord
        <5>2. Len(logins') \in 0..Len(logins') BY <3>1
        <5> QED BY <3>2, <5>1, <5>2 DEF SessionRecord
      <4>2. main' \in MainPcs /\ loaded' \in BOOLEAN /\ apart' \subseteq Places
        BY <1>0, <3>1, <3>2 DEF SessionType, Places
      <4> QED BY <4>1, <4>2 DEF SessionType, SessionRecord
    <3>3. \/ UNCHANGED <<s, loaded, apart>>
          \/ \E acct \in Accounts :
               /\ s' = [s EXCEPT !.client = Len(logins'), !.id = acct]
               /\ loaded' = FALSE /\ apart' = apart \cup {"session"}
      BY <2>2 DEF StartWithCredentials
    <3>4. main \in MainPcs BY <1>0 DEF SessionType
    <3> QED BY <2>1, <3>1, <3>2, <3>3, <3>4
  <2>3. CASE PollAnswered
    <3>1. main' = "idle" /\ loaded' = loaded /\ apart' \subseteq apart \cup {"session"}
      BY <2>3 DEF PollAnswered
    <3>2. s' = s \/ s' = [s EXCEPT !.refresh = s.client, !.access = s.client]
      BY <2>3 DEF PollAnswered, Taken
    <3>3. s \in SessionRecord' /\ s.client \in 0..Len(logins')
      BY <1>0 DEF SessionType, SessionRecord
    <3>4. s' \in SessionRecord' BY <3>2, <3>3 DEF SessionRecord
    <3>5. loaded' \in BOOLEAN /\ apart' \subseteq Places BY <1>0, <3>1 DEF SessionType, Places
    <3> QED BY <3>1, <3>4, <3>5 DEF SessionType, SessionRecord, MainPcs
  <2>4. CASE \/ SubmitSteamGuardCode \/ ApprovedElsewhere
             \/ PollAuthSessionStatus \/ PollFails \/ PollCancelled
    BY <1>0, <2>1, <2>4
    DEF SubmitSteamGuardCode, ApprovedElsewhere, PollAuthSessionStatus, PollFails, PollCancelled,
        AfterError, session_vars, SessionType, MainPcs
  <2> QED BY <2>2, <2>3, <2>4
<1> QED BY <1>1, <1>2, KeepsTypes

\* The session file, and what is left after a crash.
LEMMA FileTypes ==
  ASSUME Types, [Next]_vars, SaveToFile \/ Saved \/ LoadFromFile \/ Crash
  PROVE  SessionType' /\ FileType' /\ JarType' /\ ClientType'
<1>0. /\ SessionType /\ FileType /\ Len(logins) \in Nat /\ Len(logins') \in Nat
      /\ 0..Len(logins) \subseteq 0..Len(logins')
  BY OwnersKept, KeepsTypes DEF Types
<1> USE SessionAssumption DEF MainPcs
<1>1. CASE SaveToFile \/ Saved
  <2>1. /\ UNCHANGED <<s, loaded, jar, com, user, logins>> /\ main' \in MainPcs
        /\ apart' \subseteq apart \cup {"file"}
    BY <1>1 DEF SaveToFile, Saved, Copied, client_vars
  <2>2. SessionType' BY <1>0, <2>1 DEF SessionType, Places
  <2>3. FileType'
    BY <1>0, <1>1, <2>1 DEF SaveToFile, Saved, Snapshot, NoFile, FileType, SessionType
  <2> QED BY <2>1, <2>2, <2>3, KeepsTypes
<1>2. CASE LoadFromFile
  <2>1. /\ UNCHANGED <<main, file, jar, com, user>> /\ loaded' \in BOOLEAN
        /\ apart' \subseteq apart \cup {"session"}
        /\ s' = [s EXCEPT !.refresh = file.refresh, !.access = file.access, !.id = file.id]
    BY <1>2 DEF LoadFromFile, Restored
  <2>2. /\ file.refresh \in 0..Len(logins') /\ file.access \in 0..Len(logins')
        /\ file.id \in Accounts \cup {0}
    BY <1>0 DEF FileType
  <2>3. SessionType' BY <1>0, <2>1, <2>2 DEF SessionType, Places
  <2> QED BY <2>1, <2>3, KeepsTypes
<1>3. CASE Crash
  <2>1. UNCHANGED file BY <1>3 DEF Crash
  <2>2. SessionType'
    <3>1. s' = NoSession /\ main' = "idle" /\ loaded' = FALSE /\ apart' \subseteq {"file"}
      BY <1>3 DEF Crash
    <3>2. s' \in SessionRecord' BY <1>0, <3>1 DEF NoSession, SessionRecord
    <3> QED BY <3>1, <3>2 DEF SessionType, SessionRecord, Places
  <2>3. JarType' BY <1>0, <1>3 DEF Crash, NoCookies, JarType, Sites
  <2>4. ClientType' BY <1>3 DEF Crash, NoCreds, ClientType
  <2> QED BY <2>1, <2>2, <2>3, <2>4, KeepsTypes
<1> QED BY <1>1, <1>2, <1>3

CookieRecord == [sessionid : 0..MaxIDs, id : Accounts \cup {0}, token : 0..Len(logins)]

\* A step that changes a cookie gives it the Session's session id, or the
\* Session's SteamID with its tokens, or both.
CookieMoves(d) ==
  \/ jar'[d] = jar[d] /\ (d \in apart' <=> d \in apart)
  \/ /\ main \in Baking /\ jar'[d].sessionid = s.sessionid
     /\ jar'[d].id = jar[d].id /\ jar'[d].token = jar[d].token
     /\ d \in apart' <=> d \in apart
  \/ /\ main = (IF d = "community" THEN "post1" ELSE "post2")
     /\ jar'[d].sessionid = jar[d].sessionid
     /\ jar'[d].id = s.id /\ jar'[d].token = s.refresh /\ logins[s.refresh].owner = s.id
  \/ /\ main \in Baking /\ jar'[d].sessionid = s.sessionid
     /\ jar'[d].id = s.id /\ jar'[d].token = s.access
     /\ d \in apart' <=> "session" \in apart
  \/ /\ s.sessionid # 0 /\ s.refresh # 0 /\ logins[s.refresh].owner = s.id
     /\ jar'[d].sessionid = s.sessionid
     /\ jar'[d].id = s.id /\ jar'[d].token = s.refresh

LEMMA CookieSteps ==
  ASSUME Types,
         \/ Refresh
         \/ \E i \in 1..2 : SetWebCookies(i) \/ SubmitTransferInfo(i) \/ TransferAnswered(i)
  PROVE  /\ UNCHANGED <<s, loaded, logins, file, com, user, stale, shop>>
         /\ main' = main \/ (main \in Baking /\ main' \in Baking \cup {"idle"})
         /\ main' \in {"post1", "post2"} =>
              \/ UNCHANGED main
              \/ jar'[IF main' = "post1" THEN "community" ELSE "store"].sessionid = s.sessionid
         /\ jar' \in [Sites -> CookieRecord]
         /\ apart' \subseteq Places /\ \A l \in {"session", "file"} : l \in apart' <=> l \in apart
         /\ \A d \in Sites : CookieMoves(d)
<1>0. /\ s.sessionid \in 0..MaxIDs /\ s.id \in Accounts \cup {0}
      /\ s.refresh \in 0..Len(logins) /\ s.access \in 0..Len(logins)
      /\ jar \in [Sites -> CookieRecord] /\ DOMAIN jar = Sites
  BY DEF Types, SessionType, JarType, CookieRecord
<1>1. CASE Refresh
  <2>1. PICK d \in Sites :
          /\ jar' = [jar EXCEPT ![d] = [sessionid |-> s.sessionid, id |-> s.id, token |-> s.refresh]]
          /\ apart' = apart \ {d}
    BY <1>0, <1>1 DEF Refresh
  <2>2. jar' \in [Sites -> CookieRecord] /\ \A e \in Sites \ {d} : jar'[e] = jar[e]
    BY <1>0, <2>1 DEF CookieRecord
  <2>3. jar'[d] = [sessionid |-> s.sessionid, id |-> s.id, token |-> s.refresh]
    BY <1>0, <2>1
  <2>4. /\ UNCHANGED <<s, main, loaded, logins, file, com, user, stale, shop>>
        /\ s.sessionid # 0 /\ s.refresh # 0 /\ logins[s.refresh].owner = s.id
    BY <1>1 DEF Refresh, client_vars
  <2>5. apart' = apart \ {d} BY <2>1
  <2>6. apart' \subseteq Places /\ \A l \in {"session", "file"} : l \in apart' <=> l \in apart
    BY <2>5 DEF Types, SessionType, Sites
  <2>7. ASSUME NEW e \in Sites PROVE CookieMoves(e)
    <3>1. CASE e = d BY <2>3, <2>4, <3>1 DEF CookieMoves
    <3>2. CASE e # d BY <2>2, <2>5, <3>2 DEF CookieMoves
    <3> QED BY <3>1, <3>2
  <2> QED BY <2>2, <2>4, <2>6, <2>7
<1>2. ASSUME NEW i \in 1..2, SetWebCookies(i) \/ SubmitTransferInfo(i) \/ TransferAnswered(i)
      PROVE  UNCHANGED <<s, loaded, logins, file, com, user, stale, shop>>
  BY <1>2 DEF SetWebCookies, SubmitTransferInfo, TransferAnswered, client_vars
<1>3. ASSUME NEW i \in 1..2
      PROVE  /\ Domains[i] = (IF i = 1 THEN "community" ELSE "store") /\ Domains[i] \in Sites
             /\ <<"set1", "set2">>[i] = (IF i = 1 THEN "set1" ELSE "set2")
             /\ <<"set2", "idle">>[i] = (IF i = 1 THEN "set2" ELSE "idle")
             /\ <<"xfer1", "xfer2">>[i] = (IF i = 1 THEN "xfer1" ELSE "xfer2")
             /\ <<"post1", "post2">>[i] = (IF i = 1 THEN "post1" ELSE "post2")
             /\ <<"xfer2", "idle">>[i] = (IF i = 1 THEN "xfer2" ELSE "idle")
  BY <1>3 DEF Domains, Sites
<1>4. ASSUME NEW i \in 1..2, SetWebCookies(i)
      PROVE  /\ main \in Baking /\ main' \in {"set2", "idle"} /\ jar' \in [Sites -> CookieRecord]
             /\ jar'[Domains[i]] = [sessionid |-> s.sessionid, id |-> s.id, token |-> s.access]
             /\ \A d \in Sites : d # Domains[i] => jar'[d] = jar[d]
             /\ Copied(Domains[i])
  <2>1. LoginCookie \in CookieRecord BY <1>0 DEF LoginCookie, CookieRecord
  <2>2. jar' = [jar EXCEPT ![Domains[i]] = LoginCookie] BY <1>4 DEF SetWebCookies
  <2>3. main \in Baking /\ main' \in {"set2", "idle"} BY <1>3, <1>4 DEF SetWebCookies, Baking
  <2>4. jar'[Domains[i]] = LoginCookie BY <1>0, <1>3, <2>2
  <2>5. Copied(Domains[i]) BY <1>4 DEF SetWebCookies
  <2> QED BY <1>0, <1>3, <2>1, <2>2, <2>3, <2>4, <2>5 DEF LoginCookie
<1>5. ASSUME NEW i \in 1..2, SubmitTransferInfo(i)
      PROVE  /\ main \in Baking /\ main' = (IF i = 1 THEN "post1" ELSE "post2")
             /\ jar' \in [Sites -> CookieRecord]
             /\ jar'[Domains[i]].sessionid = s.sessionid
             /\ jar'[Domains[i]].id = jar[Domains[i]].id
             /\ jar'[Domains[i]].token = jar[Domains[i]].token
             /\ \A d \in Sites : d # Domains[i] => jar'[d] = jar[d]
             /\ UNCHANGED apart
  <2> DEFINE c == [jar[Domains[i]] EXCEPT !.sessionid = s.sessionid]
  <2>1. jar' = [jar EXCEPT ![Domains[i]] = c] BY <1>5 DEF SubmitTransferInfo
  <2>2. jar[Domains[i]] \in CookieRecord BY <1>0, <1>3
  <2>3. /\ c \in CookieRecord /\ c.sessionid = s.sessionid
        /\ c.id = jar[Domains[i]].id /\ c.token = jar[Domains[i]].token
    BY <1>0, <2>2 DEF CookieRecord
  <2>4. /\ main \in Baking /\ main' = (IF i = 1 THEN "post1" ELSE "post2")
        /\ UNCHANGED apart
    BY <1>3, <1>5 DEF SubmitTransferInfo, Baking
  <2> HIDE DEF c
  <2> QED BY <1>0, <1>3, <2>1, <2>3, <2>4
<1>6. ASSUME NEW i \in 1..2, TransferAnswered(i)
      PROVE  /\ main = (IF i = 1 THEN "post1" ELSE "post2") /\ main' \in {"xfer2", "idle"}
             /\ jar' \in [Sites -> CookieRecord]
             /\ jar'[Domains[i]].sessionid = jar[Domains[i]].sessionid
             /\ \/ jar' = jar /\ apart' = apart
                \/ /\ jar'[Domains[i]].id = s.id /\ jar'[Domains[i]].token = s.refresh
                   /\ logins[s.refresh].owner = s.id /\ apart' = apart \ {Domains[i]}
             /\ \A d \in Sites : d # Domains[i] => jar'[d] = jar[d]
  <2>1. main = (IF i = 1 THEN "post1" ELSE "post2") BY <1>3, <1>6 DEF TransferAnswered
  <2>2. CASE UNCHANGED <<jar, apart>> /\ main' = "idle" BY <1>0, <2>1, <2>2
  <2>3. CASE main' = <<"xfer2", "idle">>[i]
             /\ jar' = [jar EXCEPT ![Domains[i]].id = s.id, ![Domains[i]].token = s.refresh]
             /\ logins[s.refresh].owner = s.id /\ apart' = apart \ {Domains[i]}
    <3> DEFINE c == [jar[Domains[i]] EXCEPT !.id = s.id]
               d == [c EXCEPT !.token = s.refresh]
    <3>1. jar[Domains[i]] \in CookieRecord BY <1>0, <1>3
    <3>2. /\ c \in CookieRecord /\ c.sessionid = jar[Domains[i]].sessionid /\ c.id = s.id
      BY <1>0, <3>1 DEF CookieRecord
    <3>3. /\ d \in CookieRecord /\ d.sessionid = jar[Domains[i]].sessionid
          /\ d.id = s.id /\ d.token = s.refresh
      <4> HIDE DEF c
      <4> QED BY <1>0, <3>2 DEF CookieRecord
    <3>4. jar' = [[jar EXCEPT ![Domains[i]] = c] EXCEPT ![Domains[i]].token = s.refresh]
      BY <2>3
    <3>5. jar' = [jar EXCEPT ![Domains[i]] = d]
      <4> HIDE DEF c
      <4> QED BY <1>0, <1>3, <3>2, <3>4
    <3> HIDE DEF c, d
    <3> QED BY <1>0, <1>3, <2>1, <2>3, <3>3, <3>5
  <2> QED BY <1>6, <2>2, <2>3 DEF TransferAnswered
<1>7. apart \subseteq Places BY DEF Types, SessionType
<1> HIDE DEF Domains
<1>8. ASSUME NEW i \in 1..2, SetWebCookies(i) \/ SubmitTransferInfo(i) \/ TransferAnswered(i)
      PROVE  /\ apart' \subseteq Places
             /\ \A l \in Places : l # Domains[i] => (l \in apart' <=> l \in apart)
  <2>1. \/ Copied(Domains[i]) \/ UNCHANGED apart \/ apart' = apart \ {Domains[i]}
    <3>1. CASE SetWebCookies(i) BY <1>4, <3>1
    <3>2. CASE SubmitTransferInfo(i) BY <1>5, <3>2
    <3>3. CASE TransferAnswered(i) BY <1>6, <3>3
    <3> QED BY <1>8, <3>1, <3>2, <3>3
  <2>2. Domains[i] \in Places BY <1>3 DEF Sites, Places
  <2> DEFINE e == Domains[i]
  <2>3. \/ apart' = apart \cup {e} \/ apart' = apart \/ apart' = apart \ {e}
    BY <2>1 DEF Copied
  <2> HIDE DEF e
  <2>4. e \in Places => apart' \subseteq Places /\ \A l \in Places : l # e => (l \in apart' <=> l \in apart)
    BY <1>7, <2>3
  <2> QED BY <2>2, <2>4 DEF e
<1>9. ASSUME NEW i \in 1..2, SetWebCookies(i) \/ SubmitTransferInfo(i) \/ TransferAnswered(i)
      PROVE  /\ jar' \in [Sites -> CookieRecord]
             /\ \A d \in Sites : CookieMoves(d)
  <2>1. ASSUME NEW d \in Sites, d # Domains[i] PROVE CookieMoves(d)
    <3>1. jar'[d] = jar[d] BY <1>4, <1>5, <1>6, <1>9, <2>1
    <3>2. d \in Places BY DEF Sites, Places
    <3> QED BY <1>8, <1>9, <2>1, <3>1, <3>2 DEF CookieMoves
  <2>2. CookieMoves(Domains[i])
    <3>1. CASE SetWebCookies(i)
      <4>1. Domains[i] \in apart' <=> "session" \in apart BY <1>4, <3>1 DEF Copied
      <4> QED BY <1>4, <3>1, <4>1 DEF CookieMoves
    <3>2. CASE SubmitTransferInfo(i) BY <1>5, <3>2 DEF CookieMoves
    <3>3. CASE TransferAnswered(i)
      <4>1. main = (IF Domains[i] = "community" THEN "post1" ELSE "post2")
        BY <1>3, <1>6, <3>3
      <4> QED BY <1>6, <3>3, <4>1 DEF CookieMoves
    <3> QED BY <1>9, <3>1, <3>2, <3>3
  <2> QED BY <1>4, <1>5, <1>6, <1>9, <2>1, <2>2
<1>10. ASSUME NEW i \in 1..2, SetWebCookies(i) \/ SubmitTransferInfo(i) \/ TransferAnswered(i)
       PROVE  /\ main' = main \/ (main \in Baking /\ main' \in Baking \cup {"idle"})
              /\ main' \in {"post1", "post2"} =>
                   \/ UNCHANGED main
                   \/ jar'[IF main' = "post1" THEN "community" ELSE "store"].sessionid = s.sessionid
              /\ \A l \in {"session", "file"} : l \in apart' <=> l \in apart
  BY <1>3, <1>4, <1>5, <1>6, <1>8, <1>10 DEF Sites, Baking, Places
<1> QED BY <1>1, <1>2, <1>8, <1>9, <1>10

\* Every step keeps the types.
LEMMA TypesKept ==
  ASSUME Types, [Next]_vars
  PROVE  Types'
<1>0. LoginsType' /\ Len(logins') <= MaxLogins BY OwnersKept
<1>1. SUFFICES SessionType' /\ FileType' /\ JarType' /\ ClientType'
  BY <1>0 DEF Types
<1>2. /\ UNCHANGED session_vars => SessionType'
      /\ UNCHANGED file => FileType'
      /\ UNCHANGED jar => JarType'
      /\ UNCHANGED <<com, user>> => ClientType'
      /\ 0..Len(logins) \subseteq 0..Len(logins')
  BY KeepsTypes
<1>3. CASE \/ StartWithCredentials \/ SubmitSteamGuardCode \/ ApprovedElsewhere
           \/ PollAuthSessionStatus \/ PollAnswered \/ PollFails \/ PollCancelled
  BY <1>3, LoginTypes
<1>4. CASE SaveToFile \/ Saved \/ LoadFromFile \/ Crash
  BY <1>4, FileTypes
<1>5. CASE \/ Refresh
           \/ \E i \in 1..2 : SetWebCookies(i) \/ SubmitTransferInfo(i) \/ TransferAnswered(i)
  <2>1. /\ UNCHANGED <<s, loaded, logins, file, com, user>> /\ apart' \subseteq Places
        /\ main' = main \/ (main \in Baking /\ main' \in Baking \cup {"idle"})
        /\ jar' \in [Sites -> CookieRecord]
    BY <1>5, CookieSteps
  <2>2. SessionType' BY <2>1 DEF Types, SessionType, MainPcs
  <2>3. JarType' BY <2>1 DEF CookieRecord, JarType
  <2> QED BY <1>2, <2>1, <2>2, <2>3
<1>6. CASE GetWebCookies \/ FinalizeAnswered
  <2>1. /\ UNCHANGED <<loaded, apart, logins, file, jar, com, user>>
        /\ main' \in Baking \cup {"idle"}
        /\ s' = s \/ (s' = [s EXCEPT !.sessionid = count.ids + 1] /\ count.ids < MaxIDs)
    BY <1>6 DEF GetWebCookies, FinalizeAnswered, client_vars, Baking
  <2>2. s \in SessionRecord /\ loaded \in BOOLEAN /\ apart \subseteq Places
    BY DEF Types, SessionType, SessionRecord
  <2>3. count.ids \in 0..MaxIDs BY DEF Types, LoginsType
  <2>4. s' \in SessionRecord
    BY <2>1, <2>2, <2>3, SessionAssumption DEF SessionRecord
  <2>5. SessionType' BY <2>1, <2>2, <2>4 DEF SessionType, SessionRecord, MainPcs
  <2> QED BY <1>2, <2>1, <2>5
<1>7. ASSUME NEW u \in Users, Call(u) \/ TakeSessionID(u) \/ TakeSteamID(u) \/ Request(u)
      PROVE  /\ UNCHANGED <<session_vars, file, jar>>
             /\ ClientType'
  <2>1. UNCHANGED <<session_vars, file, jar>>
    BY <1>7 DEF Call, TakeSessionID, TakeSteamID, Request
  <2>2. /\ com \in [sessionid : 0..MaxIDs, id : Accounts \cup {0}]
        /\ user \in [Users -> {"idle", "take", "identify", "request"}]
        /\ jar["community"].sessionid \in 0..MaxIDs /\ jar["community"].id \in Accounts \cup {0}
    BY DEF Types, ClientType, JarType, Sites
  <2>3. com' \in [sessionid : 0..MaxIDs, id : Accounts \cup {0}]
    <3>1. \/ com' = com \/ com' = NoCreds
          \/ com' = [com EXCEPT !.sessionid = jar["community"].sessionid]
          \/ com' = [com EXCEPT !.id = jar["community"].id]
      BY <1>7, Zenon DEF Call, TakeSessionID, TakeSteamID, Request, Cached
    <3>2. NoCreds \in [sessionid : 0..MaxIDs, id : Accounts \cup {0}]
      BY SessionAssumption DEF NoCreds
    <3> QED BY <2>2, <3>1, <3>2
  <2>4. \E l \in {"idle", "take", "identify", "request"} : user' = [user EXCEPT ![u] = l]
    BY <1>7 DEF Call, TakeSessionID, TakeSteamID, Request
  <2>5. user' \in [Users -> {"idle", "take", "identify", "request"}]
    BY <2>2, <2>4
  <2> QED BY <2>1, <2>3, <2>5 DEF ClientType
<1>8. CASE NewStore \/ UNCHANGED vars
  BY <1>2, <1>8 DEF NewStore, vars, session_vars, client_vars
<1> QED BY <1>2, <1>3, <1>4, <1>5, <1>6, <1>7, <1>8 DEF Next

-----------------------------------------------------------------------------
(* The account beside the tokens.                                          *)

\* The access token is always the one that came with the refresh token.
TokensPaired == s.access = s.refresh /\ file.access = file.refresh

\* Tokens never stand without an account, nor without a session id in a jar.
HasAccount ==
  /\ s.refresh # 0 => s.id # 0
  /\ Readable <=> file.refresh # 0
  /\ file.refresh # 0 => file.id # 0
  /\ \A d \in Sites : jar[d].token # 0 => jar[d].sessionid # 0 /\ jar[d].id # 0

\* The SteamID is of the login that a poll would ask about, unless a file was
\* loaded since.
LoginPending ==
  s.client # 0 => s.id # 0 /\ (~loaded => logins[s.client].owner = s.id)

\* What saves and asks for cookies has tokens; a transfer is posted after its
\* sessionid cookie is set.
Unhurried ==
  /\ main \in {"save"} \cup Baking => s.refresh # 0
  /\ main \in Baking => s.sessionid # 0
  /\ main = "post1" => jar["community"].sessionid # 0
  /\ main = "post2" => jar["store"].sessionid # 0

\* The three places of OneAccount.
SessionOwned == s.refresh # 0 /\ "session" \notin apart => logins[s.refresh].owner = s.id
FileOwned ==
  Readable /\ "file" \notin apart =>
    logins[file.refresh].owner = file.id /\ file.access = file.refresh
CookieOwned(d) ==
  jar[d].token # 0 /\ d \notin apart => logins[jar[d].token].owner = jar[d].id
Owned == SessionOwned /\ FileOwned /\ \A d \in Sites : CookieOwned(d)

Account == TokensPaired /\ HasAccount /\ LoginPending /\ Unhurried /\ Owned

\* The file and the jar stay as they are: so does what is said of them,
\* whatever the server and the Session do meanwhile.
LEMMA OwnedFrame ==
  ASSUME Types, Account, [Next]_vars
  PROVE  /\ UNCHANGED file /\ ("file" \in apart <=> "file" \in apart') => FileOwned'
         /\ \A d \in Sites :
              jar'[d] = jar[d] /\ (d \in apart <=> d \in apart') => CookieOwned(d)'
         /\ UNCHANGED <<s, loaded>> => LoginPending'
         /\ UNCHANGED s /\ ("session" \in apart <=> "session" \in apart') => SessionOwned'
<1>1. \A n \in 1..Len(logins) : logins'[n].owner = logins[n].owner /\ Len(logins) \in Nat
  BY OwnersKept
<1>2. /\ s.refresh \in 0..Len(logins) /\ s.client \in 0..Len(logins)
      /\ file.refresh \in 0..Len(logins) /\ Len(logins) \in Nat
      /\ \A d \in Sites : jar[d].token \in 0..Len(logins)
  BY OwnersKept DEF Types, SessionType, FileType, JarType
<1>3. ASSUME UNCHANGED file, "file" \in apart <=> "file" \in apart' PROVE FileOwned'
  BY <1>1, <1>2, <1>3 DEF Account, Owned, FileOwned, HasAccount, Readable
<1>4. ASSUME NEW d \in Sites, jar'[d] = jar[d], d \in apart <=> d \in apart'
      PROVE  CookieOwned(d)'
  BY <1>1, <1>2, <1>4 DEF Account, Owned, CookieOwned
<1>5. ASSUME UNCHANGED <<s, loaded>> PROVE LoginPending'
  BY <1>1, <1>2, <1>5 DEF Account, LoginPending
<1>6. ASSUME UNCHANGED s, "session" \in apart <=> "session" \in apart' PROVE SessionOwned'
  BY <1>1, <1>2, <1>6 DEF Account, Owned, SessionOwned
<1> QED BY <1>3, <1>4, <1>5, <1>6

\* So it is when the Session stays as it is, too.
LEMMA AccountFrame ==
  ASSUME Types, Account, [Next]_vars, UNCHANGED <<session_vars, file, jar>>
  PROVE  Account'
<1>1. UNCHANGED <<s, main, loaded, apart, file, jar>> BY DEF session_vars
<1>2. TokensPaired' /\ HasAccount' /\ Unhurried'
  BY <1>1 DEF Account, TokensPaired, HasAccount, Unhurried, Readable
<1>3. LoginPending' /\ Owned' BY <1>1, OwnedFrame DEF Owned
<1> QED BY <1>2, <1>3 DEF Account

\* The initial state.
LEMMA AccountInit ==
  Init => Types /\ Account
<1> SUFFICES ASSUME Init PROVE Types /\ Account
  OBVIOUS
<1> USE SessionAssumption
<1>1. /\ s = NoSession /\ main = "idle" /\ loaded = FALSE /\ apart = {} /\ logins = <<>>
      /\ file = NoFile /\ jar = NoCookies /\ com = NoCreds
      /\ user = [u \in Users |-> "idle"]
      /\ count = [ids |-> 0, crashes |-> 0]
  BY DEF Init
<1>2. LoginsType /\ Len(logins) = 0 BY <1>1 DEF LoginsType
<1>3. SessionType
  <2>1. NoSession \in SessionRecord BY <1>2 DEF NoSession, SessionRecord
  <2> QED BY <1>1, <2>1 DEF SessionType, SessionRecord, MainPcs
<1>4. FileType BY <1>1, <1>2 DEF FileType, NoFile
<1>5. JarType BY <1>1, <1>2 DEF JarType, NoCookies, Sites
<1>6. ClientType BY <1>1 DEF ClientType, NoCreds
<1>7. Account
  BY <1>1 DEF Account, TokensPaired, HasAccount, LoginPending, Unhurried, Owned, SessionOwned,
              FileOwned, CookieOwned, NoSession, NoFile, NoCookies, Readable, Sites, Baking
<1> QED BY <1>2, <1>3, <1>4, <1>5, <1>6, <1>7 DEF Types

\* Logging in.
LEMMA AccountLogin ==
  ASSUME Types, Account, [Next]_vars,
         StartWithCredentials \/ PollAuthSessionStatus \/ PollAnswered \/ PollFails \/ PollCancelled
  PROVE  Account'
<1>0. /\ s.refresh \in 0..Len(logins) /\ s.client \in 0..Len(logins) /\ Len(logins) \in Nat
      /\ s \in SessionRecord
      /\ logins \in Seq([owner : Accounts, approved : BOOLEAN])
  BY OwnersKept DEF Types, LoginsType, SessionType, SessionRecord
<1>1. UNCHANGED <<file, jar>> /\ main \notin Baking \cup {"save"} /\ main' \notin Baking \cup {"save"}
  BY DEF StartWithCredentials, PollAuthSessionStatus, PollAnswered, PollFails, PollCancelled,
         AfterError, Baking
<1>2. ASSUME s'.refresh = s'.access, s'.refresh # 0 => s'.id # 0, LoginPending', SessionOwned',
             \A l \in Places \ {"session"} : l \in apart <=> l \in apart'
      PROVE  Account'
  <2>1. TokensPaired' /\ HasAccount' /\ Unhurried'
    BY <1>1, <1>2 DEF Account, TokensPaired, HasAccount, Unhurried, Readable, Baking
  <2>2. FileOwned' /\ \A d \in Sites : CookieOwned(d)'
    BY <1>1, <1>2, OwnedFrame DEF Places, Sites
  <2> QED BY <1>2, <2>1, <2>2 DEF Account, Owned
<1>3. CASE StartWithCredentials
  <2>1. main' = main /\ main = "idle" BY <1>3 DEF StartWithCredentials
  <2>2. CASE UNCHANGED <<s, loaded, apart>>
    BY <1>1, <2>1, <2>2, AccountFrame DEF session_vars
  <2>3. ASSUME NEW acct \in Accounts,
               logins' = Append(logins, [owner |-> acct, approved |-> FALSE]),
               s' = [s EXCEPT !.client = Len(logins'), !.id = acct],
               loaded' = FALSE, apart' = apart \cup {"session"}
        PROVE  Account'
    <3>1. Len(logins') = Len(logins) + 1 /\ logins'[Len(logins')].owner = acct BY <1>0, <2>3
    <3>2. /\ s'.client = Len(logins') /\ s'.id = acct
          /\ s'.refresh = s.refresh /\ s'.access = s.access
      BY <1>0, <2>3 DEF SessionRecord
    <3>3. acct # 0 BY SessionAssumption
    <3>4. s.access = s.refresh BY DEF Account, TokensPaired
    <3>5. LoginPending' BY <2>3, <3>1, <3>2, <3>3 DEF LoginPending
    <3>6. SessionOwned' BY <2>3 DEF SessionOwned
    <3> QED BY <1>2, <2>3, <3>2, <3>3, <3>4, <3>5, <3>6
  <2>4. \E acct \in Accounts :
          /\ logins' = Append(logins, [owner |-> acct, approved |-> FALSE])
          /\ \/ UNCHANGED <<s, loaded, apart>>
             \/ /\ s' = [s EXCEPT !.client = Len(logins'), !.id = acct]
                /\ loaded' = FALSE /\ apart' = apart \cup {"session"}
    BY <1>3, Zenon DEF StartWithCredentials
  <2> QED BY <2>2, <2>3, <2>4
<1>4. CASE PollAnswered
  <2>1. main = "poll" /\ main' = "idle" /\ UNCHANGED <<loaded, logins>> /\ s.client # 0
    BY <1>4 DEF PollAnswered
  <2>2. CASE /\ s' = [s EXCEPT !.refresh = s.client, !.access = s.client]
             /\ apart' = IF loaded THEN apart \cup {"session"} ELSE apart \ {"session"}
    <3>1. /\ s'.client = s.client /\ s'.id = s.id
          /\ s'.refresh = s.client /\ s'.access = s.client
      BY <1>0, <2>2 DEF SessionRecord
    <3>2. s.id # 0 /\ (~loaded => logins[s.client].owner = s.id)
      BY <2>1 DEF Account, LoginPending
    <3>3. LoginPending' BY <2>1, <3>1, <3>2 DEF LoginPending
    <3>4. SessionOwned' BY <2>1, <2>2, <3>1, <3>2 DEF SessionOwned
    <3> QED BY <1>2, <2>2, <3>1, <3>2, <3>3, <3>4
  <2>3. CASE UNCHANGED <<s, apart>>
    BY <1>2, <2>1, <2>3, OwnedFrame DEF Account, TokensPaired, HasAccount
  <2> QED BY <1>4, <2>2, <2>3 DEF PollAnswered, Taken
<1>5. CASE PollAuthSessionStatus \/ PollFails \/ PollCancelled
  <2>1. UNCHANGED <<s, loaded, apart>>
    BY <1>5 DEF PollAuthSessionStatus, PollFails, PollCancelled
  <2> QED BY <1>2, <2>1, OwnedFrame DEF Account, TokensPaired, HasAccount
<1> QED BY <1>3, <1>4, <1>5

\* The session file and crashes.
LEMMA AccountFile ==
  ASSUME Types, Account, [Next]_vars, SaveToFile \/ Saved \/ LoadFromFile \/ Crash
  PROVE  Account'
<1>0. s \in SessionRecord BY DEF Types, SessionType, SessionRecord
<1>1. UNCHANGED logins
  BY DEF SaveToFile, Saved, LoadFromFile, Crash
<1> USE DEF Account, TokensPaired, HasAccount, LoginPending, Unhurried, Owned, SessionOwned,
            FileOwned, CookieOwned, Readable, Baking, Sites
<1>2. CASE SaveToFile
  <2>1. /\ UNCHANGED <<s, loaded, apart, jar>> /\ main = "idle" /\ main' = "save"
        /\ s.refresh # 0
        /\ file' = [state |-> "torn", refresh |-> 0, access |-> 0, id |-> 0]
    BY <1>2 DEF SaveToFile, NoFile
  <2> QED BY <1>1, <2>1
<1>3. CASE Saved
  <2>1. /\ UNCHANGED <<s, loaded, jar>> /\ main = "save" /\ main' = "idle"
        /\ file' = [state |-> "whole", refresh |-> s.refresh, access |-> s.access, id |-> s.id]
        /\ Copied("file")
    BY <1>3 DEF Saved, Snapshot
  <2>2. /\ "file" \in apart' <=> "session" \in apart
        /\ \A l \in {"session", "community", "store"} : l \in apart' <=> l \in apart
    BY <2>1 DEF Copied
  <2>3. file'.state = "whole" /\ file'.refresh = s.refresh /\ file'.access = s.access /\ file'.id = s.id
    BY <2>1
  <2>4. TokensPaired' /\ HasAccount' /\ LoginPending' /\ Unhurried' BY <1>1, <2>1, <2>3
  <2>5. SessionOwned' /\ FileOwned' BY <1>1, <2>1, <2>2, <2>3
  <2>6. ASSUME NEW d \in Sites PROVE CookieOwned(d)' BY <1>1, <2>1, <2>2
  <2> QED BY <2>4, <2>5, <2>6
<1>4. CASE LoadFromFile
  <2>1. /\ UNCHANGED <<main, file, jar>> /\ loaded' = (s.client # 0) /\ main = "idle" /\ Readable
        /\ s' = [s EXCEPT !.refresh = file.refresh, !.access = file.access, !.id = file.id]
        /\ apart' = IF "file" \in apart THEN apart \cup {"session"} ELSE apart \ {"session"}
    BY <1>4 DEF LoadFromFile, Restored
  <2>2. /\ s'.refresh = file.refresh /\ s'.access = file.access /\ s'.id = file.id
        /\ s'.client = s.client
    BY <1>0, <2>1 DEF SessionRecord
  <2>3. TokensPaired' /\ HasAccount' /\ LoginPending' /\ Unhurried' BY <1>1, <2>1, <2>2
  <2>4. SessionOwned' /\ FileOwned' BY <1>1, <2>1, <2>2
  <2>5. ASSUME NEW d \in Sites PROVE CookieOwned(d)' BY <1>1, <2>1
  <2> QED BY <2>3, <2>4, <2>5
<1>5. CASE Crash
  <2>1. /\ s' = NoSession /\ main' = "idle" /\ loaded' = FALSE /\ jar' = NoCookies
        /\ apart' = apart \cap {"file"} /\ UNCHANGED file
    BY <1>5 DEF Crash
  <2> QED BY <1>1, <2>1 DEF NoSession, NoCookies
<1> QED BY <1>2, <1>3, <1>4, <1>5

\* Asking for cookies, and getting them.
LEMMA AccountCookies ==
  ASSUME Types, Account, [Next]_vars,
         \/ GetWebCookies \/ FinalizeAnswered \/ Refresh
         \/ \E i \in 1..2 : SetWebCookies(i) \/ SubmitTransferInfo(i) \/ TransferAnswered(i)
  PROVE  Account'
<1>0. s \in SessionRecord /\ count.ids \in Nat
  BY DEF Types, SessionType, LoginsType, SessionRecord
<1>1. CASE GetWebCookies
  <2>1. /\ UNCHANGED <<loaded, apart, logins, file, jar>>
        /\ main' \in {"finalize", "set1", "idle"} /\ main = "idle" /\ s.refresh # 0
        /\ s' = [s EXCEPT !.sessionid = count.ids + 1]
    BY <1>1 DEF GetWebCookies
  <2>2. /\ s'.client = s.client /\ s'.id = s.id /\ s'.refresh = s.refresh
        /\ s'.access = s.access /\ s'.sessionid # 0
    <3> DEFINE n == count.ids + 1
    <3>1. s' = [s EXCEPT !.sessionid = n] /\ n # 0 BY <1>0, <2>1
    <3> HIDE DEF n
    <3> QED BY <1>0, <3>1 DEF SessionRecord
  <2>3. TokensPaired' /\ HasAccount' /\ LoginPending' /\ Unhurried'
    BY <2>1, <2>2 DEF Account, TokensPaired, HasAccount, LoginPending, Unhurried, Readable, Baking
  <2>4. Owned'
    BY <2>1, <2>2 DEF Account, Owned, SessionOwned, FileOwned, CookieOwned, Readable
  <2> QED BY <2>3, <2>4 DEF Account
<1>2. CASE FinalizeAnswered
  <2>1. /\ UNCHANGED <<s, loaded, apart, logins, file, jar>>
        /\ main = "finalize" /\ main' \in {"xfer1", "idle"}
    BY <1>2 DEF FinalizeAnswered
  <2>2. LoginPending' /\ Owned' BY <2>1, OwnedFrame DEF Owned
  <2> QED
    BY <2>1, <2>2 DEF Account, TokensPaired, HasAccount, Unhurried, Readable, Baking
<1>3. CASE \/ Refresh
           \/ \E i \in 1..2 : SetWebCookies(i) \/ SubmitTransferInfo(i) \/ TransferAnswered(i)
  <2>1. /\ UNCHANGED <<s, loaded, logins, file>>
        /\ main' = main \/ (main \in Baking /\ main' \in Baking \cup {"idle"})
        /\ main' \in {"post1", "post2"} =>
             \/ UNCHANGED main
             \/ jar'[IF main' = "post1" THEN "community" ELSE "store"].sessionid = s.sessionid
        /\ \A l \in {"session", "file"} : l \in apart' <=> l \in apart
    BY <1>3, CookieSteps
  <2>2. ASSUME NEW d \in Sites PROVE CookieMoves(d)
    BY <1>3, CookieSteps
  <2>3. /\ s.access = s.refresh /\ (s.refresh # 0 => s.id # 0)
        /\ main \in Baking => s.sessionid # 0 /\ s.refresh # 0
        /\ main = "post1" => jar["community"].sessionid # 0
        /\ main = "post2" => jar["store"].sessionid # 0
        /\ \A d \in Sites : jar[d].token # 0 => jar[d].sessionid # 0 /\ jar[d].id # 0
    BY DEF Account, TokensPaired, HasAccount, Unhurried
  <2>4. ASSUME NEW d \in Sites, jar'[d].token # 0
        PROVE  jar'[d].sessionid # 0 /\ jar'[d].id # 0
    <3>1. CookieMoves(d) BY <2>2
    <3> QED BY <2>3, <2>4, <3>1 DEF Sites, Baking, CookieMoves
  <2>5. ASSUME NEW d \in Sites PROVE CookieOwned(d)'
    <3>1. SessionOwned /\ CookieOwned(d) BY DEF Account, Owned
    <3>2. CookieMoves(d) BY <2>2
    <3> QED BY <2>1, <2>3, <3>1, <3>2 DEF SessionOwned, CookieOwned, CookieMoves
  <2>6. TokensPaired' BY <2>1 DEF Account, TokensPaired
  <2>7. HasAccount' BY <2>1, <2>4 DEF Account, HasAccount, Readable
  <2>8. Unhurried'
    <3>1. main' \in {"save"} \cup Baking => s'.refresh # 0
      BY <2>1, <2>3 DEF Account, Unhurried, Baking
    <3>2. main' \in Baking => main \in Baking /\ s'.sessionid # 0
      BY <2>1, <2>3
    <3>3. ASSUME NEW d \in Sites, main' = (IF d = "community" THEN "post1" ELSE "post2")
          PROVE  jar'[d].sessionid # 0
      <4>1. CASE UNCHANGED main
        <5>1. CookieMoves(d) BY <2>2
        <5> QED BY <2>3, <3>3, <4>1, <5>1 DEF Sites, Baking, CookieMoves
      <4>2. CASE jar'[d].sessionid = s.sessionid BY <2>1, <3>2, <3>3, <4>2 DEF Baking
      <4> QED BY <2>1, <3>3, <4>1, <4>2 DEF Sites
    <3> QED BY <3>1, <3>2, <3>3 DEF Unhurried, Sites
  <2>9. LoginPending' /\ SessionOwned' /\ FileOwned' BY <2>1, OwnedFrame
  <2> QED BY <2>5, <2>6, <2>7, <2>8, <2>9 DEF Account, Owned
<1> QED BY <1>1, <1>2, <1>3

\* Every step keeps the account beside its tokens.
LEMMA AccountKept ==
  ASSUME Types, Account, [Next]_vars
  PROVE  Account'
<1>1. ASSUME NEW u \in Users, Call(u) \/ TakeSessionID(u) \/ TakeSteamID(u) \/ Request(u)
      PROVE  UNCHANGED <<session_vars, file, jar>>
  BY <1>1 DEF Call, TakeSessionID, TakeSteamID, Request, session_vars
<1>2. CASE SubmitSteamGuardCode \/ ApprovedElsewhere \/ NewStore \/ UNCHANGED vars
  BY <1>2, AccountFrame
  DEF SubmitSteamGuardCode, ApprovedElsewhere, NewStore, vars, session_vars
<1> QED
  BY <1>1, <1>2, AccountFrame, AccountLogin, AccountFile, AccountCookies DEF Next

\* The values stay within their types, a file that can be read has tokens, and
\* no login cookie stands without a session id and an account.
THEOREM TypeCorrect == Spec => []TypeOK
<1>1. Init => Types /\ Account BY AccountInit
<1>2. Types /\ Account /\ [Next]_vars => Types' /\ Account' BY TypesKept, AccountKept
<1>3. Types /\ Account => TypeOK
  <2> SUFFICES ASSUME Types, Account PROVE TypeOK
    OBVIOUS
  <2>1. Len(logins) \in Nat /\ Len(logins) <= MaxLogins /\ DOMAIN jar = Sites
    BY DEF Types, LoginsType, JarType
  <2>2. s \in [client : 0..MaxLogins, id : Accounts \cup {0}, refresh : 0..MaxLogins,
               access : 0..MaxLogins, sessionid : 0..MaxIDs]
    BY <2>1, SessionAssumption DEF Types, SessionType
  <2>3. main \in MainPcs /\ file.state \in {"absent", "torn", "whole"}
    BY DEF Types, SessionType, FileType
  <2>4. user \in [Users -> {"idle", "take", "identify", "request"}] BY DEF Types, ClientType
  <2>5. loaded \in BOOLEAN /\ apart \subseteq Places BY DEF Types, SessionType
  <2> QED BY <2>1, <2>2, <2>3, <2>4, <2>5 DEF Account, HasAccount, TypeOK, MainPcs, Baking
<1> QED BY <1>1, <1>2, <1>3, PTL DEF Spec

\* The SteamID in the Session, the session file and the cookie jar is that of
\* the account whose tokens stand beside it, through any number of logins,
\* crashes, loads and refreshes in any order, but for the halves of a Session
\* that StartWithCredentials, or a poll answered after a LoadFromFile, has
\* parted, and what is saved or set as a cookie from such a Session.
THEOREM AccountsNeverMix == Spec => []OneAccount
<1>1. Init => Types /\ Account BY AccountInit
<1>2. Types /\ Account /\ [Next]_vars => Types' /\ Account' BY TypesKept, AccountKept
<1>3. Types /\ Account => OneAccount
  <2>1. Types => DOMAIN jar = Sites BY DEF Types, JarType
  <2> QED BY <2>1 DEF Account, Owned, SessionOwned, FileOwned, CookieOwned, OneAccount
<1> QED BY <1>1, <1>2, <1>3, PTL DEF Spec

-----------------------------------------------------------------------------
(* What Community and Store send.                                          *)

ShopType ==
  shop \in [sessionid : 0..MaxIDs, id : Accounts \cup {0}, made : BOOLEAN, stale : BOOLEAN]

\* One goroutine at a time fills the cache of Community, and the others find
\* it either untouched or whole.
FilledOnce ==
  /\ \A u, v \in Users : Filling(u) /\ Filling(v) => u = v
  /\ com.sessionid = 0 => com.id = 0 /\ \A u \in Users : user[u] \notin {"identify", "request"}
  /\ com.sessionid # 0 => \A u \in Users : user[u] # "take"
  /\ com.id # 0 => \A u \in Users : ~Filling(u)
  /\ com.sessionid # 0 /\ com.id = 0 =>
       /\ \E u \in Users : user[u] = "identify"
       /\ \A u \in Users : user[u] # "request"

\* While the Session keeps its credentials, the caches, the cookies and the
\* Session are of one mind.
ComAgrees ==
  ~stale /\ com.sessionid # 0 =>
    /\ com.sessionid = s.sessionid /\ jar["community"].sessionid = s.sessionid
    /\ jar["community"].id = s.id /\ (com.id # 0 => com.id = s.id)
ShopAgrees ==
  shop.made /\ ~shop.stale =>
    /\ shop.sessionid = s.sessionid /\ shop.id = s.id
    /\ jar["store"].sessionid = s.sessionid /\ jar["store"].id = s.id
Clients == ShopType /\ ShopAgrees /\ (Spaced => FilledOnce /\ ComAgrees)

\* A step of the Session either declares both caches outdated or leaves the
\* credentials alone and moves the cookies only towards them.
LEMMA SessionSteps ==
  ASSUME Types,
         \/ StartWithCredentials \/ SubmitSteamGuardCode \/ ApprovedElsewhere
         \/ PollAuthSessionStatus \/ PollAnswered \/ PollFails \/ PollCancelled
         \/ SaveToFile \/ Saved \/ LoadFromFile \/ GetWebCookies \/ FinalizeAnswered \/ Refresh
         \/ \E i \in 1..2 : SetWebCookies(i) \/ SubmitTransferInfo(i) \/ TransferAnswered(i)
         \/ UNCHANGED vars
  PROVE  /\ UNCHANGED <<com, user>>
         /\ \/ Outdated
            \/ /\ UNCHANGED <<stale, shop>> /\ s'.sessionid = s.sessionid /\ s'.id = s.id
               /\ \A d \in Sites : /\ jar'[d].sessionid \in {jar[d].sessionid, s.sessionid}
                                   /\ jar'[d].id \in {jar[d].id, s.id}
<1>0. s \in SessionRecord BY DEF Types, SessionType, SessionRecord
<1>1. CASE \/ Refresh
           \/ \E i \in 1..2 : SetWebCookies(i) \/ SubmitTransferInfo(i) \/ TransferAnswered(i)
  <2>1. /\ UNCHANGED <<s, com, user, stale, shop>>
        /\ \A d \in Sites : CookieMoves(d)
    BY <1>1, CookieSteps
  <2>2. ASSUME NEW d \in Sites
        PROVE  /\ jar'[d].sessionid \in {jar[d].sessionid, s.sessionid}
               /\ jar'[d].id \in {jar[d].id, s.id}
    BY <2>1 DEF CookieMoves
  <2> QED BY <2>1, <2>2
<1>2. CASE StartWithCredentials \/ GetWebCookies \/ LoadFromFile
  <2>1. UNCHANGED <<com, user, jar>>
    BY <1>2 DEF StartWithCredentials, GetWebCookies, LoadFromFile
  <2>2. Outdated \/ UNCHANGED <<s, stale, shop>>
    BY <1>2 DEF StartWithCredentials, GetWebCookies, LoadFromFile
  <2> QED BY <2>1, <2>2
<1>3. CASE PollAnswered
  <2>1. s' = s \/ s' = [s EXCEPT !.refresh = s.client, !.access = s.client]
    BY <1>3 DEF PollAnswered, Taken
  <2>2. s'.sessionid = s.sessionid /\ s'.id = s.id BY <1>0, <2>1 DEF SessionRecord
  <2> QED BY <1>3, <2>2 DEF PollAnswered, client_vars
<1>4. CASE \/ SubmitSteamGuardCode \/ ApprovedElsewhere \/ PollAuthSessionStatus \/ PollFails
           \/ PollCancelled \/ SaveToFile \/ Saved \/ FinalizeAnswered \/ UNCHANGED vars
  BY <1>4 DEF SubmitSteamGuardCode, ApprovedElsewhere, PollAuthSessionStatus, PollFails,
              PollCancelled, SaveToFile, Saved, FinalizeAnswered, vars, session_vars, client_vars
<1> QED BY <1>1, <1>2, <1>3, <1>4

\* The agreement survives what the Session does.
LEMMA ClientsSession ==
  ASSUME Types, Clients,
         UNCHANGED <<com, user>>,
         \/ Outdated
         \/ /\ UNCHANGED <<stale, shop>> /\ s'.sessionid = s.sessionid /\ s'.id = s.id
            /\ \A d \in Sites : /\ jar'[d].sessionid \in {jar[d].sessionid, s.sessionid}
                                /\ jar'[d].id \in {jar[d].id, s.id}
  PROVE  Clients'
<1>1. FilledOnce => FilledOnce' BY DEF FilledOnce, Filling
<1>3. CASE Outdated
  <2>1. ShopType' /\ ShopAgrees'
    BY <1>3 DEF Clients, ShopType, ShopAgrees, Outdated
  <2>2. ComAgrees' BY <1>3 DEF ComAgrees, Outdated
  <2> QED BY <1>1, <2>1, <2>2 DEF Clients
<1>4. CASE /\ UNCHANGED <<stale, shop>> /\ s'.sessionid = s.sessionid /\ s'.id = s.id
           /\ \A d \in Sites : /\ jar'[d].sessionid \in {jar[d].sessionid, s.sessionid}
                               /\ jar'[d].id \in {jar[d].id, s.id}
  <2>1. ShopType' /\ ShopAgrees' BY <1>4 DEF Clients, ShopType, ShopAgrees, Sites
  <2>2. ComAgrees => ComAgrees' BY <1>4 DEF ComAgrees, Sites
  <2> QED BY <1>1, <2>1, <2>2 DEF Clients
<1> QED BY <1>3, <1>4

\* The agreement survives a crash, which leaves no client of the jar behind.
LEMMA ClientsCrash ==
  ASSUME Crash
  PROVE  Clients'
<1>1. /\ com' = NoCreds /\ user' = [u \in Users |-> "idle"] /\ shop' = NoShop
  BY DEF Crash
<1> QED
  BY <1>1, SessionAssumption DEF Clients, ShopType, ShopAgrees, FilledOnce, Filling, ComAgrees,
                                 NoCreds, NoShop

\* Store takes what is in the jar then, and says whether that is settled.
LEMMA ClientsStore ==
  ASSUME Types, Clients, NewStore
  PROVE  Clients'
<1>1. /\ UNCHANGED <<s, jar, com, user, stale>>
      /\ shop' = [sessionid |-> jar["store"].sessionid, id |-> jar["store"].id, made |-> TRUE,
                  stale |-> Unsettled("store")]
  BY DEF NewStore, session_vars
<1>2. /\ jar["store"].sessionid \in 0..MaxIDs /\ jar["store"].id \in Accounts \cup {0}
      /\ Unsettled("store") \in BOOLEAN
  BY DEF Types, JarType, Sites, Unsettled
<1>3. ShopType' BY <1>1, <1>2 DEF ShopType
<1>4. ShopAgrees' BY <1>1 DEF ShopAgrees, Unsettled
<1>5. /\ FilledOnce => FilledOnce'
      /\ ComAgrees => ComAgrees'
  BY <1>1 DEF FilledOnce, Filling, ComAgrees
<1> QED BY <1>3, <1>4, <1>5 DEF Clients

\* What a goroutine in Community finds, and what it leaves, when one at a time
\* fills the cache.
LEMMA UserSteps ==
  ASSUME Types, Account, Spaced, FilledOnce, ComAgrees, NEW u \in Users,
         Call(u) \/ TakeSessionID(u) \/ TakeSteamID(u) \/ Request(u)
  PROVE  FilledOnce' /\ ComAgrees'
<1>0. /\ com \in [sessionid : 0..MaxIDs, id : Accounts \cup {0}]
      /\ user \in [Users -> {"idle", "take", "identify", "request"}]
      /\ jar["community"] \in CookieRecord
  BY DEF Types, ClientType, JarType, Sites, CookieRecord
<1>1. UNCHANGED <<s, jar>>
  BY DEF Call, TakeSessionID, TakeSteamID, Request, session_vars
<1>2. CASE Call(u)
  <2>1. /\ UNCHANGED <<com, stale>> /\ \A v \in Users : ~Filling(v)
        /\ user' = [user EXCEPT ![u] = IF com.sessionid # 0 THEN "request" ELSE "take"]
    BY <1>2 DEF Call
  <2>2. FilledOnce' BY <1>0, <2>1 DEF FilledOnce, Filling
  <2> QED BY <1>1, <2>1, <2>2 DEF ComAgrees
<1>3. CASE TakeSessionID(u)
  <2>1. /\ user[u] = "take" /\ stale' = Unsettled("community")
        /\ com' = [com EXCEPT !.sessionid = jar["community"].sessionid]
        /\ user' = [user EXCEPT ![u] = IF com'.sessionid = 0 THEN "idle" ELSE "identify"]
    BY <1>3 DEF TakeSessionID
  <2>2. /\ com.sessionid = 0 /\ com.id = 0
        /\ \A v \in Users : v # u => user[v] = "idle"
    <3>1. com.sessionid = 0 /\ com.id = 0 /\ \A v \in Users : user[v] \notin {"identify", "request"}
      BY <2>1 DEF FilledOnce
    <3>2. \A v \in Users : v # u => user[v] # "take" BY <2>1 DEF FilledOnce, Filling
    <3> QED BY <1>0, <3>1, <3>2
  <2>3. com'.sessionid = jar["community"].sessionid /\ com'.id = 0
    <3>1. jar["community"].sessionid \in 0..MaxIDs BY <1>0 DEF CookieRecord
    <3> QED BY <1>0, <2>1, <2>2, <3>1
  <2>4. FilledOnce'
    <3> HIDE <2>1
    <3>1. /\ user'[u] = (IF com'.sessionid = 0 THEN "idle" ELSE "identify")
          /\ \A v \in Users : v # u => user'[v] = "idle"
      BY <1>0, <2>1, <2>2
    <3> QED BY <2>3, <3>1 DEF FilledOnce, Filling
  <2>5. ComAgrees' BY <1>1, <2>1, <2>3 DEF ComAgrees, Unsettled
  <2> QED BY <2>4, <2>5
<1>4. CASE TakeSteamID(u)
  <2>1. /\ user[u] = "identify" /\ UNCHANGED stale
        /\ com' = Cached(jar["community"])
        /\ user' = [user EXCEPT ![u] = IF jar["community"].token = 0 THEN "idle" ELSE "request"]
    BY <1>4 DEF TakeSteamID
  <2>2. /\ com.sessionid # 0 /\ com.id = 0
        /\ \A v \in Users : v # u => user[v] = "idle"
    <3>1. com.sessionid # 0 /\ com.id = 0 BY <2>1 DEF FilledOnce, Filling
    <3>2. \A v \in Users : user[v] # "request" BY <3>1 DEF FilledOnce
    <3>3. \A v \in Users : v # u => user[v] \notin {"take", "identify"}
      BY <2>1 DEF FilledOnce, Filling
    <3> QED BY <1>0, <3>1, <3>2, <3>3
  <2>3. CASE jar["community"].token = 0
    <3>1. com' = NoCreds /\ user' = [user EXCEPT ![u] = "idle"]
      BY <2>1, <2>3 DEF Cached
    <3>2. \A v \in Users : user'[v] = "idle" BY <1>0, <2>2, <3>1
    <3> QED BY <3>1, <3>2 DEF FilledOnce, Filling, ComAgrees, NoCreds
  <2>4. CASE jar["community"].token # 0
    <3>1. com' = [com EXCEPT !.id = jar["community"].id] /\ user' = [user EXCEPT ![u] = "request"]
      BY <2>1, <2>4 DEF Cached
    <3>2. jar["community"].id \in Accounts \cup {0} /\ jar["community"].id # 0
      BY <1>0, <2>4 DEF Account, HasAccount, Sites, CookieRecord
    <3>3. com'.sessionid = com.sessionid /\ com'.id = jar["community"].id
      BY <1>0, <3>1, <3>2
    <3>4. user'[u] = "request" /\ \A v \in Users : v # u => user'[v] = "idle"
      BY <1>0, <2>2, <3>1
    <3>5. FilledOnce' BY <2>2, <3>2, <3>3, <3>4 DEF FilledOnce, Filling
    <3>6. ComAgrees' BY <1>1, <2>1, <2>2, <3>3 DEF ComAgrees
    <3> QED BY <3>5, <3>6
  <2> QED BY <2>3, <2>4
<1>5. CASE Request(u)
  <2>1. /\ UNCHANGED <<com, stale>> /\ user[u] = "request"
        /\ user' = [user EXCEPT ![u] = "idle"]
    BY <1>5 DEF Request, Requests
  <2>2. \A v \in Users : user'[v] = IF v = u THEN "idle" ELSE user[v]
    BY <1>0, <2>1
  <2>3. FilledOnce'
    <3>1. \A v, w \in Users : Filling(v)' /\ Filling(w)' => v = w
      BY <2>1, <2>2 DEF FilledOnce, Filling
    <3>2. com.sessionid # 0 /\ com.id # 0 BY <2>1 DEF FilledOnce
    <3>3. \A v \in Users : ~Filling(v)' BY <2>1, <2>2, <3>2 DEF FilledOnce, Filling
    <3> QED BY <2>1, <2>2, <3>1, <3>2, <3>3 DEF FilledOnce, Filling
  <2> QED BY <1>1, <2>1, <2>3 DEF ComAgrees
<1> QED BY <1>2, <1>3, <1>4, <1>5

\* The agreement survives what the goroutines in Community do.
LEMMA ClientsUser ==
  ASSUME Types, Account, Clients, NEW u \in Users,
         Call(u) \/ TakeSessionID(u) \/ TakeSteamID(u) \/ Request(u)
  PROVE  Clients'
<1>1. UNCHANGED <<s, jar, shop>>
  BY DEF Call, TakeSessionID, TakeSteamID, Request, session_vars
<1>2. ShopType' /\ ShopAgrees' BY <1>1 DEF Clients, ShopType, ShopAgrees
<1> QED BY <1>2, UserSteps DEF Clients

\* The credentials that Community and Store have cached stay what the cookies
\* say until the Session makes others, and Community, its cache filled by one
\* goroutine at a time, sends nothing without an id or a session.
THEOREM RequestsMatchCookies == Spec => []RequestsAgree
<1>1. Init => Types /\ Account /\ Clients
  <2>1. Init => Types /\ Account BY AccountInit
  <2>2. Init => Clients
    BY SessionAssumption DEF Init, Clients, ShopType, ShopAgrees, FilledOnce, Filling, ComAgrees,
                             NoCreds, NoShop
  <2> QED BY <2>1, <2>2
<1>2. Types /\ Account /\ Clients /\ [Next]_vars => Types' /\ Account' /\ Clients'
  <2> SUFFICES ASSUME Types, Account, Clients, [Next]_vars PROVE Types' /\ Account' /\ Clients'
    OBVIOUS
  <2>1. Types' /\ Account' BY TypesKept, AccountKept
  <2> SUFFICES Clients'
    BY <2>1
  <2>2. ASSUME NEW u \in Users, Call(u) \/ TakeSessionID(u) \/ TakeSteamID(u) \/ Request(u)
        PROVE  Clients'
    BY <2>2, ClientsUser
  <2>3. CASE Crash BY <2>3, ClientsCrash
  <2>4. CASE NewStore BY <2>4, ClientsStore
  <2>5. CASE \/ StartWithCredentials \/ SubmitSteamGuardCode \/ ApprovedElsewhere
             \/ PollAuthSessionStatus \/ PollAnswered \/ PollFails \/ PollCancelled
             \/ SaveToFile \/ Saved \/ LoadFromFile \/ GetWebCookies \/ FinalizeAnswered \/ Refresh
             \/ \E i \in 1..2 : SetWebCookies(i) \/ SubmitTransferInfo(i) \/ TransferAnswered(i)
             \/ UNCHANGED vars
    BY <2>5, SessionSteps, ClientsSession
  <2> QED BY <2>1, <2>2, <2>3, <2>4, <2>5 DEF Next
<1>3. Clients => RequestsAgree
  <2> SUFFICES ASSUME Clients PROVE RequestsAgree
    OBVIOUS
  <2>1. shop.made /\ ~shop.stale =>
          shop.sessionid = jar["store"].sessionid /\ shop.id = jar["store"].id
    BY DEF Clients, ShopAgrees
  <2>2. ASSUME Spaced, NEW u \in Users, Requests(u) PROVE Whole /\ (Fits \/ stale)
    <3>1. com.sessionid # 0 /\ com.id # 0
      BY <2>2 DEF Clients, FilledOnce, Requests
    <3>2. ~stale => Fits BY <2>2, <3>1 DEF Clients, ComAgrees, Fits
    <3> QED BY <3>1, <3>2 DEF Whole
  <2> QED BY <2>1, <2>2 DEF RequestsAgree
<1> QED BY <1>1, <1>2, <1>3, PTL DEF Spec
=============================================================================
