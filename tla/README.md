# Verification of steamstacks

TLA+ models of the stateful parts of steamstacks (a Go library for the Steam
CM network, the TF2 Game Coordinator and Steam's web services), the TLC
configurations that check them, and TLAPS proofs of their central properties.

```
tlc -workers 2 -config CMClient_lifecycle.cfg MCCMClient   # one run; PROJECT.json lists all
tlapm CMClientProofs.tla                                   # one module of proofs, all end in Proofs
```

## 1. The system

| component | state | operations | properties that make it correct |
|---|---|---|---|
| `steamclient` lifecycle (`steamclient.go`, `reconnect.go`, `transport.go`) | `conn`, `done`, `closeOnce`, `disconnectOnce`, `wg`, `loggedIn`, `steamID`/`sessionID` | `Connect`, `Login`, `Disconnect`, `Reconnect`, `readLoop`, `heartbeatLoop`, `ClientLoggedOff`, `fireDisconnect` | a nil or closed channel is closed only by a call on a client that is not connected; loops do not outlive their connection; `OnDisconnect` at most once for each connection and never for the client's own teardown; teardown ends; a dead connection is reported; the session in use is the connection's |
| `steamclient` service methods (`callServiceMethod`, `expectJobID`) | `nextJobID`, `pendingJobs`, a channel per call | call, dispatch of `ServiceMethodResponse`, give up | each call returns its own answer or an error; no pending job is left; an answer that came ends the call |
| `steamclient` one-shot listeners (`expectEMsg`, `awaitPacket`, `friends.go`) | `OnPacket`, the handler every closure captured, a channel per call | install, dispatch, restore, give up | the answer reaches its call; the application's handler is kept; dispatch ends |
| `steamclient` packets (`message.go`, `gc.go`, `emsg.go`) and notifications (`persona.go`, `friends.go`, `notifications.go`) | the packets a Multi still has | decode, unzip a Multi, dispatch, call back | lengths are checked; the application is told all that was said, once and in order |
| `steamclient` transport (`transport_tcp.go`, `crypto.go`, `discovery.go`) | the cipher, the write mutex | handshake, framed read and write | frames stay whole under concurrent writes; nothing is sent in clear after the handshake; nobody hangs on a lost connection |
| `steamclient` fire-and-forget calls (`persona.go`, `games.go`, `friends.go`) | none | send one message | - |
| `tf2` session (`tf2.go`) | `connected`, `helloStop`, hello loops | `Connect`, `sendHello`, `helloLoop`, `Disconnect`, Welcome, Goodbye | no stop channel is closed twice; a hello loop ends at the Welcome or at Disconnect |
| `tf2` backpack (`socache.go`, `item.go`) | the item map, the account | Subscribed, SubscriptionCheck, Create, Update, UpdateMultiple, Destroy, reset | the cache mirrors the inventory; the callbacks tell all of it |
| `steamsession` token refresh (`authtransport.go`, `webcookies.go`) | `tokenExpiry`, its mutex, `AccessToken`, the cookie jar | `RoundTrip`, proactive and reactive refresh, `FinalizeLogin`, `ExpireAuthTransportToken` | a revocation is hidden from the caller; waiting requests share one refresh; no self-deadlock |
| `steamsession` login (`session.go`) | SteamID, the pending login, tokens, the file | start, guard code, poll, save, load | id and tokens are of one account, in memory, in the file and in the cookies, but where a login or a load parts them; errors do not end a poll |
| `steamcommunity` and `steamstore` session (`steamcommunity.go`, `steamstore.go`) | cached `sessionID`, `SteamID` | `ensureInit`, `New` | what is cached is what the cookies say |
| `steamcommunity` paging (`inventory.go`, `market.go`) | the caller's position | page through | every item that stays, once; it ends |
| `steamcommunity` offers and confirmations (`tradeoffer.go`, `confirmation.go`) | the site's | send, accept, cancel, confirm | no confirmation is answered but the one asked for |
| all web calls (`steamcommunity`, `steamstore`, `steamapi`) | the site's | one or two HTTP exchanges | success is reported only for what was done |
| `steamid`, `steamtotp` | none | conversions | round trips, widths |
| `protocol` | - | generated code | - |

How they interact. The application calls `steamclient.Client` from goroutines
of its own. The client's read loop dispatches every packet: pending job, then
type-specific handler, then the `OnPacket` chain. `tf2.Client` is registered as
`OnGCMessage` and so runs on the read loop too, while its `Connect` and
`Disconnect` run on the application's goroutines. `steamsession` refreshes
tokens for the HTTP clients of `steamcommunity` and `steamstore` inside
`authTransport.RoundTrip`; on mobile platforms its refresh is a
service method call.

What is hard here: plain fields shared between goroutines; `sync.Once` values
that are replaced while loops might use them; channels filled before a handler
is restored; state checked in one mutex region and changed in another; a lock
held across network requests that pass through the locking code again.
`PROJECT.json` lists these hazards at their lines with the properties that
watch them.

## 2. The modules

| module | models | built on |
|---|---|---|
| `CMClient` | the connection lifecycle | |
| `MCCMClient` | its instances: the policies of the application | `CMClient` |
| `CMClientProofs` | its theorems | `CMClient` |
| `RequestReply` | abstract: what a request primitive promises | |
| `ServiceJobs` | `callServiceMethod` with job IDs | `RequestReply` (refinement) |
| `MCServiceJobs`, `ServiceJobsProofs` | instance, theorems | `ServiceJobs` |
| `PacketListeners`, `MCPacketListeners`, `PacketListenersProofs` | `expectEMsg`/`awaitPacket` closures | |
| `TF2Session`, `MCTF2Session` | hello phase of the GC session | |
| `SOCache` | the backpack cache and its coordinator | |
| `TF2Proofs` | theorems about both | `SOCache`, `TF2Session` |
| `AuthTransport`, `MCAuthTransport`, `AuthTransportProofs` | token refresh under concurrent requests | |
| `Transport` | TCP frames, write mutex, encryption handshake | |
| `Wire`, `MCWire` | the transport composed with the read loop's dispatch, Multi, callbacks | `Transport` |
| `WebSession`, `MCWebSession`, `WebSessionProofs` | login, session file, cookies of two domains, what Community and Store cache | |
| `Endpoints` | what each web call makes of its answer | |
| `Trading`, `MCTrading`, `TradingProofs` | calls on an account that changes: offers, listings, confirmations, pages | `Endpoints` |
| `Codecs`, `MCCodecs` | SteamIDs, packet layouts, padding, description keys | |
| `WireProofs` | theorems about the wire and the conversions | `Wire`, `Codecs` |

Conventions. An action is named after the step of the code it stands for, and
`PROJECT.json` maps it to its lines. A definition named `XBug_...` is a faulty
variant of `X` that no action uses: it is there to confirm that a property can
tell the faulty code from the real one.

### CMClient

Connections and done channels are numbers in the order they are made; `done =
0` is the nil channel of a new client. `rl[k]` is the program counter of the
read loop of connection `k`, `hb[i]` that of a heartbeat loop, `pc[p]` that of
a goroutine of the application: `Main`, or one of the goroutines in which
`fireDisconnect` runs `OnDisconnect`. Every `close`, `Close`, `Wait` and lock
region is one step. The wait group is not a variable: its counter equals the
number of loops that run, as each `Add` is next to its `go`. The values a
`select` looks at are read when it is entered (`waitOn`, `hbDone`), as in Go.
`cs[k]` is what the network makes of connection `k`: `open`, `stalled` (the
peer is gone unnoticed, writes fail, reads do not), `dropped` (reads fail,
writes may still be taken), `shut` (closed here).

The code does not lock its lifecycle operations against each other. What the
application does about that is a parameter: `LockedOps` are the operations it
calls under a mutex of its own, `MainOps` those its main goroutine calls,
`CallsIn` the phases in which it calls each. `phase` is the application's own
record of what it has done (never connected, linked, logged in, broken,
disconnected). It decides when a call is made and never what the call does:
`Disconnect` and `Reconnect` test nothing, so `DisconnectBegin` and
`ReconnectBegin` do not either, and a call on a client that is not connected
goes on to close a closed or nil `done`. Such a client is `misused`.

### ServiceJobs and RequestReply

`RequestReply` says what a caller may expect: the call ends with the reply to
its own request or fails, and does not ignore a reply that came. `ServiceJobs`
is the code: take an ID from the atomic counter, register, send, wait, delete;
the read loop pops the job under the mutex and offers the packet after
unlocking. The refinement mapping reads the abstract status off `pc` and
`result`; a call that returned someone else's answer maps to `"crossed"`, which
`RequestReply` does not know.

### PacketListeners

Each closure of `expectEMsg` has the handler it captured (`prev`) and a
one-place channel. The read loop walks the chain, one step for offering the
packet, one for writing the captured handler back, as `steamclient.go:478-487`
does. `spacing`, chosen at the start, is the discipline of the application:
calls at any time, one after another, or only once the read loop is idle again.

### TF2Session

Stop channels are numbers, 0 is nil. `helloStop` is read again between the
hello and the start of its loop (`tf2.go:460-467`), so a Welcome or Disconnect
may come in between. The hello loops are the elements of `running`. Some names
start with `Session` here, and with `Codecs` in that module, where proofs
extend two components at once.

### SOCache

An item is its version, 0 if absent. The coordinator is external; its actions
send what the handlers expect of it: Welcome, Goodbye, SubscriptionCheck,
CacheSubscribed in answer to a refresh, and Create, Update, UpdateMultiple,
Destroy for changes while it counts the client as subscribed. The handlers run
in order on the read loop; `work` holds the second mutex region of Create and
Update until it is done, `tell` the callback that is still to be made, so a
`Disconnect` may come between any two of these. `view` is the backpack of an
application that does nothing but follow the callbacks.

Every decode may fail, each time at the point where the code finds out: the
message as a whole or the one object it carries (`HandleUndecodable`), an item in
the middle of a backpack (`HandleGarbledSubscribed`) or the account after it
(`LoadAccountFails`), one object of an UpdateMultiple, after which the others are
applied (`UpdateFails`). `debt` counts the Welcomes still to be handled before the
effects of a fault are gone; each of these is a fault.

### AuthTransport

A token is its number. `cookie[r]` is the token in the request's Cookie
header, `jar` the cookie jar's, `access` is `Session.AccessToken` and `expiry`
the token whose expiry `tokenExpiry` holds (0 for the zero time). The site
spoils tokens, time ages them. A refresh is as many steps as the code makes
exchanges and assignments, any of which may fail and leave what was done.
Token 1 is the login's. On WebBrowser it is never in the jar: the transport
starts by its expiry beside the cookie that `FinalizeLogin` has got (`Initial`).

### Transport and Wire

The byte stream of each direction is a sequence of cells, two for the header
and one for each piece of payload, so a read or write may stop anywhere.
`pc[p]` is where a sender's `Write` is: sealing happens outside the mutex
(`transport_tcp.go:36-44`), the two writes inside. `Connector` is the goroutine
in `Connect`, which writes the handshake's response with the same `Write`;
`Leaver` is `Disconnect`, which closes after its LogOff. The server is external:
it may send a wrong, short or refusing handshake, and then the messages of a
`script`. `Wire` adds `work`, the packets the read loop has still to handle -
those of a Multi are put in front of the rest, which is what the recursion of
`handlePacket` does - and `told`, the callbacks made so far. What the application
should have been told is defined beside it, from what the server `said`:
`Promise` gives the callbacks of a packet, of a Multi those of the packets
inside. It is defined level by level up to a `Depth` of nesting, and
`DepthAssumption` says that no packet is nested deeper. The code has no such
limit; `Depth` may be any number.

### WebSession

`s` has the fields of `Session`; a token is the number of the login it comes
from, `logins` says whose that is. `file` is torn between the truncation and the
write of `SaveToFile`; a crash may leave it so. The two domains get their
cookies one after the other, on the browser platform by an exchange each
(`webcookies.go:138-191`). `com` and `shop` are the credentials that `Community`
and `Store` have copied; `stale` says that the Session has been asked for other
ones since.

Two variables are history and guard nothing. `apart` is the set of places where
a SteamID may stand beside another account's tokens: the Session from
`StartWithCredentials`, which assigns the SteamID at once (`session.go:191`),
until its poll brings the tokens or a file is loaded, and after a poll that is
answered though a file was `loaded` meanwhile, as `LoadFromFile` leaves
`clientID` and `requestID` in place; and the file or a cookie that was copied
from such a Session.

One parameter is the discipline of the application. `Spaced`: no goroutine
enters `Community` while another is inside `ensureInit`. Without it a request
can go out with a SteamID of 0.

### Endpoints and Trading

`Endpoints` has one definition for each web call: the ways in which its answer
can say that nothing was done, as far as the code knows them, and those that
it turns into an error. `Trading` lets goroutines make the calls, one exchange
at a time, against an account on which listings are sold, confirmations expire
and items come and go. `AcceptConfirmationByCreatorID` is two exchanges with
the lookup in between; `GetInventory`, `GetAllSchemaItems` and a caller who
pages through `GetMarketListings` as its comment says are as many as there are
pages. `watch` notes for each reader what was there from beginning to end.

### Codecs

Pure functions; the only variable is the input, and the widths are constants. A
SteamID is the set of the places of its ones: `|` is union, `&^` with a mask is
difference, a shift moves the places and drops those beyond the width. Values
are not cut to their part, as the setters do not cut them. In the run a SteamID
has 9 bits in four parts, lengths have 5 bits and so wrap, a block has 3 bytes,
a chunk of description keys has 2.

## 3. The runs

| run | module | question | distinct states |
|---|---|---|---|
| `cm_lifecycle` | MCCMClient | all safety and liveness properties of the lifecycle, application serialised | 143,305 |
| `cm_reuse` | MCCMClient | violation of `NoPanic`: `Reconnect` after `Disconnect` | |
| `jobs` | MCServiceJobs | own answers, no leaks, fair refinement of `RequestReply` | 23,839 |
| `listeners` | MCPacketListeners | chain and dispatch under any overlap; answers under a settled discipline | 134,305 |
| `listeners_lost` | MCPacketListeners | violation of `NoLostAnswer`: the late restore removes the next listener | |
| `tf2` | MCTF2Session | stop channels and hello loops | 11,143 |
| `so` | SOCache | the cache mirrors the inventory, the callbacks tell all of it, a Welcome repairs | 516,588 |
| `auth` | MCAuthTransport | revocation hidden, refresh shared, expiry covered, requests end | 496,375 |
| `wire` | MCWire | frames, cipher, order and completeness of the callbacks, nobody hangs | 49,552 |
| `websession` | MCWebSession | where id and tokens are of one account, requests agree with their cookies, polls succeed | 1,805,310 |
| `trading` | MCTrading | success means done, confirmations hit their target, pages add up, calls end | 400,645 |
| `codecs` | MCCodecs | conversions on every input of a small width | 16,358 |

`TypeOK` of each module gives the types of its variables, and the relations
between them that hold always; `cm_lifecycle` checks that of `CMClient`, the
theorems prove it of every other module with more than one variable.

### What they show

`cm_lifecycle`: an application that guards Connect, Login, Disconnect and
Reconnect with one mutex keeps the connection properties, as long as it does
not panic; and the mutex does not save it from that. `OnlyMisusePanics` says
exactly when it does: on a `Disconnect` or `Reconnect` of a client that is not
connected, never or not any more, and on a `Login` before any `Connect` has
worked. A second `Disconnect` is such a call, and so is the `Reconnect` of an
OnDisconnect goroutine that gets the mutex after the application's own
`Disconnect`. Whatever happens on a connected client, ClientLoggedOff in the
middle of either included, does not panic.

For that application
`OneEventPerConnection` rests on the Wait: with it, `disconnectOnce` is never
asked a second time, because a ClientLoggedOff also closes `done` and the read
loop that then fails takes the end for an expected one; without the Wait the
Onces would be renewed under a loop that has reported already. Three things
happen without that care, or in spite of it; the second is the run `cm_reuse`,
the others follow from the model with other policies:

* `Login` (`steamclient.go:271`) publishes its session without looking whether
  the connection is still the one that granted it. If the disconnect handler's
  `Reconnect` comes in between, the new connection carries the old session.
* `Disconnect` puts a fresh `closeOnce` in place "for potential reuse via
  Reconnect" and leaves `done` closed; `Reconnect` then closes it again.
* `awaitPacket` is documented to return when the connection closes, but a read
  error closes nothing: a waiting `Login` stays until its context ends.

`listeners`: nothing the callers do makes the closures loop or lose the
application's handler for a dispatch, but the answers are only safe
(`SpacedCallsWork`, `AnswerEndsCall`) when no call has been given up and each
starts after the read loop has finished with the last. A call that starts as
soon as the previous one has returned, which nothing in the API forbids, can
lose its answer (`listeners_lost`).

`tf2`: a hello loop that has a stop channel ends. One started after a Welcome
that overtook it has none (`tf2.go:461` reads nil), and runs for as long as
sending works; "until welcome or stop" (`tf2.go:464`) is then not what happens.

`so`: the properties hold while `debt = 0`. A fault sets it (a Disconnect
between two regions, a lapsed subscription, a message or any object in it that
does not decode), and
the Welcomes that follow pay it off; so the run shows both that fault-free
histories are right and that the reset on Welcome repairs any faulty one. The
account object is assumed to come with the backpack (`SendsAccount = TRUE`):
without it `handleSOCreate` takes an empty loaded backpack for an unloaded one
(`socache.go:326`) and drops what is created in it.

`auth`: a single revocation is never seen by the caller of a replayable
request, whatever its timing against the refreshes of others. Two concurrent
ones may be. A request that finds the refresh done by another goroutine keeps
its old cookie, since `authtransport.go:145` returns before the patch that the
comment at 138 promises; the reactive retry then makes up for it if the request
can be replayed.

`wire`: whatever senders, handshakes and losses do, each direction stays in
step and sealed as agreed. A Multi with a packet that does not decode is
dropped whole, and the application is told everything else, in order, nested
or not; what is in a Multi after its ClientLoggedOff is told as well. A Write
behind a peer that takes nothing ends when the system gives the connection up,
not before, and a server that stays silent in the handshake keeps `Connect`,
whose context `performEncryptionHandshake` does not look at.

`websession`: through crashes, torn files and refreshes the SteamID beside every
token is its owner's, unless one of two calls has parted them.
`StartWithCredentials` does until its login has come; what is saved or set as a
cookie meanwhile pairs one account's id with the other's token. A poll does
that is answered after a `LoadFromFile`: log in as B, load A's file, poll, and
B's tokens stand beside A's SteamID for good. No other sequence of calls does
it. If Community is entered one goroutine at a time, what is cached
agrees with the cookies until the Session makes new ones. After that nothing
does: `ensureInit` never looks again, so a `Community` used across a second
`GetWebCookies` sends a form with the old session id.

`trading`: the two steps of a confirmation are safe because the second names
id and nonce of what was found. `GetInventory` misses nothing that stayed
because it goes on from an asset; listings are paged by number, so one may be
missed when another goes, and be seen twice when another comes, but only then.
`Credulous` is the list of calls whose success may mean nothing: those that
look only at the status or take a login page for an empty account
(`market.go:185`, `friends.go:109`, `buyitem.go:154` and others).

`codecs`: preconditions are where the code has them silently. Setters are
given values that fit; header lengths within 8 of 2^32 are left out (the sum
wraps and `decodeProtoPacket` panics, `decodeGCProtoPayload` returns part of
the prefix); descriptions are found under their own key unless a class is
asked for with and without an instance, or the answer leaves instances out.

### Bounds

* `CMClient`: two connections, so one reconnect with everything that races
  with it; four done channels (two for each teardown and dial); three
  OnDisconnect goroutines, one more than connections, so that a second report
  for one connection would be seen; two heartbeats, so that one may survive.
  The bounds sit in the guards of `ConnectBegin`, `ReconnectBegin`,
  `FireDisconnect` and `StartHeartbeat`. The theorems are about any bounds.
* `ServiceJobs`: three calls, so that one answer can be late for two others.
* `PacketListeners`: two calls awaiting the same type and one of another: both
  kinds of neighbour a closure can have in the chain.
* `TF2Session`: three calls of `Connect`, three stop channels.
* `SOCache`: two items with two versions, two messages on their way, two
  changes of the inventory: a change may meet a resubscription, a reset and
  another change of the same or the other item.
* `AuthTransport`: two requests, one replayable; three tokens may be spoiled,
  which is one more than the replayable request can survive; one explicit expiry.
* `Wire`: two senders, one of which leaves, so that one waits for the mutex
  while the other fails; packets of one or two payload cells; three scripts
  that have every kind of packet, every way of being undecodable, and a
  ClientLoggedOff inside a Multi; `Packets` is all that is in them and `Depth` is
  2, the least for a Multi inside a Multi.
* `WebSession`: two accounts and two logins, two session ids, one crash: each
  hazard needs one change of account or cookies between two steps of something
  else. One user of Community, as goroutines that take turns there are one; the
  theorem has any number. Platforms browser and mobile: what a session of the
  client platform does, one of the mobile platform does too.
* `Trading`: four assets, pages of two, one offer each way, two calls that
  overlap and one event of the outside; a list is two pages and changes while
  it is read. `Scenarios` restricts which operations meet.
* `Codecs`: widths at which every wrap, carry and cut happens; key lists of up
  to four, which is two chunks.

Deadlock is not checked: every model ends in states where all bounded calls
have been made and nothing more is to come (`codecs` has no such state).

### Fairness

* `CMClient`: weak fairness of each goroutine's next step (`Proceeds`, `Beat`,
  `Unwinds`): the Go scheduler runs what can run, tickers tick, and a Read or
  Write on a closed connection returns. None for the server, the network,
  contexts, or what the application decides to call.
* `ServiceJobs`, `PacketListeners`: weak fairness of calls that have begun and
  of the read loop; servers need not answer and contexts need not end.
* `TF2Session`: weak fairness of a loop's receive from its closed stop channel
  (`select` picks among ready cases at random).
* `AuthTransport`: weak fairness of each request: its HTTP exchanges end in
  an answer or an error. A waiter for the mutex is not starved by others
  for ever, as requests are finite in number.
* `Wire`: weak fairness of each Write, of the handshake, the reads and the
  dispatch; a stalled connection breaks at last, as TCP's own timeouts have it.
  The server owes nothing.
* `WebSession`: only that a poll that goes on being repeated is answered.
* `Trading`: every exchange ends in an answer or an error.
* `SOCache`, `Codecs`: safety only, no fairness.

## 4. What is proved

TLC answers for the instances above; the theorems are about every value of the
constants: any number of connections, calls, requests, senders, items, accounts
and tokens, and any bound. All but the refinement are of the form `Spec => []Inv`,
each from an inductive invariant that TLC was asked about first.

### CMClientProofs

Assuming `Serialised`: the application guards Connect, Disconnect and Reconnect
by a mutex and calls Connect only on a client that is not connected. Login may
run beside them. Nothing is assumed of when it calls Disconnect, Reconnect and
Login.

* `PanicIsMisuse` (`OnlyMisusePanics`): a client panics when one of the calls named
  above is made, and never otherwise.
* `TypeCorrect`, `LoopsStayCurrent`, `ReportedOnce`: `TypeOK`, `LoopsAreCurrent`,
  `OneEventPerConnection` always hold.

The inductive invariant is `IInv = TypeOK /\ GrantInHand /\ Core`. None of the
three safety properties is inductive by itself. `OnlyMisusePanics` needs to know
that `done` is open whenever a connected client may still close it with
`closeOnce` unset (`ClosableWhenOpen`), which depends on where the teardowns are
(`PhaseMarks`) and on who may still hold a read loop (`LoopsHaveOwner`); and that
one that is not connected has a `closeOnce` that lets the next close through
(`Spent`, `Misuse`). `LoopsAreCurrent`
needs that no read loop runs between the end of a Wait and the next
`StartReadLoop` (`NoLoopBetween`), and that only one goroutine is inside the
operations (`Exclusive`). `OneEventPerConnection` needs that a fresh
`disconnectOnce` means the present connection has not been reported
(`ReaderUnreported`, `StartUnreported`). The preservation proof treats types
for each action first (`NextType`), then the rest in groups: steps that leave
the lifecycle aside (`AsideStep`), read loop steps (`LoopStep`, `LoopCloses`,
`LoopReports`) and the operations (`BeginsInside`, `ConnectsInside`,
`TearsDownInside`, `ResetsInside`).

Assuming `Sequential`: the mutex guards Login too, which is called once on a
connection, or too early.

* `SessionsStayCurrent` (`SessionIsCurrent`), `BeatsCloseTheirOwn`
  (`BeatClosesItsOwn`), `EventsAreReal` (`NoPhantomEvent`).

Without Login under the mutex all three are false: TLC finds, for each, the
Login that returns after its connection is gone. With it, what a Login has in
hand was granted by the present connection, and a heartbeat has the `done` of
the connection it was started for, as long as that is not torn down
(`SequentialInvariance`).

### ServiceJobsProofs

For any finite set of calls: `TypeCorrect`, `AnswersNeverCross` (`OwnAnswer`),
`JobsNeverLeak` (`NoJobLeaks`), and `Refinement`: `Spec => RR!Spec`, each step of
the code a step of `RequestReply` or none. The argument: the counter only
grows, so job IDs of started calls differ (`JobsDistinct`); hence what is
pending, sent, in the read loop's hand or in a channel belongs to the one call
that took the ID.

### PacketListenersProofs

* `ChainStaysGrounded` (`ChainIsGrounded`): however the calls overlap, what the
  handlers have captured leads to the application's own handler. `Reach` is
  defined by following as many links as there are calls; the invariant (`Chain`)
  instead gives each closure a rank above that of the one it has captured.
  Restoring one, at whatever time, keeps the ranks, so no cycle can come about.
* `SpacedCallsDoWork` (`SpacedCallsWork`): under the settled discipline, a call
  has the application's handler for its `prev` and the read loop holds nothing
  of an older call (`Listened`).

### TF2Proofs

* `NeverClosedTwice` (`NoDoubleClose`) and `LoopsCanBeStopped`
  (`LoopStaysReachable`), by the same invariant: the stop channel in the field is
  open and was made (`FieldIsOpen`), and every channel made is closed or in the
  field (`NoneForgotten`), as each place that replaces the field closes what was
  there in the same region.

For the backpack, assuming `SendsAccount`: the account object comes with it.
The proof needs this where the code does (`socache.go:326`, see `so` above).

* `CacheComesToMirror` (`CacheMirrors`): `CacheMirrors` speaks of the moments when
  nothing is under way and the last fault, any failed decode among them, has been
  followed by a Welcome. The invariant `Replay` speaks of all: there is a sequence
  of caches that starts with the present one once its handler has ended, goes on
  with what each queued message makes of the one before it (`Follows`), and ends
  in the inventory, or empty when the client is not subscribed, once no Welcome
  is owed to a fault any more. `Ready` says that updates do not meet an unloaded
  cache, `Shapes` what a message and the rest of a handler may consist of.
* `CallbacksTellAll` (`ViewMatches`): `Told` relates the view to the cache and the
  callback still to be made.

### AuthTransportProofs

* `ExpiryStaysCovered`, `RevocationStaysHidden`, `RefreshesAreShared`: the three
  invariants of the run `auth`, for any number of requests, failures and spoiled
  tokens. Tokens are numbered, so that `Tokens` and `Ordered` can say which of
  those of a request, the jar, the session and the site is the newer at which
  step of a refresh, and `Fresh` that a request which has been redirected is
  behind the jar once the refresh it waits for is done. `Account` pays for each
  new token with one that has aged or was expired, as long as nothing fails.
* `TypeCorrect`: `TypeOK` bounds the tokens by what the requests can bring, one
  proactive and one reactive refresh each (`Counted`).

### WebSessionProofs

* `AccountsNeverMix` (`OneAccount`), for any order of calls, and
  `RequestsMatchCookies` (`RequestsAgree`), for a spaced application; that
  discipline is a premise in the property itself. `Account` is what makes them
  inductive through a login that is half done, one that outlives a load, a torn
  file, a crash and the exchanges in which cookies are got; `Clients` relates
  caches, cookies and Session, in the middle of `ensureInit` too.

### WireProofs

* `FramesAreWhole` (`FramesStayWhole`) and `PacketsAreSealed` (`SealedAsAgreed`),
  for any senders, any scripts and any breakdown. Two parts carry it. `Writing`: what has gone out
  is a prefix of the frames begun, and, until the connection is gone, lacks only
  the rest of the frame whose writer holds the mutex. `Readable`: what the
  reader has and what is on its way to it are the cells of some sequence of
  whole frames (`Stream`), so no read takes the middle of a frame for its header;
  `Coming` says which frames those may be at each stage of the handshake.
  `Stages` and `Sending` say which mode is in use when.
* `TellsInOrder` (`ToldInOrder`), for any set of packets nested to any depth.
  `Following` is the invariant: the messages that were said are those heard and
  those in the frames on their way (`Carried`); what is told, followed by what is
  promised of `work`, is what is promised of the messages heard (`Reported`), so
  unpacking a Multi changes nothing and handling a packet moves its callbacks
  from one side to the other. Only the last message heard may hold a
  ClientLoggedOff: until it is handled `work` is not empty and nothing is read,
  and after that the connection is closed.

The conversions, for any widths of the parts, the lengths, the blocks and the
chunks, and any inputs (`CodecsAssumption` says what an input may be):

* `SteamIDsKept` (`SteamIDsHold`): `SetPlaces` says which bits a setter leaves on,
  `SetsPart` and `KeepsPart` that this changes its own part and no part beside it.
* `NothingMisread` (`NothingIsMisread`): Pad and Unpad undo each other because a
  remainder is unique (`Remainder`); for the packets the bounds are enough.
* `FoundAsAsked` (`DescribedAsAsked`): chunks hold every key (`ChunksCover`), and
  in a chunk whose keys can be told apart the class alone reads as the instance of
  the key itself (`LastIsOne`, `FiledAsAsked`).

### TradingProofs

For any number of concurrent calls, assets, listings, offers and confirmations,
any page size, and whatever happens on the account in between:

* `ReportsAreTrue` (`OkMeansDone`), `ConfirmsOnlyThat` (`ConfirmsWhatWasAsked`) and
  `PagesComplete` (`PagesAddUp`). All three speak of calls that have ended; the
  invariant says of each call on its way (`Sound`) what makes the end come out right.
* `Honest`: an answer that is taken for success is one of those the endpoint lets
  through, and has done all it says if the call is at its last exchange; the second
  exchange of a confirmation carries the id and nonce of the one asked for.
* `Reads`: what stayed has been read or is ahead of the cursor. The inventory goes
  on from an asset, so nothing that others do moves an item across the cursor
  (`InventoryWatched`). Listings go on from a number: a removal moves one back over
  the cursor and an addition at the front one forward, each only with the mark
  `went` or `came` set (`ListingsWatched`), which is why the property allows both.
* `Account`, which each effect on the site keeps (`EffectKeeps`, `EventKeeps`):
  an asset is in one place, and no two confirmations are for the same offer or
  listing; without that, accepting by creator ID could find another's.

They rest on `TradingAssumption`: assets are numbered, offers are other numbers,
and an account starts with no asset listed twice or both listed and waiting.

### Lemmas on data

Induction over numbers is done once in a module that needs it (`Counting`), from
the well-foundedness of `<` on `Nat` through the least element of a set. With it
`WireProofs` unfolds `FlattenSeq` (`FlattenIsPartial`, `FlattenAppend`), which the
library defines by a chosen function, and the recursive function `Promised`
(`Iteration`, `PromisedUnfolds`), and `PacketListenersProofs` the recursive
function `Reach` (`ReachUnfolds`). `EachJoin` says that applying a function to
each element of two sequences joined, and joining the results, is the same as
doing so with one and then with the other; cells of frames and callbacks of
packets are both such functions. `TradingProofs` says where the elements of a
sequence are once one is taken out or added (`Removed`, `AddedSet`), and what two
sequences joined contain and whether they ascend (`JoinedSet`, `JoinedAscends`).

### What is only model-checked

Every safety property of the passing runs is proved, under the assumptions named
above. What is left to TLC:

* All liveness, and the fair half of the refinement of `RequestReply`: liveness
  under fairness and `ENABLED` are out of the prover's reach, and so are
  `RECURSIVE` operators (no module has any) and the library's induction
  theorems that take an operator as a parameter.

## 5. Not modelled, and why

* `protocol` is generated code, 32 thousand of the repository's 41 thousand
  lines of Go. It has no logic to model, so the lines that the map covers stay a
  small share of the whole.
* Cryptography (AES, RSA, HMAC, Steam Guard codes), protobuf and JSON
  encoding, and the regular expressions that pick values out of HTML: data,
  not control. A page that is not the one expected is one of the answers in
  `Endpoints`.
* Server discovery is one HTTP request without state. `SetConn` is a test
  hook. The WebSocket transport leaves framing and locking to its library.
* Callbacks that call back into the client from the read loop: the application
  of the models calls from goroutines of its own. A `Disconnect` from within a
  callback waits for the loop it runs on.
* Tearing of multi-word values in data races: values are atomic, their order
  of access is not. The header that `sendPacket` marshals after it has unlocked
  (`steamclient.go:347`) is not followed.
* `GetWebCookies` while a request is inside a refresh: `AuthTransport` has the
  refresh in detail, `WebSession` has both but the refresh in one step.
* The order in which the steps of adding a phone number belong: the code
  leaves it to the caller.

## 6. What is left

The modules are written and every invariant that the runs check is proved.
Liveness stays with TLC, at the bounds above. A change of the code starts with
the module and the lines that `PROJECT.json` maps to it, then its run, then its
proofs.
