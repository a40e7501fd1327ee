------------------------------- MODULE Trading -------------------------------
(***************************************************************************)
(* Goroutines that call Community, Store and API while the account changes *)
(* under them: offers and market listings with their mobile confirmations, *)
(* the inventory and the listings read page by page, and the many calls    *)
(* that are a single exchange (module Endpoints).  A call is one exchange  *)
(* or several; each may be refused, and each answer may be lost.           *)
(* The site is external: it does what it is asked while that is possible.  *)
(* Abstraction: an asset is its number, in the order of the inventory, and *)
(* the number of its listing; offers are numbered after the assets, since  *)
(* a confirmation names its creator by a number alone.                     *)
(***************************************************************************)
EXTENDS Integers, Sequences, SequencesExt, Endpoints

CONSTANTS
  Callers,
  NumAssets,   \* the account's items are numbered from 1
  Sent,        \* numbers of the offers that the account may make
  Received,    \* numbers of the offers that it may get
  PageSize,    \* the count of a page that the code asks for or allows
  SchemaSize,
  Scenarios,   \* the operations that the application uses in a behaviour (menu), and at its
               \* start: the active listings in order (market), what waits for its
               \* confirmation, in order (waiting), and what is not there (away)
  MaxCalls, MaxEvents  \* bounds: calls, and changes that nobody here asked for

Assets == 1..NumAssets
Offers == Sent \cup Received
Creators == Assets \cup Offers

\* What an application can call: an endpoint, or one of the calls that make two
\* exchanges or another endpoint's.
Operations ==
  (DOMAIN Endpoint \ {"respondToConfirmation", "initBuyItem", "approveTransaction"})
  \cup {"AcceptConfirmation", "RejectConfirmation", "BuyItem", "DeclineTradeOffer"}

ASSUME TradingAssumption ==
  /\ NumAssets \in Nat /\ Offers \subseteq Nat \ (0..NumAssets)
  /\ PageSize \in Nat \ {0} /\ SchemaSize \in Nat
  /\ \A n \in Scenarios : /\ n.menu \subseteq Operations
                          /\ n.market \in Seq(Assets) /\ IsInjective(n.market)
                          /\ n.waiting \in Seq(Creators) /\ IsInjective(n.waiting)
                          /\ ToSet(n.market) \cap ToSet(n.waiting) = {}

VARIABLES
  menu,       \* the operations that the application uses
  inv,        \* the assets in the inventory
  market,     \* the active listings, in the order of their display
  pending,    \* listings and offers that wait for their confirmation
  offer,      \* state of each offer
  confs,      \* confirmations, in the order of their making: [id, creator]
  call,       \* the call each goroutine makes or has made: what it asks for (op, on), its
              \* exchange (step, at), the confirmation it found (conf), the last answer (list
              \* of confirmations, or page; said, did), and what it has read (cursor, got)
  watch,      \* since each call began: what stayed, and whether listings came or went
  count       \* confirmations made, calls, events

site == <<inv, market, pending, offer, confs>>
vars == <<menu, site, call, watch, count>>

None == 0
Listing == {"GetInventory", "GetMarketListings", "GetSchemaItems"}
Unwatched == [inv |-> {}, market |-> {}, came |-> FALSE, went |-> FALSE]
NoConf == [id |-> None, creator |-> None]
NoCall == [op |-> "none", on |-> 0, step |-> 1, at |-> "idle", conf |-> NoConf, list |-> <<>>,
           page |-> <<>>, more |-> FALSE, cursor |-> None, got |-> <<>>, said |-> "", did |-> FALSE, ended |-> "none"]

Init ==
  /\ \E n \in Scenarios : /\ menu = n.menu /\ market = n.market /\ pending = ToSet(n.waiting)
                          /\ inv = Assets \ (ToSet(market) \cup pending \cup n.away)
                          /\ confs = [i \in DOMAIN n.waiting |-> [id |-> None, creator |-> n.waiting[i]]]
  /\ offer = [x \in Offers |-> IF x \in pending THEN "pending" ELSE IF x \in Sent THEN "none" ELSE "incoming"]
  /\ call = [c \in Callers |-> NoCall]
  /\ watch = [c \in Callers |-> Unwatched]
  /\ count = [confs |-> 0, calls |-> 0, events |-> 0]

-----------------------------------------------------------------------------
(* Calls.                                                                  *)

\* These two look for the confirmation of a creator before they answer it.
Confirming == {"AcceptConfirmation", "RejectConfirmation"}

Exchanges(op) ==
  CASE op \in Confirming -> <<"GetConfirmations", "respondToConfirmation">>
    [] op = "BuyItem" -> <<"initBuyItem", "approveTransaction">>
    [] op = "DeclineTradeOffer" -> <<"CancelTradeOffer">>
    [] OTHER -> <<op>>

EndpointOf(c) == Endpoint[Exchanges(call[c].op)[call[c].step]]

Arguments(op) ==
  CASE op \in Confirming -> Creators
    [] op \in {"SellMarketItem", "CancelMarketListing"} -> Assets
    [] op \in {"SendTradeOffer", "CancelTradeOffer"} -> Sent
    [] op \in {"AcceptTradeOffer", "DeclineTradeOffer"} -> Received
    [] OTHER -> {None}

Begin(c) ==
  /\ call[c].at = "idle" /\ count.calls < MaxCalls
  /\ \E op \in menu : \E x \in Arguments(op) :
        call' = [call EXCEPT ![c] = [NoCall EXCEPT !.op = op, !.on = x, !.at = "sent"]]
  /\ count' = [count EXCEPT !.calls = @ + 1]
  /\ watch' = [watch EXCEPT ![c] = IF call'[c].op \in Listing
       THEN [inv |-> inv, market |-> ToSet(market), came |-> FALSE, went |-> FALSE] ELSE Unwatched]
  /\ UNCHANGED <<menu, site>>

-----------------------------------------------------------------------------
(* The site.                                                               *)

\* What every reader sees of a change of the inventory or the listings.
Watched ==
  watch' = [c \in Callers |-> IF call[c].op \notin Listing \/ call[c].at = "idle" THEN watch[c] ELSE
    [inv |-> watch[c].inv \cap inv', market |-> watch[c].market \cap ToSet(market'),
     came |-> watch[c].came \/ ~(ToSet(market') \subseteq ToSet(market)),
     went |-> watch[c].went \/ ~(ToSet(market) \subseteq ToSet(market'))]]

Unlisted(a) == \E i \in DOMAIN market : market[i] = a /\ market' = RemoveAt(market, i)

NewConf(x) ==
  /\ pending' = pending \cup {x}
  /\ confs' = Append(confs, [id |-> count.confs + 1, creator |-> x])
  /\ count' = [count EXCEPT !.confs = @ + 1]

\* What is pending has one confirmation, or none after that has expired.
Settle(x) ==
  /\ pending' = pending \ {x}
  /\ \/ \E i \in DOMAIN confs : confs[i].creator = x /\ confs' = RemoveAt(confs, i)
     \/ (\A i \in DOMAIN confs : confs[i].creator # x) /\ UNCHANGED confs
  /\ UNCHANGED count

Unconfirmed == UNCHANGED <<pending, confs, count>>

\* An offer is pending until it is confirmed, or active at once.
Offered(x, state) ==
  /\ \/ NewConf(x) /\ offer' = [offer EXCEPT ![x] = "pending"]
     \/ Unconfirmed /\ offer' = [offer EXCEPT ![x] = state]
  /\ UNCHANGED <<inv, market>>

Closed(x) == Settle(x) /\ offer' = [offer EXCEPT ![x] = "closed"] /\ UNCHANGED <<inv, market>>

Accept(x) ==
  /\ Settle(x) /\ UNCHANGED inv
  /\ IF x \in Assets THEN market' \in {<<x>> \o market, Append(market, x)} /\ UNCHANGED offer
     ELSE offer' = [offer EXCEPT ![x] = IF x \in Sent THEN "active" ELSE "closed"] /\ UNCHANGED market

Reject(x) ==
  IF x \in Assets THEN Settle(x) /\ inv' = inv \cup {x} /\ UNCHANGED <<market, offer>>
                  ELSE Closed(x)

\* The effect of an operation on the account, where there is one.
Effect(k) ==
  LET x == k.on IN
  CASE k.op = "SendTradeOffer" -> offer[x] = "none" /\ Offered(x, "active")
    [] k.op = "AcceptTradeOffer" -> offer[x] = "incoming" /\ Offered(x, "closed")
    [] k.op = "CancelTradeOffer" -> offer[x] \in {"pending", "active"} /\ Closed(x)
    [] k.op = "DeclineTradeOffer" -> offer[x] = "incoming" /\ Closed(x)
    [] k.op = "SellMarketItem" -> x \in inv /\ inv' = inv \ {x} /\ NewConf(x) /\ UNCHANGED <<market, offer>>
    [] k.op = "CancelMarketListing" ->
         x \in ToSet(market) /\ Unlisted(x) /\ inv' = inv \cup {x} /\ Unconfirmed /\ UNCHANGED offer
    [] k.op = "AcceptConfirmation" -> k.conf \in ToSet(confs) /\ Accept(k.conf.creator)
    [] k.op = "RejectConfirmation" -> k.conf \in ToSet(confs) /\ Reject(k.conf.creator)
    [] OTHER -> UNCHANGED <<site, count>>

Final(c) == call[c].step = Len(Exchanges(call[c].op))

\* What a listing has left to read: what comes after the cursor.
Rest(k) ==
  LET all == CASE k.op = "GetInventory" -> inv
               [] k.op = "GetMarketListings" -> DOMAIN market
               [] k.op = "GetSchemaItems" -> 1..SchemaSize
               [] OTHER -> {}
  IN {a \in all : a > k.cursor}

\* A page is the first of the rest, in order: as many as it takes, or all.
Ascending(s) == \A i, j \in DOMAIN s : i < j => s[i] < s[j]
FirstOf(rest) == {p \in SeqOf(rest, PageSize) : Ascending(p) /\ \A a \in rest \ ToSet(p) :
                    Len(p) = PageSize /\ \A b \in ToSet(p) : b < a}

\* Listings are asked for by their position.
Pages(k) ==
  IF k.op = "GetMarketListings"
  THEN LET to == IF k.cursor + PageSize < Len(market) THEN k.cursor + PageSize ELSE Len(market)
       IN {SubSeq(market, k.cursor + 1, to)}
  ELSE FirstOf(Rest(k))

More(k, page) ==
  IF k.op = "GetMarketListings" THEN k.cursor + Len(page) < Len(market) ELSE Rest(k) # ToSet(page)

Serve(c) ==
  /\ call[c].at = "sent"
  /\ IF Final(c) THEN Effect(call[c]) ELSE UNCHANGED <<site, count>>
  /\ \E page \in Pages(call[c]) : call' = [call EXCEPT
        ![c].at = "answered", ![c].said = "done", ![c].did = Final(c),
        ![c].list = IF Final(c) THEN <<>> ELSE confs, ![c].page = page, ![c].more = More(call[c], page)]
  /\ Watched
  /\ UNCHANGED menu

Refuse(c) ==
  /\ call[c].at = "sent"
  /\ \E way \in EndpointOf(c).says : call' = [call EXCEPT
        ![c].at = "answered", ![c].said = way, ![c].did = FALSE,
        ![c].list = <<>>, ![c].page = <<>>, ![c].more = FALSE]
  /\ UNCHANGED <<menu, site, watch, count>>

Ends(c, how) == call' = [call EXCEPT ![c] = [NoCall EXCEPT
  !.op = call[c].op, !.on = call[c].on, !.ended = how, !.did = call[c].did, !.conf = call[c].conf]]

\* The request, or its answer, does not come through.
Lose(c) ==
  /\ call[c].at \in {"sent", "answered"}
  /\ Ends(c, "error")
  /\ UNCHANGED <<menu, site, watch, count>>

Event == count.events < MaxEvents /\ count' = [count EXCEPT !.events = @ + 1]

\* A listing is sold, a confirmation expires and leaves its listing pending,
\* a traded item arrives or goes.
ListingSold ==
  /\ Event /\ \E a \in ToSet(market) : Unlisted(a)
  /\ UNCHANGED <<menu, inv, pending, offer, confs, call>> /\ Watched

ConfirmationExpires ==
  /\ Event /\ \E i \in DOMAIN confs : confs' = RemoveAt(confs, i)
  /\ UNCHANGED <<menu, inv, market, pending, offer, call, watch>>

ItemMoves ==
  /\ Event
  /\ \/ \E a \in inv : inv' = inv \ {a}
     \/ \E a \in Assets \ (inv \cup pending \cup ToSet(market)) : inv' = inv \cup {a}
  /\ UNCHANGED <<menu, market, pending, offer, confs, call>> /\ Watched

-----------------------------------------------------------------------------
(* What the code does with an answer.                                      *)

\* The first confirmation of the list that has the creator ID.
MatchesBug_Any(f, x) == TRUE
Matches(f, x) == f.creator = x

FindConfirmation(c) ==
  LET list == call[c].list
      Found(i) == Matches(list[i], call[c].on)
  IN \/ (\A i \in DOMAIN list : ~Found(i)) /\ Ends(c, "error")
     \/ \E i \in DOMAIN list :
          /\ Found(i) /\ \A j \in 1..(i - 1) : ~Found(j)
          /\ call' = [call EXCEPT ![c].at = "sent", ![c].step = 2, ![c].conf = list[i]]

\* The next page starts after the last asset of this one, at "next", or where
\* the listings read so far end.
Cursor(k) == IF k.op = "GetMarketListings" THEN k.cursor + Len(k.page)
             ELSE IF k.page = <<>> THEN None ELSE k.page[Len(k.page)]

GatheredBug_LastPage(k) == k.page
Gathered(k) == k.got \o k.page

Read(c) ==
  LET k == [call[c] EXCEPT !.got = Gathered(call[c]), !.cursor = Cursor(call[c])] IN
  call' = [call EXCEPT ![c] =
    [k EXCEPT !.at = IF k.more THEN "sent" ELSE "idle", !.ended = IF k.more THEN "none" ELSE "ok",
              !.page = <<>>, !.more = FALSE, !.said = ""]]

FailsBug_AtOnceAgain(c) == call' = [call EXCEPT ![c].at = "sent"]
Fails(c) == Ends(c, "error")

Deliver(c) ==
  /\ call[c].at = "answered"
  /\ IF call[c].said \in EndpointOf(c).heeds THEN Fails(c)
     ELSE IF call[c].op \in Listing THEN Read(c)
     ELSE IF Final(c) THEN Ends(c, "ok")
     ELSE IF call[c].op = "BuyItem" THEN call' = [call EXCEPT ![c].at = "sent", ![c].step = 2]
     ELSE FindConfirmation(c)
  /\ UNCHANGED <<menu, site, watch, count>>

-----------------------------------------------------------------------------
Proceeds(c) == Lose(c) \/ Refuse(c) \/ Serve(c) \/ Deliver(c)

Next ==
  \/ \E c \in Callers : Begin(c) \/ Proceeds(c)
  \/ ListingSold \/ ConfirmationExpires \/ ItemMoves

Spec == Init /\ [][Next]_vars

\* Every exchange ends, in an answer or an error.
FairSpec == Spec /\ \A c \in Callers : WF_vars(Proceeds(c))

-----------------------------------------------------------------------------
Confirmations == [id : Nat, creator : Creators \cup {None}]
Calls == [
  op : Operations \cup {"none"}, on : Creators \cup {None}, step : {1, 2},
  at : {"idle", "sent", "answered"}, conf : Confirmations,
  list : Seq(Confirmations), page : Seq(Nat), more : BOOLEAN, cursor : Nat, got : Seq(Nat),
  said : {"", "done", "status", "login", "eresult", "mark", "text", "detail", "absent"},
  did : BOOLEAN, ended : {"none", "ok", "error"}]

TypeOK ==
  /\ menu \subseteq Operations
  /\ inv \subseteq Assets /\ market \in Seq(Assets)
  /\ pending \subseteq Creators /\ confs \in Seq(Confirmations)
  /\ offer \in [Offers -> {"none", "incoming", "pending", "active", "closed"}]
  /\ call \in [Callers -> Calls]
  /\ watch \in [Callers -> [inv : SUBSET Assets, market : SUBSET Assets, came : BOOLEAN, went : BOOLEAN]]
  /\ count \in [confs : Nat, calls : Nat, events : Nat]

Ended(c, op) == call[c].op = op /\ call[c].at = "idle" /\ call[c].ended = "ok"

\* The calls that may report success though nothing was done, or that take a
\* page without listings, phone or wallet for an account that has none.
Credulous == {"CancelMarketListing", "AcceptFriendRequest", "RemoveFriend", "BlockUser", "UnblockUser",
  "BuyItem", "phoneAjaxOp", "GetMyMarketListingIDs", "GetMyPendingMarketListings",
  "GetMarketPriceOverview", "HasPhone", "GetWalletBalance", "GetSchemaItems", "GetAssetClassInfo"}

\* Whatever other goroutines and the site do between the exchanges of a call,
\* and whatever it is refused or loses: when it reports success, then the site
\* has done what was asked, but for the calls above.
OkMeansDone == \A c \in Callers :
  call[c].at = "idle" /\ call[c].ended = "ok" => call[c].did \/ call[c].op \in Credulous

\* Accepting or rejecting by creator ID touches no other offer or listing,
\* although the list may have changed since it was read.
ConfirmsWhatWasAsked == \A c \in Callers :
  call[c].op \in Confirming /\ call[c].did => call[c].conf.creator = call[c].on

\* An inventory that was read while items came and went has each item at most
\* once, in order, and every item that stayed.
InventoryComplete == \A c \in Callers : Ended(c, "GetInventory") =>
  /\ Ascending(call[c].got)
  /\ watch[c].inv \subseteq ToSet(call[c].got)

\* Listings read page by page as GetMarketListings tells the caller to: one
\* that stayed is only missed if another has gone in the meantime, and one is
\* only there twice if another has come.
ListingsComplete == \A c \in Callers : Ended(c, "GetMarketListings") =>
  /\ watch[c].went \/ watch[c].market \subseteq ToSet(call[c].got)
  /\ watch[c].came \/ IsInjective(call[c].got)

\* What is read page by page adds up.
PagesAddUp == InventoryComplete /\ ListingsComplete

\* Every call ends, those that read page after page included.
CallsEnd == \A c \in Callers : call[c].at # "idle" ~> call[c].at = "idle"
=============================================================================
