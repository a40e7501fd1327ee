------------------------------ MODULE MCTrading ------------------------------
(* Model-checking instance of Trading: trades, sales, inventories and single  *)
(* exchanges, each with whatever else may disturb them.                       *)
EXTENDS Trading

CONSTANTS c1, c2
TwoCallers == {c1, c2}
OneSent == {5}
OneReceived == {6}

Exchanged == {"SendTradeOffer", "AcceptTradeOffer", "CancelTradeOffer", "DeclineTradeOffer"}
Sold == {"SellMarketItem", "CancelMarketListing"}
Singles == Operations \ (Confirming \cup Exchanged \cup Sold \cup {"GetInventory", "GetMarketListings"})

Scene(ops, listed, unconfirmed, gone) == [menu |-> ops, market |-> listed, waiting |-> unconfirmed, away |-> gone]
AllScenarios == {
  Scene(Exchanged \cup Confirming, <<1>>, <<5>>, {}),
  Scene(Exchanged \cup Confirming, <<>>, <<2>>, {}),
  Scene({"CancelMarketListing", "GetMarketListings"}, <<3, 1, 2>>, <<>>, {4}),
  Scene({"SellMarketItem", "AcceptConfirmation", "GetMarketListings"}, <<1, 3>>, <<2>>, {4}),
  Scene(Sold \cup {"GetInventory", "RejectConfirmation"}, <<>>, <<>>, {2}),
  Scene(Sold \cup {"GetInventory", "RejectConfirmation"}, <<4>>, <<2>>, {})}
  \cup {Scene({op}, <<>>, <<>>, {}) : op \in Singles}
=============================================================================
