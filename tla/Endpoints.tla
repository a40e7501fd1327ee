------------------------------ MODULE Endpoints ------------------------------
(***************************************************************************)
(* What each call of Steam's web services makes of the answer it gets.     *)
(* For every endpoint: the ways in which its answer may say that nothing   *)
(* was done (says), as far as the code knows of them, and those among them *)
(* that the code turns into an error (heeds).                              *)
(*   status   an error status, with a page of HTML in place of the answer  *)
(*   login    the login page with status 200, where a redirect has led     *)
(*   eresult  a header X-Eresult other than 1                              *)
(*   mark     a success field that is false, or not 1                      *)
(*   text     an error text                                                *)
(*   detail   a purchase result other than OK                              *)
(*   absent   an answer without the object asked for                       *)
(***************************************************************************)

\* Any answer of the two sites may be a page instead; whoever decodes JSON
\* notices, with or without a look at the status.
Page == {"status", "login"}

Checked(ways) == [says |-> Page \cup ways, heeds |-> Page \cup ways]
\* The Web API has no login page.
ApiChecked(ways) == [says |-> {"status"} \cup ways, heeds |-> {"status"} \cup ways]

\* steamcommunity: offers, confirmations, market
SendTradeOffer == Checked({"text"})
AcceptTradeOffer == Checked({"text"})
CancelTradeOffer == Checked({"text"})
GetConfirmations == Checked({"mark"})
respondToConfirmationBug_AnyAnswer == [says |-> Page \cup {"mark"}, heeds |-> Page]
respondToConfirmation == Checked({"mark"})
SellMarketItem == Checked({"mark"})
GetInventory == Checked({"mark"})
GetMarketListings == Checked({"mark"})
\* Only the status is looked at.
CancelMarketListing == [says |-> Page, heeds |-> {"status"}]
\* A login page has no listings.
GetMyMarketListingIDs == [says |-> Page, heeds |-> {"status"}]
GetMyPendingMarketListings == [says |-> Page, heeds |-> {"status"}]
\* The success field is passed on to the caller, unread.
GetMarketPriceOverview == [says |-> Page \cup {"mark"}, heeds |-> Page]

\* steamcommunity: friends and profile
GetFriendsList == Checked({"mark"})
AddFriend == Checked({"mark"})
\* The answers that AddFriend reads are not read.
AcceptFriendRequest == [says |-> Page \cup {"mark"}, heeds |-> {"status"}]
RemoveFriend == [says |-> Page \cup {"mark"}, heeds |-> {"status"}]
BlockUser == [says |-> Page \cup {"mark"}, heeds |-> {"status"}]
UnblockUser == [says |-> Page \cup {"mark"}, heeds |-> {"status"}]
ProfileData == Checked({"absent"})
SetPrivacySettings == Checked({"mark"})
EditProfile == Checked({"mark"})
UploadAvatar == Checked({"mark"})
ClearAliasHistory == Checked({"mark"})
GetTradeOfferURL == Checked({"absent"})

\* steamstore
initBuyItem == Checked({"absent"})
\* An answer is a failure if it has the word "error" or "failed" in it.
approveTransaction == [says |-> Page \cup {"text"}, heeds |-> {"status", "text"}]
SendGift == Checked({"mark"})
SetDisplayLanguages == Checked({"mark"})
AddFreeLicense == Checked({"mark", "detail"})
RemoveLicense == Checked({"mark"})
\* The success field is passed on, unread.
phoneAjaxOp == [says |-> Page \cup {"mark", "text"}, heeds |-> Page \cup {"text"}]
\* A login page has neither phone nor wallet.
HasPhone == [says |-> Page, heeds |-> {"status"}]
GetWalletBalance == [says |-> Page, heeds |-> {"status"}]
RedeemWalletCode == Checked({"mark", "detail"})
CreateWallet == Checked({"mark", "detail"})
GetUserData == Checked({})

\* steamapi
GetSteamTime == ApiChecked({"absent"})
GetTradeOffer == ApiChecked({"eresult", "absent"})
GetTradeOfferWithDescriptions == ApiChecked({"eresult", "absent"})
GetTradeOffers == ApiChecked({"eresult"})
AddAuthenticator == ApiChecked({"eresult", "mark", "absent"})
FinalizeAddAuthenticator == ApiChecked({"eresult", "mark"})
\* The status field of a page and the success field of the map are skipped.
GetSchemaItems == [says |-> {"status", "mark"}, heeds |-> {"status"}]
GetAssetClassInfo == [says |-> {"status", "eresult", "mark"}, heeds |-> {"status", "eresult"}]

Endpoint == [
  SendTradeOffer |-> SendTradeOffer, AcceptTradeOffer |-> AcceptTradeOffer,
  CancelTradeOffer |-> CancelTradeOffer, GetConfirmations |-> GetConfirmations,
  respondToConfirmation |-> respondToConfirmation, SellMarketItem |-> SellMarketItem,
  GetInventory |-> GetInventory, GetMarketListings |-> GetMarketListings,
  CancelMarketListing |-> CancelMarketListing, GetMyMarketListingIDs |-> GetMyMarketListingIDs,
  GetMyPendingMarketListings |-> GetMyPendingMarketListings,
  GetMarketPriceOverview |-> GetMarketPriceOverview, GetFriendsList |-> GetFriendsList,
  AddFriend |-> AddFriend, AcceptFriendRequest |-> AcceptFriendRequest,
  RemoveFriend |-> RemoveFriend, BlockUser |-> BlockUser, UnblockUser |-> UnblockUser,
  ProfileData |-> ProfileData, SetPrivacySettings |-> SetPrivacySettings,
  EditProfile |-> EditProfile, UploadAvatar |-> UploadAvatar,
  ClearAliasHistory |-> ClearAliasHistory, GetTradeOfferURL |-> GetTradeOfferURL,
  initBuyItem |-> initBuyItem, approveTransaction |-> approveTransaction,
  SendGift |-> SendGift, SetDisplayLanguages |-> SetDisplayLanguages,
  AddFreeLicense |-> AddFreeLicense, RemoveLicense |-> RemoveLicense,
  phoneAjaxOp |-> phoneAjaxOp, HasPhone |-> HasPhone, GetWalletBalance |-> GetWalletBalance,
  RedeemWalletCode |-> RedeemWalletCode, CreateWallet |-> CreateWallet,
  GetUserData |-> GetUserData, GetSteamTime |-> GetSteamTime, GetTradeOffer |-> GetTradeOffer,
  GetTradeOfferWithDescriptions |-> GetTradeOfferWithDescriptions,
  GetTradeOffers |-> GetTradeOffers, AddAuthenticator |-> AddAuthenticator,
  FinalizeAddAuthenticator |-> FinalizeAddAuthenticator,
  GetSchemaItems |-> GetSchemaItems, GetAssetClassInfo |-> GetAssetClassInfo]
=============================================================================
