----------------------------- MODULE MCWebSession -----------------------------
(***************************************************************************)
(* Model-checking instance of WebSession.  What a session of the platform  *)
(* "client" does, one of "mobile" does too.                                *)
(***************************************************************************)
EXTENDS WebSession

TwoAccounts == {1, 2}
BrowserAndMobile == {"browser", "mobile"}
=============================================================================
