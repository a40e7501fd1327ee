SPECIFICATION FairSpec
CONSTANTS
  c1 = c1
  c2 = c2
  Callers <- TwoCallers
  NumAssets = 4
  Sent <- OneSent
  Received <- OneReceived
  Scenarios <- AllScenarios
  PageSize = 2
  SchemaSize = 3
  MaxCalls = 2
  MaxEvents = 1
INVARIANTS
  OkMeansDone
  ConfirmsWhatWasAsked
  PagesAddUp
PROPERTIES
  CallsEnd
CHECK_DEADLOCK FALSE
