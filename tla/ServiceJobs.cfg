SPECIFICATION FairSpec
CONSTANTS
  c1 = c1
  c2 = c2
  c3 = c3
  NoCall = NoCall
  Calls <- ThreeCalls
INVARIANTS
  OwnAnswer
  NoJobLeaks
PROPERTIES
  ImplementsFairRequestReply
CHECK_DEADLOCK FALSE
