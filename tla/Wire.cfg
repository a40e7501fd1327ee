SPECIFICATION FairSpec
CONSTANTS
  w1 = w1
  w2 = w2
  Writers <- TwoWriters
  Leaver = w2
  Connector = Connector
  NoOne = NoOne
  Scripts <- SomeScripts
  Packets <- SomePackets
  Depth = 2
INVARIANTS
  FramesStayWhole
  SealedAsAgreed
  ToldInOrder
PROPERTIES
  ToldAll
  WritesAndConnectEnd
CHECK_DEADLOCK FALSE
