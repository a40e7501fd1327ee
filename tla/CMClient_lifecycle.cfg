SPECIFICATION FairSpec
CONSTANTS
  MaxConns = 2
  MaxDones = 4
  MaxEvents = 3
  MaxBeats = 2
  HasHandler = TRUE
  MainOps <- AllOps
  LockedOps <- AllOps
  CallsIn <- AnyTime
INVARIANTS
  TypeOK
  OnlyMisusePanics
  LoopsAreCurrent
  OneEventPerConnection
  NoPhantomEvent
  SessionIsCurrent
  BeatClosesItsOwn
PROPERTIES
  TeardownEnds
  BreakIsReported
CHECK_DEADLOCK FALSE
