SPECIFICATION Spec
CONSTANTS
  MaxConns = 2
  MaxDones = 4
  MaxEvents = 3
  MaxBeats = 2
  HasHandler = TRUE
  MainOps <- AllOps
  LockedOps <- AllOps
  CallsIn <- Reuse
INVARIANT NoPanic
CHECK_DEADLOCK FALSE
