SPECIFICATION SessionFairSpec
CONSTANTS
  c1 = c1
  c2 = c2
  c3 = c3
  Callers <- ThreeCalls
  MaxStops = 3
INVARIANTS
  NoDoubleClose
  LoopStaysReachable
PROPERTY WelcomeEndsLoops
CHECK_DEADLOCK FALSE
