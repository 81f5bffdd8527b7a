CONSTANTS
  t1 = t1
  t2 = t2
  Threads <- ThreadsMC
  Sizes <- SizesMC
  MaxMemory = 2
  MaxTotal = 4
  MaxResets = 1
SYMMETRY Symmetry
SPECIFICATION Spec
INVARIANTS
  TypeOK
  PeakExactAtRest
  ConservedAtRest
  NeverOvercharged
  CapUnlessRaced
  OvershootBounded
CHECK_DEADLOCK FALSE
