CONSTANTS
  Callers = {c1, c2}
  Closers = {k1, k2}
SPECIFICATION FairSpec
INVARIANTS
  NoUseAfterFree
  TeardownIsComplete
PROPERTIES
  OutcomeIsTruthful
  CancelledCallReturns
CHECK_DEADLOCK FALSE
