SPECIFICATION ChatFairSpec
CONSTANTS
  r1 = r1
  r2 = r2
  Reqs <- TwoReqs
  Old = 2
  Cap = 1
  MaxOther = 1
  Providers <- AllProviders
INVARIANTS
  DoneStored
PROPERTIES
  CancelEnds
CHECK_DEADLOCK FALSE
