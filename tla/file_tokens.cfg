SPECIFICATION FairSpec
CONSTANTS
  c1 = c1
  Starter = Starter
  Loop = Loop
  Callers <- OneCaller
  MaxToken = 3
INVARIANTS
  SentOnce
PROPERTIES
  ReturnsUnexpired
  LoginPickedUp
CHECK_DEADLOCK FALSE
