SPECIFICATION FairSpec
CONSTANTS
  r1 = r1
  r2 = r2
  opus = opus
  gpt = gpt
  NoReq = NoReq
  Reqs = {r1, r2}
  Models <- TwoModels
  Mixes <- Pairs
  MaxAttempts = 2
INVARIANTS
  TypeOK
  StartsKept
  ResultsOnce
PROPERTIES
  GoneEnds
CHECK_DEADLOCK FALSE
