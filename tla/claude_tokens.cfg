SPECIFICATION Spec
CONSTANTS
  c1 = c1
  c2 = c2
  c3 = c3
  p1 = p1
  p2 = p2
  Procs <- TwoProcs
  Callers <- ThreeCallers
  ProcOf <- Placed
  MaxToken = 2
  HasKey = TRUE
  Nobody = Nobody
INVARIANTS
  TypeOK
  RefreshedOnce
  KeychainGood
PROPERTIES
  ReturnsUnexpired
CHECK_DEADLOCK FALSE
