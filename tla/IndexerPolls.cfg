SPECIFICATION MCSpec
CONSTANTS
  Keys = {k1, k2}
  Polls = {p1, p2}
  MaxTxs = 4
  MaxFaults = 1
INVARIANTS
  OpeningsAccountedFor
  EconomicsAreOfTheClose
PROPERTY
  CatchesUp
CHECK_DEADLOCK FALSE
