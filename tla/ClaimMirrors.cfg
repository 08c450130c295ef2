SPECIFICATION MCSpec
CONSTANTS
  t1 = t1
  t2 = t2
  k1 = k1
  k2 = k2
  MaxSteps = 2
  Ticks = {k1, k2}
  keeper = t1
  IDL_SLOTS = 25
  INDEX_SLOTS = 50
  Misreadings = {1}
  SCALE = 100
  BPS = 100
  Users <- TwoTraders
  Traders <- TwoTraders
  FUNDS = 40
  SEED = 8
  InitRisk <- Phase1
  PhaseRisk <- Phases
  RiskChoices <- NoRisks
  CAP_CEILING = 5
  OI_FLOOR = 40
  TAKER_FEE = 10
  PENALTY = 15
  MAX_POSITIONS = 2
  ADL_HAIRCUT = 50
  INSURANCE_FLOOR = 10
  HOUR = 1
  Sizes <- Shorts
  Amounts = {7}
  IndexValues = {130}
  Durations = {8}
INVARIANT SameEquityAsOnChain
CHECK_DEADLOCK FALSE
