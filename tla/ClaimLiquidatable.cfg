SPECIFICATION FundingSpec
CONSTANTS
  t1 = t1
  t2 = t2
  t3 = t3
  MaxSteps = 5
  SCALE = 100
  BPS = 100
  Users <- TwoTraders
  Traders <- TwoTraders
  FUNDS = 40
  SEED = 8
  InitRisk <- Phase1
  PhaseRisk <- Phases
  RiskChoices <- NoRisks
  CAP_CEILING = 5
  OI_FLOOR = 40
  TAKER_FEE = 10
  PENALTY = 15
  MAX_POSITIONS = 2
  ADL_HAIRCUT = 50
  INSURANCE_FLOOR = 10
  HOUR = 1
  Sizes <- LotSizes
  Amounts = {7}
  IndexValues <- TwoIndexes
  Durations = {8}
INVARIANT
  LiquidatableCanBeLiquidated
CHECK_DEADLOCK FALSE
