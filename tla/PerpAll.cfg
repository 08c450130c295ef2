SPECIFICATION AllSpec
CONSTANTS
  t1 = t1
  t2 = t2
  t3 = t3
  MaxSteps = 7
  SCALE = 100
  BPS = 100
  Users <- ThreeTraders
  Traders <- ThreeTraders
  FUNDS = 40
  SEED = 4
  InitRisk <- Phase1
  PhaseRisk <- Phases
  RiskChoices <- SomeRisks
  CAP_CEILING = 5
  OI_FLOOR = 40
  TAKER_FEE = 10
  PENALTY = 15
  MAX_POSITIONS = 3
  ADL_HAIRCUT = 50
  INSURANCE_FLOOR = 20
  HOUR = 1
  Sizes <- LotSizes
  Amounts = {7}
  IndexValues <- TwoIndexes
  Durations = {1, 5}
INVARIANTS
  TypeOK
  VaultsMatchBooks
  OpenInterestIsSum
  SolventCanClose
  FundingWithinCap
  CountsExact
  CollateralCoversInitialMargin
  OnlyTopUpBlocksLiquidation
PROPERTY
  ADLComparesAll
  NoGainByEntering
  GrowingLongGainsNothing
SYMMETRY UserSymmetry
CHECK_DEADLOCK FALSE
