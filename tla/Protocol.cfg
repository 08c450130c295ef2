SPECIFICATION SharedSpec
CONSTANTS
  p1 = p1
  p2 = p2
  u1 = u1
  u2 = u2
  c1 = c1
  c2 = c2
  pikachu = pikachu
  mew = mew
  t1 = t1
  t2 = t2
  MaxSteps = 6
  Publishers <- TwoPublishers
  Users <- TwoUsers
  Admin = u1
  FUNDS = 50
  Constituents <- OneSlot
  Cards <- TwoCards
  Prices = {100, 130}
  UNIT = 10
  PUBLISHER_BOND = 20
  CHALLENGE_BOND = 5
  MIN_PUBLISHERS = 1
  WINDOW_START = 1
  WINDOW_END = 2
  CHALLENGE_WINDOW = 2
  DAY = 4
  START = 128
  MAX_REPEATS = 1
  MAX_VERSION = 2
  Durations = {2, 16}
  Clients <- TwoClients
  SCALE = 100
  BPS = 100
  Traders <- OneTrader
  SEED = 4
  InitRisk <- Phase1
  PhaseRisk <- Phases
  RiskChoices <- NoRisks
  CAP_CEILING = 5
  OI_FLOOR = 40
  TAKER_FEE = 10
  PENALTY = 15
  MAX_POSITIONS = 2
  ADL_HAIRCUT = 50
  INSURANCE_FLOOR = 10
  HOUR = 1
  Sizes <- Lot
  Amounts <- SmallAmounts
  IndexValues <- RoundValues
PROPERTY
  ImplementsEngine
CHECK_DEADLOCK FALSE
