SPECIFICATION MCSpec
CONSTANTS
  p1 = p1
  c1 = c1
  pikachu = pikachu
  MaxSteps = 3
  own = p1
  Listings <- Answers
  Quotes = {0, 100}
  TRIM_TOP = 50
  TRIM_BOTTOM = 50
  MIN_SAMPLE = 3
  WINDOWS <- ThreeWindows
  DECAY_DAYS = 200
  Publishers <- OnePublisher
  Users = {p1}
  Admin = p1
  FUNDS = 0
  Constituents <- OneSlot
  Cards <- OneCard
  Prices = {110}
  UNIT = 10
  PUBLISHER_BOND = 20
  CHALLENGE_BOND = 5
  MIN_PUBLISHERS = 1
  WINDOW_START = 0
  WINDOW_END = 1
  CHALLENGE_WINDOW = 1
  DAY = 1
  START = 1
  MAX_REPEATS = 1
  MAX_VERSION = 1
  Durations = {1}
INVARIANTS
  NeverFresherThanSeen
  PricedByRecentSales
PROPERTY CaughtUp
CHECK_DEADLOCK FALSE
