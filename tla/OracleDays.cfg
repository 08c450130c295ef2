SPECIFICATION MCSpec
CONSTANTS
  p1 = p1
  p2 = p2
  u1 = u1
  u2 = u2
  c1 = c1
  c2 = c2
  pikachu = pikachu
  mew = mew
  MaxSteps = 5
  Publishers <- TwoPublishers
  Users <- TwoUsers
  Admin = u1
  FUNDS = 50
  Constituents <- OneSlot
  Cards <- TwoCards
  Prices = {100, 106, 130}
  UNIT = 10
  PUBLISHER_BOND = 20
  CHALLENGE_BOND = 5
  MIN_PUBLISHERS = 1
  WINDOW_START = 1
  WINDOW_END = 2
  CHALLENGE_WINDOW = 2
  DAY = 4
  START = 4
  MAX_REPEATS = 2
  MAX_VERSION = 2
  Durations = {1, 4, 16, 120}
INVARIANTS
  TypeOK
  BondsBacked
  TierOfThisAbsence
  DisputesCanBeSettled
  AgreedNotSlashed
PROPERTIES
  PresentNotSlashed
  BasePriceKept
  MajorityDecides
  ImplementsFeed
CHECK_DEADLOCK FALSE
