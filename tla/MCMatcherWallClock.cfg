SPECIFICATION MatcherSpec
CONSTANTS
  Ptrs = {p1, p2, p3}
  NoOrder = NoOrder
  NoTrade = NoTrade
  Ids = {1, 2, 3}
  Prices = {1, 2}
  Sizes = {1, 2}
  QMod = 4
  ClockSteps <- WallClock
  CallerStamps = FALSE
  ReuseIds = FALSE
  MaxCalls = 3
SYMMETRY Symmetry
PROPERTY
  FirstOrderSetsPrice
CHECK_DEADLOCK FALSE
