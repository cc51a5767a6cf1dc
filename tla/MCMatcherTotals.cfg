SPECIFICATION MatcherSpec
CONSTANTS
  Ptrs = {p1, p2, p3}
  NoOrder = NoOrder
  NoTrade = NoTrade
  Ids = {1, 2, 3}
  Prices = {1, 2}
  Sizes = {1, 2}
  QMod = 4
  ClockSteps <- StrictClock
  CallerStamps = FALSE
  ReuseIds = FALSE
  MaxCalls = 3
SYMMETRY Symmetry
INVARIANT
  LevelTotalsAreExact
CHECK_DEADLOCK FALSE
