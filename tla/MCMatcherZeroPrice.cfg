SPECIFICATION MatcherSpec
CONSTANTS
  Ptrs = {p1, p2, p3}
  NoOrder = NoOrder
  NoTrade = NoTrade
  Ids = {1, 2, 3}
  Prices = {0, 1}
  Sizes = {1, 2}
  QMod = 4
  ClockSteps <- StrictClock
  CallerStamps = FALSE
  ReuseIds = FALSE
  MaxCalls = 3
SYMMETRY Symmetry
INVARIANT
  HasMatchIffCrossed
CHECK_DEADLOCK FALSE
