SPECIFICATION BookSpec
CONSTANTS
  Ptrs = {p1, p2, p3}
  NoOrder = NoOrder
  Ids = {1, 2, 3}
  Prices = {1, 2}
  Sizes = {0, 1, 3}
  QMod = 4
  ClockSteps <- StrictClock
  CallerStamps = FALSE
  ReuseIds = FALSE
  MaxCalls = 3
SYMMETRY Symmetry
INVARIANTS
  TypeOK
  IndexMatchesLadders
  BestPricesAreCurrent
  PriceTimePriority
  LevelTotalsAreExact
CHECK_DEADLOCK FALSE
