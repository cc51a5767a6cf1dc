SPECIFICATION FairPoolSpec
CONSTANTS
  p1 = p1
  p2 = p2
  p3 = p3
  Ptrs <- MCPtrs
  Pool <- MCPool
  KeepsRules = TRUE
  MaxAllocs = 3
  NoOrder = NoOrder
  NoTrade = NoTrade
  Ids = {1, 2}
  Prices = {1}
  Sizes = {0, 1, 2}
  QMod = 4
  ClockSteps <- StrictClock
  CallerStamps = FALSE
  ReuseIds = FALSE
  MaxCalls = 3
INVARIANT
  RestingOrdersAreHeld
PROPERTIES
  MatchTerminates
  OrdersInUseAreLeftAlone
CHECK_DEADLOCK FALSE
