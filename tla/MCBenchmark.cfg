SPECIFICATION BenchmarkSpec
CONSTANTS
  Readers = {strategy, feed}
  Main = main
  AtStartup = TRUE
  CyclesPerNs = 2
  MaxCycles = 5
  MaxReadings = 2
  PairsCalls = TRUE
  NsPerUs = 1
  MaxSamples = 2
SYMMETRY ReadersAreAlike
INVARIANTS
  ClockTypeOK
  ReadingsKeepOrder
  LatenciesFitTheRun
  StatsOfTheRunAreRight
CHECK_DEADLOCK FALSE
