SPECIFICATION BenchmarkSpec
CONSTANTS
  Readers = {strategy, feed}
  Main = main
  AtStartup = FALSE
  CyclesPerNs = 2
  MaxCycles = 8
  MaxReadings = 2
  PairsCalls = TRUE
  NsPerUs = 1
  MaxSamples = 0
INVARIANT
  ReadingsKeepOrder
CHECK_DEADLOCK FALSE
