SPECIFICATION BenchmarkSpec
CONSTANTS
  Readers = {strategy}
  Main = main
  AtStartup = TRUE
  CyclesPerNs = 2
  MaxCycles = 6
  MaxReadings = 2
  PairsCalls = FALSE
  NsPerUs = 1
  MaxSamples = 3
INVARIANT
  LatenciesFitTheRun
CHECK_DEADLOCK FALSE
