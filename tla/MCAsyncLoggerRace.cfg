SPECIFICATION LoggerSpec
CONSTANTS
  Producers = {strategy}
  Main = main
  Worker = worker
  Consumers = {main, worker}
  Size = 2
  MaxItems = 3
  NoItem = NoItem
  Paths = {"stdout", "file"}
  FlushWhileRunning = FALSE
  LogWhileStopping = TRUE
  Levels = {2}
  Logged = {2}
  MaxStarts = 2
INVARIANT
  StopLeavesNothingBehind
CHECK_DEADLOCK FALSE
