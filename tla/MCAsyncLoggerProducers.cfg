SPECIFICATION LoggerSpec
CONSTANTS
  Producers = {strategy, feed}
  Main = main
  Worker = worker
  Consumers = {main, worker}
  Size = 2
  MaxItems = 3
  NoItem = NoItem
  Paths = {"stdout", "file"}
  FlushWhileRunning = FALSE
  LogWhileStopping = FALSE
  Levels = {2}
  Logged = {2}
  MaxStarts = 2
INVARIANT
  DeliveredInOrder
CHECK_DEADLOCK FALSE
