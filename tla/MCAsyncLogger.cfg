SPECIFICATION FairLoggerSpec
CONSTANTS
  Producers = {strategy}
  Main = main
  Worker = worker
  Consumers = {main, worker}
  Size = 2
  MaxItems = 3
  NoItem = NoItem
  Paths = {"stdout", "file"}
  FlushWhileRunning = FALSE
  LogWhileStopping = FALSE
  Levels = {2, 4}
  Logged = {2}
  MaxStarts = 2
INVARIANTS
  LoggerTypeOK
  LinesInOrder
  StopLeavesNothingBehind
PROPERTIES
  StopReturns
  AcceptedIsWritten
CHECK_DEADLOCK FALSE
