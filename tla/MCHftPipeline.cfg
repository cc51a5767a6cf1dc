SPECIFICATION FairHpSpec
CONSTANTS
  Feed = feed
  Engine = engine
  Producers = {feed}
  Consumers = {engine}
  Size = 4
  MaxItems = 5
  PoolSize = 4
  NoItem = NoItem
  Cpus = {0, 1}
  CpuId = 1
  Nodes = {0, 1}
  NodeOf <- MCNodeOf
  Stride = 1
INVARIANTS
  PushedIsProcessed
  PinnedOnSuccess
PROPERTY
  DemoReturns
