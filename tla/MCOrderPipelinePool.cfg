SPECIFICATION PipelineSpec
CONSTANTS
  Feed = feed
  Engine = engine
  Producers = {feed}
  Consumers = {engine}
  Size = 4
  MaxItems = 6
  PoolSize = 6
  NoItem = NoItem
INVARIANT
  OrderIsAlive
