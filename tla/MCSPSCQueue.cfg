SPECIFICATION FairSpec
CONSTANTS
  Producers = {producer}
  Consumers = {consumer}
  Size = 4
  MaxItems = 9
  NoItem = NoItem
INVARIANTS
  QueueTypeOK
  NoDataRace
  DeliveredInOrder
PROPERTIES
  ImplementsBoundedQueue
  AllDelivered
