SPECIFICATION Spec
CONSTANTS
  Marked = {d1, d2}
  Empty = {d2}
  Unmarked = other
  MaxMessages = 2
  Capacity = 3
  MaxStarts = 2
  MaxMarked = 3
  MaxErrors = 2
CHECK_DEADLOCK FALSE
INVARIANTS UDPServerTypeOK HandledOnceInOrder
PROPERTIES QueuedIsHandled ReceiveReturns
