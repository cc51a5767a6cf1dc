SPECIFICATION Spec
CONSTANTS
  Clients = {c1, c2}
  Traders = {c1, c2}
  MaxRequests = 2
  MaxFaults = 1
INVARIANTS
  ValidOrdersArePlaced
  AnswersMatchRequests
PROPERTY
  RequestsAreAnswered
CHECK_DEADLOCK FALSE
