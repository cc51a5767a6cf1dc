SPECIFICATION Spec
CONSTANTS
  Conns = {c1, c2}
  Polite = {c2}
  Bursty = {c2}
  Listen = listen
  MaxStarts = 2
  AddFails = FALSE
  MaxFds = 3
  MaxEvents = 2
  ReadSize = 2
  MaxBytes = 3
PROPERTY
  AcceptingReturns
CHECK_DEADLOCK FALSE
