SPECIFICATION Spec
CONSTANTS
  Conns = {c1, c2}
  Polite = {c2}
  Bursty = {c2}
  Listen = listen
  MaxStarts = 2
  AddFails = FALSE
  MaxFds = 6
  MaxEvents = 2
  ReadSize = 2
  MaxBytes = 3
PROPERTY
  BurstsAreHandled
CHECK_DEADLOCK FALSE
