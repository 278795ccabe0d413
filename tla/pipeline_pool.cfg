SPECIFICATION Spec
CONSTANTS
  None = None
  Job = {j1, j2}
  Slot = {s1, s2}
  QueueSize = 1
  UseService = TRUE
  UseS3 = FALSE
  Unwanted = {}
  MaxFaults = 1
  MaxStops = 1
SYMMETRY Symmetry
INVARIANTS TypeOK OneTicket AbortHitsItsJob
CHECK_DEADLOCK FALSE
