SPECIFICATION Spec
CONSTANTS
  None = None
  Job = {j1}
  Slot = {s1, s2}
  QueueSize = 1
  UseService = FALSE
  UseS3 = TRUE
  Unwanted = {}
  MaxFaults = 1
  MaxStops = 0
INVARIANTS NoDuplicateProcessing
CHECK_DEADLOCK FALSE
