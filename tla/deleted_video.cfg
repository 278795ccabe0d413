SPECIFICATION Spec
CONSTANTS
  None = None
  Job = {j1}
  Slot = {s1, s2}
  QueueSize = 1
  UseService = FALSE
  UseS3 = TRUE
  Unwanted = {j1}
  MaxFaults = 0
  MaxStops = 0
INVARIANTS DeleteLeavesNoVideo
CHECK_DEADLOCK FALSE
