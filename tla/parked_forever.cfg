SPECIFICATION FairSpec
CONSTANTS
  None = None
  Job = {j1, j2}
  Slot = {s1}
  QueueSize = 1
  UseService = FALSE
  UseS3 = TRUE
  Unwanted = {}
  MaxFaults = 0
  MaxStops = 0
PROPERTIES ParkedIsEnqueuedLater
CHECK_DEADLOCK FALSE
