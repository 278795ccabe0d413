SPECIFICATION FairSpec
CONSTANTS
  None = None
  Job = {j1, j2}
  Slot = {s1}
  QueueSize = 1
  UseService = TRUE
  UseS3 = FALSE
  Unwanted = {j1}
  MaxFaults = 1
  MaxStops = 1
PROPERTIES QueueMoves ShutdownEnds AcceptedFinishes NeverStuckProcessing
CHECK_DEADLOCK FALSE
