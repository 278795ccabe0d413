SPECIFICATION Spec
CONSTANTS
  None = None
  Job = {j1}
  Slot = {s1, s2}
  QueueSize = 1
  UseService = FALSE
  UseS3 = TRUE
  Unwanted = {j1}
  MaxFaults = 2
  MaxStops = 1
SYMMETRY Symmetry
INVARIANTS Fenced OneTicket CompletedHasVideo RetryCountsFailures
PROPERTIES OnlyClaimantFinishes ImplementsLifecycle
CHECK_DEADLOCK FALSE
