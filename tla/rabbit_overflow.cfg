SPECIFICATION FairSpec
CONSTANTS
  None = None
  Job = {j1, j2, j3, j4}
  Node = {n1}
  BufferSize = 1
  Limit = 4
  Front = {n1}
  Frail = {n1}
  MaxFaults = 0
  MaxErrors = 0
PROPERTIES AcceptedIsDelivered
CHECK_DEADLOCK FALSE
