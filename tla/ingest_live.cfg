SPECIFICATION FairSpec
CONSTANTS
  None = None
  Job = {j1}
  Node = {n1, n2}
  BufferSize = 1
  Limit = 1
  Front = {n1}
  Frail = {n1}
  MaxFaults = 2
  MaxErrors = 2
PROPERTIES AcceptedFinishes
CHECK_DEADLOCK FALSE
