SPECIFICATION Spec
CONSTANTS
  None = None
  Job = {j1, j2}
  Node = {n1, n2}
  BufferSize = 1
  Limit = 1
  Front = {n1}
  Frail = {n1}
  MaxFaults = 1
  MaxErrors = 1
INVARIANTS TypeOK NothingForgotten AdmissionBounded
PROPERTIES ImplementsLifecycle
CHECK_DEADLOCK FALSE
