SPECIFICATION FairSpec
CONSTANTS
  Caller = {c1, c2, c3}
  FailureThreshold = 3
  MaxFailures = 6
  MaxAborts = 2
INVARIANTS TypeOK CountMatchesState
PROPERTIES RecoveredServiceIsUsed
