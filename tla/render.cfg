SPECIFICATION FairSpec
CONSTANTS
  Calls = 2
  None = None
  Served = {1}
  Requests <- RequestSet
  MaxFaults = 1
INVARIANTS TypeOK SoleRenderingIsWhole CompletedShowsAllFrames ToldTheOutcome
PROPERTIES FollowsLifecycle ProgressGoesBackOnlyWithACall StreamEnds
CHECK_DEADLOCK FALSE
