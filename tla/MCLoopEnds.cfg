SPECIFICATION FairSpec
CONSTANTS
  Ids = {1, 2, 3}
  Plans <- ThreeTaskPlans
  Priority <- MCPriority
  MaxCalls = 13
  Grants = {2}
  MaxLoop = 5
  MaxGrants = 0
  MaxReentries = 0
  Faults = {"agent", "reject", "storage"}
INVARIANTS CompletedMeansDone WellFoundedNeverBlocked EndHasReason
PROPERTIES LoopEnds
