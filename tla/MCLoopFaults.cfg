SPECIFICATION Spec
CONSTANTS
  Ids = {1, 2, 3}
  Plans <- ReplanPlans
  Priority <- MCPriority
  MaxCalls = 3
  Grants = {2}
  MaxLoop = 3
  MaxGrants = 1
  MaxReentries = 1
  Faults = {"limit", "agent", "reject", "storage", "replan"}
INVARIANTS LoopInv DependenciesFirst FinalIsOwnUnlessSkipped
PROPERTIES ResultsStable
