SPECIFICATION Spec
CONSTANTS
  Runs = {"r1", "r2"}
  Files = {"a", "b"}
  NewFiles = {"b"}
  Modified <- MCModified
  Goals <- MCGoals
  Hyphenated = {"g1"}
  Shared = "shared"
  Placements <- MCPlacements
  None = None
  MaxFaults = 1
INVARIANTS
  OnePullRequest
  GitPrWhole
  ApiPrLeftOver
CHECK_DEADLOCK FALSE
