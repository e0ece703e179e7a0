SPECIFICATION FairSpec
CONSTANTS
  Files = {f1}
  MaxTasks = 3
  MaxReplans = 1
  InitialPlans <- MixedPlans
  ReplanOutputs <- MixedRepairs
  Origins = {"user"}
  ZeroDisk = TRUE
  MaxConcurrent = 2
  MaxRequests = 1
  MaxFaults = 1
INVARIANTS
  CheckpointFaithful
  PassedInOrder
  StuckOnlyBehindGap
PROPERTIES
  ReplanOrphansNobody
  GoalSettles
CHECK_DEADLOCK FALSE
