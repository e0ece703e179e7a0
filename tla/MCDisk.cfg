SPECIFICATION FairSpec
CONSTANTS
  Files = {f1, f2}
  MaxTasks = 2
  MaxReplans = 1
  InitialPlans <- DiskPlans
  ReplanOutputs <- RepairPlans
  Origins = {"user", "def"}
  ZeroDisk = FALSE
  MaxConcurrent = 1
  MaxRequests = 2
  MaxFaults = 1
INVARIANTS
  
  PassedWorkSurvives
  
PROPERTIES
  NoRoundAfterLiveCancel
  NoRerunInSession
  StopRequestTakesEffect
CHECK_DEADLOCK FALSE
