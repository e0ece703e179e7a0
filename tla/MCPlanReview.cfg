SPECIFICATION Spec
CONSTANTS
  NumRows = 1
  Clients = {"api", "mcp"}
  MaxRequests = 3
  Faults = {"reply", "write", "read", "crash"}
  MaxFaults = 1
CHECK_DEADLOCK FALSE
INVARIANTS
  ExecutesReviewed
  StoredFeedbackHeard
  
PROPERTIES
  RunsSettle
