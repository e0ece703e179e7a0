SPECIFICATION LandSpec
CONSTANTS
  Runs = {"m1", "m2", "t"}
  IssueOf <- MCIssueOf
  NoIssue = "none"
  Files = {"a", "b"}
  EditsOf <- MCEditsOf
  People = {"people"}
  Outside = {"b"}
  MaxRuns = 2
  MaxFaults = 1
CHECK_DEADLOCK FALSE
INVARIANTS
  LandedEditsStay
PROPERTIES
  GatedTip
