SPECIFICATION BacklogSpec
CONSTANTS
  Goals = {"m","t"}
  ByHand = {"m"}
  Runs = {"h","r1"}
  Human = {"h"}
  Pausable = {"h"}
  Issues = {"i"}
  NoIssue = "none"
  NoGoal = "-"
  Configs <- MCConfigs
  MaxPerDay = 1
  MaxRuns = 1
  MaxFaults = 1
INVARIANTS
  IngestedOnce
PROPERTIES
  
  GoalStarts
