SPECIFICATION FairSpec
CONSTANTS
  Paths <- MCPaths
  RepoFiles = {"Cargo.lock", "c.rs"}
  Globs = {"*.rs"}
  Malformed = {"noext"}
  KnownDir <- MCKnown
  NearMiss <- MCNear
  NoPath = "none"
  MaxTasks = 3
  TaskIds = {"task-1", "task-2", "task-3", "task-4"}
  Answers <- MCAnswers
  Modes = {"disk", "virtual"}
  DocFiles = {"Cargo.toml"}
  Manifests = {"Cargo.toml"}
  LockFiles = {"Cargo.lock"}
  Unseen = {}
  Touched = {"Cargo.lock", "Cargo.toml"}
  MaxConcurrent = 2
  MaxRetries = 2
  MaxRequests = 1
INVARIANTS OnlyFinishedWork StuckOnlyOnDangling InOrderEditsSurvive
PROPERTIES RunEnds ExecutesDag
CHECK_DEADLOCK FALSE
