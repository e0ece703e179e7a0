SPECIFICATION Spec
CONSTANTS
  Files = {"lib", "new", "bad"}
  Valid = {"lib", "new"}
  Existing = {"lib"}
  TaskFiles = {"lib", "new"}
  CrateOf <- MCCrateOf
  NoCrate = "none"
  MaxSteps = 4
  MaxAttempts = 3
  MaxBlocks = 2
INVARIANTS
  ChangesReported
PROPERTIES
  DoneIsClean
