SPECIFICATION FairSpec
CONSTANTS
  Calls = {c1, c2}
  NumBackends = 4
  KindOf <- MCKindOf
  Models <- MCModels
  Static = {1, 4}
  Size <- MCSize
  CodeModels = {"qwen"}
  KnownGood = {"qwen"}
  Sonnets = {}
  DefaultModel <- MCDefault
  Options <- MCOptions
  NoModel = "none"
  NoKind = "none"
  Cycle = 12
INVARIANTS
  InFlightExact
  FailsOnlyIfAllDo
