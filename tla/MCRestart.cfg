SPECIFICATION RestartSpec
CONSTANTS
  d1 = d1
  t1 = t1
  t2 = t2
  None = None
  Daemons = {d1}
  Tasks = {t1, t2}
  NumRuns = 2
  MaxSlots = 1
  Dynamic = TRUE
  Faults = {"crash", "reply", "busy", "pause", "panic"}
  MaxFaults = 2
INVARIANTS
  NothingLivePurged
  ConcurrencyCapped
PROPERTIES
  ImplementsPool
  EveryRunSettles
CHECK_DEADLOCK FALSE
