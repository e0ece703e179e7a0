SPECIFICATION Spec
CONSTANTS
  d1 = d1
  d2 = d2
  t1 = t1
  t2 = t2
  None = None
  Daemons = {d1, d2}
  Tasks = {t1, t2}
  NumRuns = 1
  MaxSlots = 2
  Dynamic = FALSE
  Faults = {"crash", "panic", "reply", "write", "lapse", "busy", "pause", "nats"}
  MaxFaults = 1
SYMMETRY Symmetry
INVARIANTS
  RunningHasWorker
  OneTaskPerRun
CHECK_DEADLOCK FALSE
