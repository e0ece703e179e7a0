SPECIFICATION Spec
CONSTANTS
  Runs = {r1, r2}
  Shapes = {"s"}
  ShapeOf <- OneShape
  Past = "past"
  Nothing = "none"
  Snapshot <- OldSnapshot
  MaxRounds = 1
  MaxFaults = 1
INVARIANTS
  IndexWithinRows
  RatesAreRates
SYMMETRY Symmetric
