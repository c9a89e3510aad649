\* Two commands, an interrupt and a death.
SPECIFICATION Spec
CONSTANTS
  p1 = p1
  p2 = p2
  Procs = {p1, p2}
  Order <- MCOrder
  Weight <- MCWeight
  Scores = {0, 2}
  Budgets = {7, 8}
  NoFile = NoFile
  NoLock = NoLock
  Dead = Dead
  MaxTroubles = 1
SYMMETRY Symmetry
INVARIANTS TypeOK CalledOnce MeasurementTrue
CHECK_DEADLOCK FALSE
