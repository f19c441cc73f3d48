SPECIFICATION Spec
CONSTANTS
  r1 = r1
  r2 = r2
  r3 = r3
  r4 = r4
  Runs = {r1, r2, r3, r4}
  Keys = {}
  NoRun = NoRun
  NoKey = NoKey
  MaxStoredRuns = 2
  MaxConcurrentRuns = 2
  MaxQueuedRuns = 1
  Outcomes = {"ok"}
  RunOutlivesKey = TRUE
SYMMETRY RunSymmetry
CHECK_DEADLOCK FALSE
INVARIANTS
  SlotsConserved
PROPERTIES
  ImplementsContract
