SPECIFICATION FairSpec
CONSTANTS
  r1 = r1
  r2 = r2
  r3 = r3
  Runs = {r1, r2, r3}
  k1 = k1
  Keys = {k1}
  NoRun = NoRun
  NoKey = NoKey
  MaxStoredRuns = 3
  MaxConcurrentRuns = 1
  MaxQueuedRuns = 1
  Outcomes = {"ok"}
  RunOutlivesKey = TRUE
CHECK_DEADLOCK FALSE
PROPERTIES
  KeyNamesOneRun
  EveryRunEnds
