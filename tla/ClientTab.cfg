SPECIFICATION FairSpec
CONSTANTS
  r1 = r1
  r2 = r2
  Runs = {r1, r2}
  NoRun = NoRun
  Cap = 1
  Limit = 2
  MaxSessions = 2
  MaxClicks = 2
  MAX_CONSECUTIVE_ERRORS = 2
CHECK_DEADLOCK FALSE
INVARIANTS
  TypeOK
  NothingLeftBehind
  MessageIsTrue
  OneRunPerClick
PROPERTIES
  EverySessionEnds
