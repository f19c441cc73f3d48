CONSTANTS
  Reqs = {q1, q2, q3}
  Runs = {r1, r2}
  a = a
  b = b
  long = long
  Headers = {a, b, long}
  Ids = {a, b}
  First64 <- MCFirst64
  NoId = NoId
  NoRun = NoRun
  Limit = 2
  Hosts = {"pub", "priv", "a.long-host.x"}
  Private = {"priv"}
  NoHost = "none"
  Paths = {"/p"}
  Chars <- MCChars
  MaxUrls = 3
  MaxUrlChars = 20
  Lists <- MCLists
SPECIFICATION Spec
SYMMETRY Symmetry
INVARIANT LinesCorrelated
CHECK_DEADLOCK FALSE
