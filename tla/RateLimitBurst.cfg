SPECIFICATION Spec
CONSTANTS
  k1 = k1
  k2 = k2
  Clients = {k1, k2}
  Burst = 2
  Unit = 5
  Refill = 1
  Second = 2
  Horizon = 11
SYMMETRY ClientSymmetry
CHECK_DEADLOCK FALSE
INVARIANTS
  TypeOK
  GrantsBounded
  RetryAfterHonest
