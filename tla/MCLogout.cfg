\* One login, one request that logs out with its token and one that comes after.
SPECIFICATION Spec
CONSTANTS
  Login = {l1}
  Http = {q1, q2}
  Secret = {p1}
  Lifetime = 2
  TicksPerSecond = 2
  MaxTime = 2
  MaxChanges = 0
SYMMETRY SessionSymmetry
PROPERTIES
  RevokedIsRefused
CHECK_DEADLOCK FALSE
