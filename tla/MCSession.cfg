\* One login (tokens share nothing), two requests that bear its token of two seconds or none, a
\* clock of half seconds that outlives it.
SPECIFICATION Spec
CONSTANTS
  Login = {l1}
  Http = {q1, q2}
  Secret = {p1, p2}
  Lifetime = 2
  TicksPerSecond = 2
  MaxTime = 6
  MaxChanges = 1
SYMMETRY SessionSymmetry
INVARIANTS
  SessionTypeOK
  AdmittedWasEntitled
  RevokedWasDenied
  SessionIInv
CHECK_DEADLOCK FALSE
