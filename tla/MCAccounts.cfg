\* Four calls about two addresses, in any interleaving.
SPECIFICATION AccountSpec
CONSTANTS
  Call = {c1, c2, c3, c4}
  Email = {e1, e2}
  NoToken = NoToken
  MaxInFlight = 4
SYMMETRY AccountSymmetry
INVARIANTS
  AccountTypeOK
  ChangesLostOnlyToOverlap
  MailAnnouncesWrite
  AccountIInv
CHECK_DEADLOCK FALSE
