\* A reset of a password against any other handler of the account.
SPECIFICATION AccountSpec
CONSTANTS
  Call = {c1, c2, c3, c4}
  Email = {e1}
  NoToken = NoToken
  MaxInFlight = 2
INVARIANTS
  NewPasswordWorks
CHECK_DEADLOCK FALSE
