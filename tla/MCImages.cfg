\* Three calls of any kind for any of the tables, two names, one
\* image that a body names, and one broken connection or one entity of the auth service.
SPECIFICATION Spec
CONSTANTS
  Call = {c1, c2, c3}
  Name = {n1, n2}
  Link = {k1}
  Null = Null
  Absent = Absent
  MaxDisturbed = 1
SYMMETRY ImageSymmetry
INVARIANTS
  ImageTypeOK
  NamesUnique
  ImageBelongs
  AnswersTrue
  ImageIInv
PROPERTIES
  AvatarKept
CHECK_DEADLOCK FALSE
