SPECIFICATION Spec
CONSTANTS
  Request = {r1, r2}
  User = {u1, u2}
  Client = {papyrus, stranger}
  Trusted = {papyrus}
  Flow = {f1, f2}
  Sid = {s1, s2}
  RowId = {i1, i2}
  Reload = TRUE
  None = None
SYMMETRY Symmetry
INVARIANTS
  TypeOK
  TerminatedStaysDown
  LogoutAllCoversScope
  LogoutAllCoversLogins
PROPERTIES
  OnlyOwnerRevokes
  RevokedBeforeEnded
CHECK_DEADLOCK FALSE
