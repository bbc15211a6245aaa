SPECIFICATION Spec
CONSTANTS
  Request = {r1, r2}
  User = {u1}
  Client = {papyrus, stranger}
  Trusted = {papyrus}
  Flow = {f1, f2}
  Sid = {s1, s2}
  RowId = {i1, i2}
  Reload = FALSE
  None = None
SYMMETRY Symmetry
INVARIANT
  TerminateEndsTheSession
CHECK_DEADLOCK FALSE
