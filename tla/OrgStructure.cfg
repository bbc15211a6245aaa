SPECIFICATION Spec
CONSTANTS
  Request = {r1, r2}
  Workspace = {w1, w2}
  User = {u1, u2}
  Unit = {n1, n2}
  Position = {p1}
  Product = {k1, k2}
  Registry = {k1}
  JoinRole = {"admin", "member"}
  MaxRequests = 3
  None = None
SYMMETRY Symmetry
INVARIANTS
  TypeOK
  ReferencesStayInside
  PageShowsWhatWasThere
CHECK_DEADLOCK FALSE
PROPERTIES
  ChecksHoldAtTheWrite
