SPECIFICATION Spec
CONSTANTS
  Request = {r1, r2}
  Browser = {b1, b2}
  User = {u1, u2}
  Flow = {f1, f2}
  HubId = {h1, h2}
  None = None
SYMMETRY Symmetry
INVARIANTS
  TypeOK
  SessionIsOwn
  PageIsOwn
PROPERTIES
  OneEntryPerLogin
