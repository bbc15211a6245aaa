SPECIFICATION Spec
CONSTANTS
  Request = {r1, r2}
  a1 = a1
  A1 = A1
  b1 = b1
  bad = bad
  p1 = p1
  p2 = p2
  short = short
  long = long
  Address <- OneMailbox
  Canonical <- Lowered
  Malformed <- NoAddress
  Password <- TwoPasswords
  Weak <- TooShort
  Overlong <- TooLong
  UserId = {u1}
  Token = {t1, t2}
  None = None
SYMMETRY Symmetry
INVARIANTS
  FailedSignupLeavesNoAccount
