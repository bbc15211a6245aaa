SPECIFICATION Spec
CONSTANTS
  Request = {r1, r2}
  User = {u1, u2}
  Workspace = {w1, w2}
  Slug = {g1, g2}
  Invite = {i1, i2}
  OtherRole = superadmin
  None = None
SYMMETRY Symmetry
INVARIANTS
  TypeOK
  OneRolePerMember
  MembershipIsRooted
  AuthorityIsDelegated
  TeamHasItsOwner
  AcceptedInviteStaysClosed
PROPERTY
  MembersAreLetIn
CHECK_DEADLOCK FALSE
