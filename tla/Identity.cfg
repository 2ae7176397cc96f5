SPECIFICATION IdentitySpec
CONSTANTS
  e1 = e1
  e2 = e2
  e3 = e3
  r1 = r1
  r2 = r2
  i1 = i1
  i2 = i2
  Emails = {e1, e2, e3}
  Companies = {"company"}
  Invitations = {i1, i2}
  Callers = {r1, r2}
  InvitedRoles = {"admin", "viewer"}
  MaxSessions = 1
  MaxMishaps = 1
SYMMETRY MCSymmetry
INVARIANTS
  IdentityTypeOK
  MembersWereInvited
  OutboxIsTruthful
PROPERTIES
  ImplementsAccessControl
CHECK_DEADLOCK FALSE
