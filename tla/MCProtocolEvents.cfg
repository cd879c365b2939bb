CONSTANTS
  admin = admin
  member = member
  other = other
  movena = movena
  abroad = abroad
  User = {admin, member, other}
  Admin = {admin}
  tenantOf <- MCtenantOf
  lendingTenant = movena
  Receivable = {r1, r2}
  Request = {q1, q2}
  Call = {c1, c2}
  MaxEvents = 6
  None = none
SPECIFICATION Spec
SYMMETRY Symmetry
INVARIANTS
  ForksOnlyBehindTheView
  LombardTogether
PROPERTY
  EventsStay
