CONSTANTS
  anna = anna
  bob = bob
  eve = eve
  a = a
  b = b
  r1 = r1
  r2 = r2
  l1 = l1
  f1 = f1
  x = x
  y = y
  c1 = c1
  none = none
  User = {anna, bob, eve}
  Admin = {eve}
  tenantOf <- MCtenantOf
  Root = {r1, r2}
  Link = {l1}
  Leaf = {f1}
  Text = {x, y}
  Mode = {"write", "both"}
  Call = {c1}
  None = none
  Reader = {bob}
  Old = {r1}
  legacyTenant = b
  Edited <- MCEdited
SPECIFICATION Spec
CONSTRAINT Near
INVARIANTS
  Rooted
PROPERTY
  ImplementsRecords
