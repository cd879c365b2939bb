CONSTANTS
  n1 = n1
  n2 = n2
  r1 = r1
  r2 = r2
  p1 = p1
  c1 = c1
  c2 = c2
  d1 = d1
  d2 = d2
  none = none
  creditor = creditor
  buyer = buyer
  Need = {n1, n2}
  Receivable = {r1}
  Provider = {p1}
  Call = {c1, c2}
  Doc = {d1, d2}
  None = none
  Lossy = FALSE
SPECIFICATION Spec
PROPERTY
  WithdrawnOnlyWithNothingOpen
