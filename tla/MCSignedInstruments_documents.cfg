CONSTANTS
  w1 = w1
  w2 = w2
  z1 = z1
  q1 = q1
  c1 = c1
  none = none
  Draft = {w1, w2}
  Sola = {w2}
  Zession = {z1}
  Request = {q1}
  Call = {c1}
  Asked = {"AES"}
  Delivered = {"AES_MINIMAL", "DEMO"}
  None = none
  AllowDemo = FALSE
  MaxWrites = 1
SPECIFICATION Spec
INVARIANTS
  DrawerFirst
  AcceptanceSigned
  QualityHonoured
PROPERTIES
  SignedForGood
  StatusForward
CHECK_DEADLOCK FALSE
