CONSTANTS
  r1 = r1
  o1 = o1
  o2 = o2
  b1 = b1
  b2 = b2
  t1 = t1
  t2 = t2
  e1 = e1
  anna = anna
  bert = bert
  u1 = u1
  u2 = u2
  none = none
  Receivable = {r1}
  Linked = {r1}
  Offer = {o1, o2}
  Bid = {b1, b2}
  Trade = {t1, t2}
  Event = {e1}
  Party = {anna, bert}
  creditorOf <- MCcreditorOf
  QuoteBuyer = {bert}
  User = {u1, u2}
  Admin = {u1, u2}
  Nominal = 2
  Price = {1}
  None = none
SPECIFICATION Spec
SYMMETRY Symmetry
INVARIANTS
  TypeOK
  SettlementAgreement
  OneReportDecides
  StatusBacked
  ContractBacksAssignment
  OfferLockAgreement
  SoldOnce
  OwnershipFollowsPayment
  SaleXorFinancing
PROPERTIES
  SettledForGood
  DisputeBlocksDeals
  ImplementsSale
