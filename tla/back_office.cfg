SPECIFICATION OneDeskSpec
CONSTANTS
  p1 = p1
  p2 = p2
  r1 = r1
  k1 = k1
  k2 = k2
  g1 = g1
  g2 = g2
  u1 = u1
  c1 = c1
  owner = owner
  mate = mate
  s1 = s1
  s2 = s2
  Keys = {k1, k2}
  Units = {u1}
  Counts = {c1}
  OpeningStock = 1
  MaxStock = 2
  MaxSold = 1
  Requested <- StaffRequests
  Levels = {2}
  MaxPending = 2
  PurchaseOrders = {o1}
  Ordered = 2
  ReceiptKeys = {g1, g2}
  Users = {owner, mate}
  Founder = owner
  Officers = {s1, s2}
  MaxQuotations = 2
  MaxEdits = 2
  MaxVersion = 2
  Totals = {3}
  Deposit = 2
  Payments = {p1, p2}
  Refunds = {r1}
  RefundOf <- OneRefund
  Scopes = {"ALL", "QC"}
  MaxWarranties = 1
  MaxMoney = 4
INVARIANTS
  BackOfficeTypeOK
  DecisionsAreCurrent
  StockIsExplained
  OrdersAreReceived
PROPERTIES
  WorkIsPaidFor
  QuotationsAgree
SYMMETRY BackOfficeSymmetry
CONSTRAINTS
  RepairBound
  SupplyBound
  QuotationsBound
CHECK_DEADLOCK FALSE
