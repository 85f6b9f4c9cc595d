SPECIFICATION FairSpec
CONSTANTS
  o1 = o1
  o2 = o2
  v1 = v1
  v2 = v2
  u1 = u1
  p1 = p1
  p2 = p2
  b1 = b1
  r1 = r1
  r2 = r2
  e1 = e1
  e2 = e2
  Orders = {o1, o2}
  B2BOrders = {o2}
  Variants = {v1}
  Units = {}
  Payments = {p1, p2}
  BankPayments = {}
  Refunds = {}
  EventIds = {e1, e2}
  Documentable = {o1}
  MaxQuantity = 1
  MaxTotal = 1
  StockLevels = {0, 2}
  CheckoutMethods = {"paystack"}
  Quantity <- DeskQuantity
  OrderTotal <- DeskTotals
  Subject <- DeskSubject
  RefundOf <- NoRefunds
  OpeningStock <- MoneyOpening
PROPERTIES
  HoldsEnd
CHECK_DEADLOCK FALSE
