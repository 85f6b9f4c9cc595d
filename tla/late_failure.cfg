SPECIFICATION Spec
CONSTANTS
  o1 = o1
  o2 = o2
  v1 = v1
  v2 = v2
  u1 = u1
  p1 = p1
  p2 = p2
  b1 = b1
  r1 = r1
  r2 = r2
  e1 = e1
  e2 = e2
  Orders = {o1}
  B2BOrders = {}
  Variants = {v1}
  Units = {}
  Payments = {p1}
  BankPayments = {}
  Refunds = {r1, r2}
  EventIds = {e1, e2}
  Documentable = {o1}
  MaxQuantity = 1
  MaxTotal = 2
  StockLevels = {}
  CheckoutMethods = {"paystack"}
  Quantity <- MoneyQuantity
  OrderTotal <- MoneyTotals
  Subject <- MoneySubject
  RefundOf <- MoneyRefundOf
  OpeningStock <- MoneyOpening
PROPERTIES
  CapturedNeverFails
CHECK_DEADLOCK FALSE
