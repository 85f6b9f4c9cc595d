SPECIFICATION Spec
CONSTANTS
  o1 = o1
  o2 = o2
  v1 = v1
  v2 = v2
  u1 = u1
  p1 = p1
  p2 = p2
  b1 = b1
  r1 = r1
  r2 = r2
  e1 = e1
  e2 = e2
  Orders = {o1, o2}
  B2BOrders = {}
  Variants = {v1, v2}
  Units = {u1}
  Payments = {p1, p2, b1}
  BankPayments = {b1}
  Refunds = {}
  EventIds = {e1, e2}
  Documentable = {o1}
  MaxQuantity = 2
  MaxTotal = 1
  StockLevels = {}
  CheckoutMethods = {"bank_transfer"}
  Quantity <- StockQuantity
  OrderTotal <- StockTotals
  Subject <- StockSubject
  RefundOf <- NoRefunds
  OpeningStock <- StockOpening
INVARIANTS
  CapturedOnce
  TypeOK
  StockConserved
  GoodsGoToPayers
PROPERTIES
  ShelfSpec
  ReservationsMoveForward
SYMMETRY EventSymmetry
CHECK_DEADLOCK FALSE
