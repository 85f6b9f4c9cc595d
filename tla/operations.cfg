SPECIFICATION OneDeskSpec
CONSTANTS
  d1 = d1
  d2 = d2
  t1 = t1
  t2 = t2
  t3 = t3
  Desks = {"claims", "returns", "tickets", "services", "plans", "content", "cart", "catalogue", "search", "invitations", "links", "staff", "guidance", "evidence"}
  Claims = {d1, d2}
  ClaimAllowance = 1
  Returns = {d1, d2}
  Bought = 2
  MaxItems = 2
  Replies = {m1}
  MaxServiceQuotes = 2
  Plans = {t1, t2, t3}
  Editions = {t1, t2, t3}
  Editors = {d1, d2}
  Records = {r1}
  Skus = {d1, d2}
  MaxCalls = 3
  MaxAttempts = 2
  CheckoutKeys = {d1, d2}
  MaxOnShelf = 2
  Amounts = {1}
  CART_WRITE_RETRIES = 2
  Variants = {d1, d2}
  Patches <- ProductPatches
  MaxOpenEdits = 2
  Invitations = {t1, t2, t3}
  Links = {t1, t2, t3}
  Products = {1, 2, 3}
  Goods = {"g1", "g2", "g3", "g4"}
  ProductOf <- GoodsOf
  Sourced = {"g3"}
  MaxPrice = 2
  MaxGoods = 2
  LOW_STOCK_THRESHOLD = 1
  MaxLimit = 2
  Limits = {0, 3}
  Staff = {t1, t2}
  Founder = t1
  MaxVersion = 2
  MaxAtWork = 2
  Escalations = {d1, d2}
  Advisors = {t1, t2}
  Accounts = {"owner", "stranger", "tech1", "tech2", "qc", "store", "sales", "ops"}
  RoleOf <- RoleOfAccount
  Owner = "owner"
  Files = {f1}
INVARIANTS
  OperationsTypeOK
  CartBecomesItsOrder
  AccessIsAccountable
PROPERTIES
  CasesStayDecided
  ServiceIsAgreed
  ExecutionFollowsLifecycle
  PolicyStands
  PublicationIsChecked
  SearchIsTrue
  SecretsEnd
  AuthorityStands
  QuestionsAreSettled
SYMMETRY DeskSymmetry
CONSTRAINTS
  CartBound
  CatalogueBound
  ContentBound
  ServiceBound
  SearchBound
  EvidenceBound
CHECK_DEADLOCK FALSE
