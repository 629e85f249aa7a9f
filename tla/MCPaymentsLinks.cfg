CONSTANTS
  a1 = a1
  a2 = a2
  shop = shop
  NULL = NULL
  FakeTx = FakeTx
  Requests = {1, 2}
  Actions = {a1, a2}
  Invoices = {a1}
  Recipients = {shop}
  RecipientOf <- MCRecipientOf
  FixedAmount <- MCFixedAmount
  Amounts = {1, 2}
  Clients = {c1, c2}
  Memos = {m1}
  Handlers = {h1}
  Txs = {t1, t2}
  Notified = {a1}
  Lifetime = 1
  MaxTime = 1
  MockEnabled = FALSE
SPECIFICATION Spec
CHECK_DEADLOCK FALSE
CONSTRAINTS IdsInOrder AlwaysOpen AllPlain OneExpiry RoomForCalls
SYMMETRY Symmetric
INVARIANTS NoMisattribution EveryCheckPicksTheSame
PROPERTIES PaidInvoiceStaysClosed SettledIsFinal
