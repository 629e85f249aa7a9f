CONSTANTS
  a1 = a1
  a2 = a2
  shop = shop
  NULL = NULL
  FakeTx = FakeTx
  Requests = {1, 2}
  Actions = {a1}
  Invoices = {}
  Recipients = {shop}
  RecipientOf <- MCRecipientOf
  FixedAmount <- MCFixedAmount
  Amounts = {1}
  Clients = {c1, c2}
  Memos = {m1}
  Handlers = {h1, h2}
  Txs = {t1}
  Notified = {a1}
  Lifetime = 2
  MaxTime = 2
  MockEnabled = TRUE
SPECIFICATION Spec
CHECK_DEADLOCK FALSE
CONSTRAINTS IdsInOrder AllPlain OneExpiry RoomForCalls
SYMMETRY Symmetric
INVARIANTS TypeOK CreditedOnce HandedToItsClient CreditFits

