------------------------------ MODULE Payments ------------------------------
(***************************************************************************)
(* Payment requests, from the public POST that creates or reuses one to    *)
(* the transaction that attributes a chain payment to it.                  *)
(*                                                                         *)
(* Concurrent parts: the POST handlers (one database transaction under the *)
(* advisory locks, then an audit row outside it), the status route and the *)
(* worker (both expire and both confirm), the admin mock-confirm route,    *)
(* the payers and the chain.  A database transaction that holds the locks  *)
(* is one step when nothing it reads can change under it, and two when the *)
(* expiry, which takes no lock, or the clock can come in between.          *)
(***************************************************************************)
EXTENDS Integers, FiniteSets

CONSTANTS
  Requests,      \* ids a payment request can get
  Actions,       \* payment links
  Invoices,      \* the actions of type KASPA_INVOICE
  Recipients,    \* (network, address) pairs
  RecipientOf,   \* where each action is paid
  FixedAmount,   \* Action.amountSompi, NULL when the payer chooses
  Amounts,       \* amounts in sompi
  Clients,       \* hashes of client addresses
  Memos,         \* values of requestedMessage
  Handlers,      \* POST calls that can be in progress at the same time
  Txs,           \* chain transactions, each with one output of interest
  Notified,      \* actions whose creator's Telegram connection takes notices
  Lifetime,      \* PAYMENT_REQUEST_LIFETIME_MS
  MaxTime,       \* bound on the clock
  MockEnabled,   \* the deployment offers the admin mock-confirm route
  FakeTx,        \* stands for a generated fakeTxId
  NULL

\* A PaymentRequest row.  tx is txId, or FakeTx when fakeTxId is set.  plain:
\* supporterMessage and supporterName are null and supporterPublic is false.
\* by is the client that asked for the request: no column holds it, the code
\* only ever sees it in the audit row (createdBy).
Request ==
  [status : {"PENDING", "CONFIRMED", "EXPIRED"}, action : Actions,
   amount : Amounts \cup {NULL}, plain : BOOLEAN, memo : Memos,
   createdAt : Nat, expiresAt : Nat, tx : Txs \cup {NULL, FakeTx}, by : Clients]

\* A POST call in progress: the action is read and checked ("ready"), its
\* transaction holds the locks ("inTx"), the transaction is committed
\* ("audit").  at is the time the transaction read; target is the request it
\* hands back, NULL for one to be created.
Call ==
  [pc : {"ready", "inTx", "audit"}, client : Clients, action : Actions,
   amount : Amounts \cup {NULL}, plain : BOOLEAN, memo : Memos,
   expiresAt : Nat, at : Nat, target : Requests \cup {NULL}, reused : BOOLEAN]

\* A PaymentEvent row, and whether a Telegram outbox row came with it.
Event == [request : Requests, tx : Txs \cup {FakeTx}, amount : Amounts, queued : BOOLEAN]

\* A chain payment: the request its payer was shown, the amount, blockTime.
Payment == [for : Requests, amount : Amounts, at : Nat]

ASSUME PaymentsAssumption ==
  /\ Requests \subseteq Nat
  /\ Invoices \subseteq Actions
  /\ RecipientOf \in [Actions -> Recipients]
  /\ FixedAmount \in [Actions -> Amounts \cup {NULL}]
  /\ Notified \subseteq Actions
  /\ Lifetime \in Nat \ {0}
  /\ MaxTime \in Nat
  /\ MockEnabled \in BOOLEAN
  /\ FakeTx \notin Txs /\ FakeTx # NULL
  /\ NULL \notin Amounts \cup Txs \cup Requests \cup Clients
  /\ NULL \notin Request /\ NULL \notin Call /\ NULL \notin Payment

VARIABLES
  clock,         \* server time and block time
  closed,        \* actions that take no new request
  invoicePaid,   \* invoices whose invoicePaidAt is set
  req,           \* the PaymentRequest rows, NULL for an id not used yet
  createdBy,     \* ipHash of the "payment_request.created" audit rows
  events,        \* the PaymentEvent rows
  handler,       \* the POST calls in progress
  expiring,      \* guarded expiry updates decided on and not yet written
  mockExpiring,  \* the same for the mock-confirm route, whose update has no guard
  chain          \* the payments on the chain, NULL for a transaction not made

vars == <<clock, closed, invoicePaid, req, createdBy, events, handler,
          expiring, mockExpiring, chain>>

TypeOK ==
  /\ clock \in Nat
  /\ closed \subseteq Actions
  /\ invoicePaid \subseteq Invoices
  /\ req \in [Requests -> Request \cup {NULL}]
  /\ createdBy \in [Requests -> Clients \cup {NULL}]
  /\ events \subseteq Event
  /\ handler \in [Handlers -> Call \cup {NULL}]
  /\ expiring \subseteq Requests
  /\ mockExpiring \subseteq Requests
  /\ chain \in [Txs -> Payment \cup {NULL}]

Init ==
  /\ clock = 0
  /\ closed = {}
  /\ invoicePaid = {}
  /\ req = [r \in Requests |-> NULL]
  /\ createdBy = [r \in Requests |-> NULL]
  /\ events = {}
  /\ handler = [h \in Handlers |-> NULL]
  /\ expiring = {}
  /\ mockExpiring = {}
  /\ chain = [t \in Txs |-> NULL]

(***************************************************************************)
(* What the handlers compute from the rows.                                *)
(***************************************************************************)
Rows == {r \in Requests : req[r] # NULL}

Recipient(r) == RecipientOf[req[r].action]

\* Mistake: the transactions take no lock.
UnlockedAlways(c) == TRUE

\* The lock of an action is always taken with the lock of its recipient,
\* which never changes, so the recipient's lock stands for both.
Unlocked(c) ==
  \A h \in Handlers : handler[h] # NULL =>
    ~(handler[h].pc = "inTx" /\ RecipientOf[handler[h].action] = c)

\* Mistake: the window includes its end.
InWindowClosed(t, r) ==
  req[r].createdAt <= chain[t].at /\ chain[t].at <= req[r].expiresAt

\* blockTime in [createdAt, expiresAt).
InWindow(t, r) ==
  req[r].createdAt <= chain[t].at /\ chain[t].at < req[r].expiresAt

\* The transaction pays the request's recipient an amount the request accepts.
Fits(t, r) ==
  /\ Recipient(chain[t].for) = Recipient(r)
  /\ req[r].amount \in {NULL, chain[t].amount}

\* Mistake: expired requests are forgotten.
OverlappingPending(t, c) ==
  {r \in Rows : /\ Recipient(r) = c
                /\ req[r].status = "PENDING"
                /\ InWindow(t, r)
                /\ req[r].amount \in {NULL, chain[t].amount}}

\* The requests a payment could be meant for.  An expired request counts.
Overlapping(t, c) ==
  {r \in Rows : /\ Recipient(r) = c
                /\ req[r].status \in {"PENDING", "EXPIRED"}
                /\ InWindow(t, r)
                /\ req[r].amount \in {NULL, chain[t].amount}}

\* Mistake: no order among requests of the same millisecond.
NewerByTime(r, s) == req[r].createdAt >= req[s].createdAt

\* Later createdAt first, then the larger id.
Newer(r, s) ==
  \/ req[r].createdAt > req[s].createdAt
  \/ req[r].createdAt = req[s].createdAt /\ r > s

\* One client asked for all of them for one link, without a note or a name:
\* each request has its "created" audit row, and the rows name one client.
OneIntent(S) ==
  \A r, s \in S :
    /\ req[r].action = req[s].action
    /\ req[r].plain
    /\ createdBy[r] # NULL
    /\ createdBy[r] = createdBy[s]

\* The newest pending request of a single intent.
ChosenAmongRepeated(S, r) ==
  /\ OneIntent(S)
  /\ r \in S
  /\ \A s \in S : req[s].status = "PENDING" => s = r \/ Newer(r, s)

\* Address and amount matching picks request r for transaction t.
Attributable(t, r) ==
  LET S == Overlapping(t, Recipient(r)) IN
    S = {r} \/ ChosenAmongRepeated(S, r)

\* Mistake: a transaction may be used again.
UnclaimedAlways(t) == TRUE

\* No other request holds the transaction: the check in the transaction and
\* the UNIQUE constraint on txId.
Unclaimed(t) == \A r \in Rows : req[r].tx # t

(***************************************************************************)
(* POST /api/actions/[publicId]/payment-requests.                          *)
(***************************************************************************)

\* The action is read outside the transaction, and so is the time from which
\* the request will run.
StartCreate(h, c, a, amount, plain, memo) ==
  /\ handler[h] = NULL
  /\ a \notin closed
  /\ a \notin invoicePaid
  /\ handler' = [handler EXCEPT ![h] =
       [pc |-> "ready", client |-> c, action |-> a,
        amount |-> IF FixedAmount[a] # NULL THEN FixedAmount[a] ELSE amount,
        plain |-> plain, memo |-> memo, expiresAt |-> clock + Lifetime,
        at |-> clock, target |-> NULL, reused |-> FALSE]]
  /\ UNCHANGED <<clock, closed, invoicePaid, req, createdBy, events, expiring,
                 mockExpiring, chain>>

\* Mistake: the audit rows of any client count.
ReusableOfAnyone(p) ==
  {r \in Rows : /\ p.plain /\ req[r].plain
                /\ req[r].status = "PENDING"
                /\ req[r].expiresAt > clock
                /\ req[r].action = p.action
                /\ req[r].amount = p.amount
                /\ req[r].memo = p.memo
                /\ createdBy[r] # NULL}

\* The open requests findReusableRequestId may hand back to call p.
Reusable(p) ==
  {r \in Rows : /\ p.plain /\ req[r].plain
                /\ req[r].status = "PENDING"
                /\ req[r].expiresAt > clock
                /\ req[r].action = p.action
                /\ req[r].amount = p.amount
                /\ req[r].memo = p.memo
                /\ createdBy[r] = p.client}

\* The transaction takes the locks and reads.  A paid invoice ends the call.
BeginCreate(h) ==
  /\ handler[h] # NULL
  /\ LET p == handler[h] IN
       /\ p.pc = "ready"
       /\ Unlocked(RecipientOf[p.action])
       /\ \/ /\ p.action \in invoicePaid
             /\ handler' = [handler EXCEPT ![h] = NULL]
          \/ /\ p.action \notin invoicePaid
             /\ \E r \in IF Reusable(p) = {} THEN {NULL} ELSE Reusable(p) :
                  handler' = [handler EXCEPT
                    ![h] = [p EXCEPT !.pc = "inTx", !.at = clock,
                                     !.target = r, !.reused = (r # NULL)]]
  /\ UNCHANGED <<clock, closed, invoicePaid, req, createdBy, events, expiring,
                 mockExpiring, chain>>

\* The transaction commits the request it found, whatever its status is by
\* now, with the new end of its window.
CommitReuse(h) ==
  /\ handler[h] # NULL
  /\ handler[h].pc = "inTx"
  /\ handler[h].reused
  /\ req' = [req EXCEPT ![handler[h].target].expiresAt = handler[h].expiresAt]
  /\ handler' = [handler EXCEPT ![h].pc = "audit"]
  /\ UNCHANGED <<clock, closed, invoicePaid, createdBy, events, expiring,
                 mockExpiring, chain>>

\* The transaction commits a new row, inserted at some time since it began.
CommitNew(h, r, now) ==
  /\ handler[h] # NULL
  /\ req[r] = NULL
  /\ LET p == handler[h] IN
       /\ p.pc = "inTx"
       /\ ~p.reused
       /\ now \in p.at .. clock
       /\ req' = [req EXCEPT ![r] =
            [status |-> "PENDING", action |-> p.action, amount |-> p.amount,
             plain |-> p.plain, memo |-> p.memo, createdAt |-> now,
             expiresAt |-> p.expiresAt, tx |-> NULL, by |-> p.client]]
       /\ handler' = [handler EXCEPT ![h] = [p EXCEPT !.pc = "audit", !.target = r]]
  /\ UNCHANGED <<clock, closed, invoicePaid, createdBy, events, expiring,
                 mockExpiring, chain>>

\* The audit row follows the commit in a statement of its own.
WriteAudit(h) ==
  /\ handler[h] # NULL
  /\ LET p == handler[h] IN
       /\ p.pc = "audit"
       /\ createdBy' = IF p.reused THEN createdBy
                       ELSE [createdBy EXCEPT ![p.target] = p.client]
  /\ handler' = [handler EXCEPT ![h] = NULL]
  /\ UNCHANGED <<clock, closed, invoicePaid, req, events, expiring,
                 mockExpiring, chain>>

\* The process dies, or the transaction times out and is rolled back.
AbandonCreate(h) ==
  /\ handler[h] # NULL
  /\ handler' = [handler EXCEPT ![h] = NULL]
  /\ UNCHANGED <<clock, closed, invoicePaid, req, createdBy, events, expiring,
                 mockExpiring, chain>>

(***************************************************************************)
(* Expiry: the status route (lazily) and the worker.                       *)
(***************************************************************************)
DecideExpiry(r) ==
  /\ r \in Rows \ expiring
  /\ req[r].status = "PENDING"
  /\ req[r].expiresAt <= clock
  /\ expiring' = expiring \cup {r}
  /\ UNCHANGED <<clock, closed, invoicePaid, req, createdBy, events, handler,
                 mockExpiring, chain>>

\* Mistake: the update names the id only.
WriteExpiryUnguarded(r) ==
  /\ r \in expiring
  /\ expiring' = expiring \ {r}
  /\ req' = [req EXCEPT ![r].status = "EXPIRED"]
  /\ UNCHANGED <<clock, closed, invoicePaid, createdBy, events, handler,
                 mockExpiring, chain>>

\* updateMany with status PENDING in its where clause.
WriteExpiry(r) ==
  /\ r \in expiring
  /\ expiring' = expiring \ {r}
  /\ req' = IF req[r].status = "PENDING"
            THEN [req EXCEPT ![r].status = "EXPIRED"] ELSE req
  /\ UNCHANGED <<clock, closed, invoicePaid, createdBy, events, handler,
                 mockExpiring, chain>>

\* The row once confirmed: a request without an amount takes the amount paid.
Credited(row, tx, amount) ==
  [row EXCEPT !.status = "CONFIRMED", !.tx = tx,
              !.amount = IF row.amount = NULL THEN amount ELSE row.amount]

\* Mistake: every payment of the exact amount closes its action.
SettleAnyType(r, tx, amount) ==
  /\ req' = [req EXCEPT ![r] = Credited(req[r], tx, amount)]
  /\ invoicePaid' = invoicePaid \cup
       {a \in {req[r].action} : FixedAmount[a] = amount}
  /\ events' = events \cup
       {[request |-> r, tx |-> tx, amount |-> amount,
         queued |-> tx # FakeTx /\ req[r].action \in Notified]}
  /\ UNCHANGED <<clock, closed, createdBy, handler, expiring, mockExpiring,
                 chain>>

(***************************************************************************)
(* confirmPayment: one transaction under the locks writes the request, the *)
(* invoice, the payment event and, for a creator who takes notices, the    *)
(* Telegram outbox row.                                                    *)
(***************************************************************************)
Settle(r, tx, amount) ==
  /\ req' = [req EXCEPT ![r] = Credited(req[r], tx, amount)]
  /\ invoicePaid' = invoicePaid \cup
       {a \in Invoices \cap {req[r].action} : FixedAmount[a] = amount}
  /\ events' = events \cup
       {[request |-> r, tx |-> tx, amount |-> amount,
         queued |-> tx # FakeTx /\ req[r].action \in Notified]}
  /\ UNCHANGED <<clock, closed, createdBy, handler, expiring, mockExpiring,
                 chain>>

\* The checks made under the locks, against the current row, when a status
\* poll or the worker offers transaction t as a candidate for request r.
Confirmable(r, t) ==
  /\ r \in Rows
  /\ chain[t] # NULL
  /\ Fits(t, r)
  /\ Unlocked(Recipient(r))
  /\ req[r].status = "PENDING"
  /\ InWindow(t, r)
  /\ Attributable(t, r)
  /\ Unclaimed(t)

ConfirmPayment(r, t) ==
  /\ Confirmable(r, t)
  /\ Settle(r, t, chain[t].amount)

(***************************************************************************)
(* POST /api/admin/payment-requests/[id]/mock-confirm.                     *)
(***************************************************************************)
MockConfirm(r) ==
  /\ MockEnabled
  /\ r \in Rows
  /\ Unlocked(Recipient(r))
  /\ req[r].status = "PENDING"
  /\ req[r].amount # NULL
  /\ Settle(r, FakeTx, req[r].amount)

\* The route expires a request on its own, with an update that names the id
\* only.
DecideMockExpiry(r) ==
  /\ MockEnabled
  /\ r \in Rows \ mockExpiring
  /\ req[r].status = "PENDING"
  /\ req[r].expiresAt <= clock
  /\ mockExpiring' = mockExpiring \cup {r}
  /\ UNCHANGED <<clock, closed, invoicePaid, req, createdBy, events, handler,
                 expiring, chain>>

WriteMockExpiry(r) ==
  /\ r \in mockExpiring
  /\ mockExpiring' = mockExpiring \ {r}
  /\ req' = [req EXCEPT ![r].status = "EXPIRED"]
  /\ UNCHANGED <<clock, closed, invoicePaid, createdBy, events, handler,
                 expiring, chain>>

(***************************************************************************)
(* The environment.                                                        *)
(***************************************************************************)

\* A payer pays the amount of the request on its page, at any time.
Pay(t, r) ==
  /\ chain[t] = NULL
  /\ r \in Rows
  /\ \E amount \in Amounts :
       /\ req[r].amount \in {NULL, amount}
       /\ chain' = [chain EXCEPT ![t] = [for |-> r, amount |-> amount, at |-> clock]]
  /\ UNCHANGED <<clock, closed, invoicePaid, req, createdBy, events, handler,
                 expiring, mockExpiring>>

\* A link is disabled or deleted, expires, or its goal is reached: facts the
\* POST reads once, before its transaction.
CloseAction(a) ==
  /\ a \notin closed
  /\ closed' = closed \cup {a}
  /\ UNCHANGED <<clock, invoicePaid, req, createdBy, events, handler, expiring,
                 mockExpiring, chain>>

\* A disabled link is enabled again.  Why a link was closed is not kept: one
\* that was deleted may come back here, which only adds calls.
ReopenAction(a) ==
  /\ a \in closed
  /\ closed' = closed \ {a}
  /\ UNCHANGED <<clock, invoicePaid, req, createdBy, events, handler, expiring,
                 mockExpiring, chain>>

Tick ==
  /\ clock < MaxTime
  /\ clock' = clock + 1
  /\ UNCHANGED <<closed, invoicePaid, req, createdBy, events, handler,
                 expiring, mockExpiring, chain>>

Next ==
  \/ \E h \in Handlers :
       \/ \E c \in Clients, a \in Actions, amount \in Amounts \cup {NULL},
             plain \in BOOLEAN, memo \in Memos :
               StartCreate(h, c, a, amount, plain, memo)
       \/ BeginCreate(h)
       \/ CommitReuse(h)
       \/ \E r \in Requests, now \in 0 .. clock : CommitNew(h, r, now)
       \/ WriteAudit(h)
       \/ AbandonCreate(h)
  \/ \E r \in Requests :
       \/ DecideExpiry(r)
       \/ WriteExpiry(r)
       \/ MockConfirm(r)
       \/ DecideMockExpiry(r)
       \/ WriteMockExpiry(r)
       \/ \E t \in Txs : ConfirmPayment(r, t) \/ Pay(t, r)
  \/ \E a \in Actions : CloseAction(a) \/ ReopenAction(a)
  \/ Tick

Spec == Init /\ [][Next]_vars

(***************************************************************************)
(* Properties.                                                             *)
(***************************************************************************)

\* A request credited with a chain transaction was paid by it: the same
\* recipient, the amount, and a block time inside the window the row has now,
\* although other calls may have moved the window in the meantime.
CreditFits ==
  \A r \in Rows : req[r].tx \in Txs =>
    LET p == chain[req[r].tx] IN
      /\ p # NULL
      /\ RecipientOf[req[p.for].action] = RecipientOf[req[r].action]
      /\ req[r].amount = p.amount
      /\ req[r].createdAt <= p.at /\ p.at < req[r].expiresAt

\* The creator's ledger credits a chain transaction at most once.
CreditedOnce ==
  \A e, f \in events : e.tx = f.tx /\ e.tx \in Txs => e = f

\* A payer who pays inside the window of the request on the page never has the
\* payment credited to somebody else's request: the request it confirms is the
\* payer's own, or one the same client opened for the same link without a note
\* or a name, unless the payer's request had been credited otherwise before.
NoMisattribution ==
  \A r \in Rows : req[r].tx \in Txs =>
    LET t == req[r].tx  i == chain[t].for IN
      (req[i].createdAt <= chain[t].at /\ chain[t].at < req[i].expiresAt) =>
        \/ i = r
        \/ /\ req[i].by = req[r].by
           /\ req[i].action = req[r].action
           /\ req[i].plain /\ req[r].plain
        \/ req[i].tx \notin {NULL, t}

\* Whichever request a poll or the worker looks at, a payment has at most one
\* request that it can confirm.
EveryCheckPicksTheSame ==
  \A t \in Txs : \A r, s \in Rows :
    Confirmable(r, t) /\ Confirmable(s, t) => r = s

\* A call is handed a request of its own client.
HandedToItsClient ==
  \A h \in Handlers : handler[h] # NULL =>
    (handler[h].target # NULL => req[handler[h].target].by = handler[h].client)

\* No request is opened for an invoice that is already paid, even by a call
\* that read the action before the payment was confirmed.
PaidInvoiceStaysClosed ==
  [][\A r \in Requests : req[r] = NULL /\ req'[r] # NULL =>
       req'[r].action \notin invoicePaid]_vars

\* A confirmed or expired request keeps its status and its transaction.
SettledIsFinal ==
  [][\A r \in Rows : req[r].status # "PENDING" =>
       req'[r].status = req[r].status /\ req'[r].tx = req[r].tx]_vars
=============================================================================
