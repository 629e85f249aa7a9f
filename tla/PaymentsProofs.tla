--------------------------- MODULE PaymentsProofs ---------------------------
(***************************************************************************)
(* Safety of Payments for every set of requests, clients, actions and      *)
(* transactions, any lifetime and any clock.                               *)
(***************************************************************************)
EXTENDS Payments, TLAPS

\* What refers to a request refers to a row.
References ==
  /\ expiring \subseteq Rows
  /\ mockExpiring \subseteq Rows
  /\ \A h \in Handlers : handler[h] # NULL =>
       /\ handler[h].target # NULL => handler[h].target \in Rows
       /\ handler[h].reused => handler[h].target # NULL
       /\ handler[h].pc = "audit" => handler[h].target # NULL
  /\ \A t \in Txs : chain[t] # NULL => chain[t].for \in Rows

Typed == TypeOK /\ References

\* The rows, the calls and the payments have their types to begin with.
LEMMA TypedInit == Init => Typed
  BY PaymentsAssumption DEF Init, Typed, TypeOK, References

\* The rows after confirmPayment's transaction.
LEMMA SettleRows ==
  ASSUME Typed, NEW r \in Rows, NEW tx \in Txs \cup {FakeTx},
         NEW amount \in Amounts, Settle(r, tx, amount)
  PROVE  /\ Rows' = Rows
         /\ req' \in [Requests -> Request \cup {NULL}]
         /\ \A s \in Rows : s # r => req'[s] = req[s]
         /\ req'[r] = Credited(req[r], tx, amount)
<1> USE PaymentsAssumption
<1> DEFINE q == Credited(req[r], tx, amount)
<1>1. req[r] \in Request
  BY DEF Typed, TypeOK, Rows
<1>2. q \in Request
  BY <1>1 DEF Request, Credited
<1>3. req' = [req EXCEPT ![r] = q]
  BY DEF Settle
<1>4. r \in Requests
  BY DEF Rows
<1> HIDE DEF q
<1>5. q # NULL
  BY <1>2
<1>6. req' \in [Requests -> Request \cup {NULL}]
  BY <1>2, <1>3, <1>4 DEF Typed, TypeOK
<1>7. req'[r] = q /\ \A s \in Requests : s # r => req'[s] = req[s]
  BY <1>3, <1>4 DEF Typed, TypeOK
<1>8. Rows' = Rows
  BY <1>5, <1>7 DEF Rows
<1> QED
  BY <1>6, <1>7, <1>8 DEF q, Rows

\* confirmPayment's transaction writes rows of the right types.
LEMMA SettleTyped ==
  ASSUME Typed, NEW r \in Rows, NEW tx \in Txs \cup {FakeTx},
         NEW amount \in Amounts, Settle(r, tx, amount)
  PROVE  Typed'
<1>1. Rows' = Rows /\ req' \in [Requests -> Request \cup {NULL}]
  BY SettleRows
<1>2. invoicePaid' \subseteq Invoices
  BY DEF Settle, Typed, TypeOK
<1>4. events' \subseteq Event
  <2> DEFINE q == tx # FakeTx /\ req[r].action \in Notified
  <2>1. q \in BOOLEAN
    OBVIOUS
  <2>2. events' = events \cup
          {[request |-> r, tx |-> tx, amount |-> amount, queued |-> q]}
    BY DEF Settle
  <2> HIDE DEF q
  <2>3. r \in Requests
    BY DEF Rows
  <2>4. [request |-> r, tx |-> tx, amount |-> amount, queued |-> q] \in Event
    BY <2>1, <2>3 DEF Event
  <2>5. events \subseteq Event
    BY DEF Typed, TypeOK
  <2> QED
    BY <2>2, <2>4, <2>5
<1>3. TypeOK'
  BY <1>1, <1>2, <1>4 DEF Settle, Typed, TypeOK
<1> QED
  BY <1>1, <1>3 DEF Settle, Typed, References

\* Every step of the handlers, the worker and the payers keeps the types.
LEMMA TypedStep == Typed /\ [Next]_vars => Typed'
<1> SUFFICES ASSUME Typed, [Next]_vars PROVE Typed'
  OBVIOUS
<1> USE PaymentsAssumption DEF Typed
<1>1. ASSUME NEW h \in Handlers, NEW c \in Clients, NEW a \in Actions,
             NEW amount \in Amounts \cup {NULL}, NEW plain \in BOOLEAN,
             NEW memo \in Memos, StartCreate(h, c, a, amount, plain, memo)
      PROVE  Typed'
  <2>1. handler' \in [Handlers -> Call \cup {NULL}]
    BY <1>1 DEF StartCreate, TypeOK, Call
  <2>2. TypeOK'
    BY <1>1, <2>1 DEF StartCreate, TypeOK
  <2> QED
    BY <1>1, <2>2 DEF StartCreate, TypeOK, References, Rows
<1>2. ASSUME NEW h \in Handlers, BeginCreate(h) PROVE Typed'
  <2>1. handler[h] \in Call
    BY <1>2 DEF BeginCreate, TypeOK
  <2>2. CASE handler' = [handler EXCEPT ![h] = NULL]
    BY <1>2, <2>2 DEF BeginCreate, TypeOK, References, Rows
  <2>3. ASSUME NEW r \in Requests \cup {NULL}, r # NULL => r \in Rows,
               handler' = [handler EXCEPT
                 ![h] = [handler[h] EXCEPT !.pc = "inTx", !.at = clock,
                                           !.target = r, !.reused = (r # NULL)]]
        PROVE  Typed'
    <3> DEFINE p == [handler[h] EXCEPT !.pc = "inTx", !.at = clock,
                                       !.target = r, !.reused = (r # NULL)]
    <3>1. p \in Call /\ p.target = r /\ p.pc = "inTx" /\ (p.reused <=> r # NULL)
      BY <2>1 DEF Call, TypeOK
    <3>2. handler' = [handler EXCEPT ![h] = p]
      BY <2>3
    <3> HIDE DEF p
    <3>3. TypeOK'
      BY <1>2, <3>1, <3>2 DEF BeginCreate, TypeOK
    <3>4. handler'[h] = p /\ \A k \in Handlers : k # h => handler'[k] = handler[k]
      BY <3>2 DEF TypeOK
    <3> QED
      <4>1. Rows' = Rows /\ expiring' = expiring /\ mockExpiring' = mockExpiring
            /\ chain' = chain
        BY <1>2 DEF BeginCreate, Rows
      <4>2. \A k \in Handlers : handler'[k] # NULL =>
              /\ handler'[k].target # NULL => handler'[k].target \in Rows
              /\ handler'[k].reused => handler'[k].target # NULL
              /\ handler'[k].pc = "audit" => handler'[k].target # NULL
        BY <2>3, <3>1, <3>4 DEF References
      <4> QED
        BY <3>3, <4>1, <4>2 DEF References
  <2> QED
    BY <1>2, <2>2, <2>3 DEF BeginCreate, Reusable, Rows
<1>3. ASSUME NEW h \in Handlers, CommitReuse(h) PROVE Typed'
  <2>1. handler[h] \in Call
    BY <1>3 DEF CommitReuse, TypeOK
  <2>2. handler[h].target \in Rows
    BY <1>3 DEF CommitReuse, References
  <2>3. req' \in [Requests -> Request \cup {NULL}] /\ Rows' = Rows
    BY <1>3, <2>1, <2>2 DEF CommitReuse, TypeOK, Call, Rows, Request
  <2>4. handler' \in [Handlers -> Call \cup {NULL}]
    BY <1>3, <2>1 DEF CommitReuse, TypeOK, Call
  <2>5. TypeOK'
    BY <1>3, <2>3, <2>4 DEF CommitReuse, TypeOK
  <2> QED
    BY <1>3, <2>1, <2>2, <2>3, <2>5 DEF CommitReuse, TypeOK, References, Call
<1>4. ASSUME NEW h \in Handlers, NEW r \in Requests, NEW now \in 0 .. clock,
             CommitNew(h, r, now)
      PROVE  Typed'
  <2>1. handler[h] \in Call
    BY <1>4 DEF CommitNew, TypeOK
  <2>2. handler' \in [Handlers -> Call \cup {NULL}]
    BY <1>4, <2>1 DEF CommitNew, TypeOK, Call
  <2>3. req' \in [Requests -> Request \cup {NULL}]
    BY <1>4, <2>1 DEF CommitNew, TypeOK, Call, Request
  <2>4. Rows' = Rows \cup {r}
    <3>1. req'[r] # NULL
      <4> DEFINE q == [status |-> "PENDING", action |-> handler[h].action,
                       amount |-> handler[h].amount, plain |-> handler[h].plain,
                       memo |-> handler[h].memo, createdAt |-> now,
                       expiresAt |-> handler[h].expiresAt, tx |-> NULL,
                       by |-> handler[h].client]
      <4>1. q \in Request
        BY <2>1, <1>4 DEF Request, Call, TypeOK
      <4>2. req' = [req EXCEPT ![r] = q]
        BY <1>4 DEF CommitNew
      <4> HIDE DEF q
      <4> QED
        BY <4>1, <4>2 DEF TypeOK
    <3>2. \A s \in Requests : s # r => req'[s] = req[s]
      BY <1>4 DEF CommitNew, TypeOK
    <3> QED
      BY <3>1, <3>2 DEF Rows
  <2>5. TypeOK'
    BY <1>4, <2>2, <2>3 DEF CommitNew, TypeOK
  <2> QED
    BY <1>4, <2>1, <2>4, <2>5 DEF CommitNew, TypeOK, References, Call
<1>5. ASSUME NEW h \in Handlers, WriteAudit(h) PROVE Typed'
  <2>1. handler[h] \in Call
    BY <1>5 DEF WriteAudit, TypeOK
  <2>2. TypeOK'
    BY <1>5, <2>1 DEF WriteAudit, TypeOK, Call
  <2> QED
    BY <1>5, <2>2 DEF WriteAudit, TypeOK, References, Rows
<1>6. ASSUME NEW h \in Handlers, AbandonCreate(h) PROVE Typed'
  BY <1>6 DEF AbandonCreate, TypeOK, References, Rows
<1>7. ASSUME NEW r \in Requests, DecideExpiry(r) PROVE Typed'
  BY <1>7 DEF DecideExpiry, TypeOK, References, Rows
<1>8. ASSUME NEW r \in Requests, WriteExpiry(r) PROVE Typed'
  <2>1. req' \in [Requests -> Request \cup {NULL}] /\ Rows' = Rows
    BY <1>8 DEF WriteExpiry, TypeOK, References, Rows, Request
  <2> QED
    BY <1>8, <2>1 DEF WriteExpiry, TypeOK, References
<1>9. ASSUME NEW r \in Requests, MockConfirm(r) PROVE Typed'
  <2>1. r \in Rows /\ req[r].amount \in Amounts
    BY <1>9 DEF MockConfirm, TypeOK, Rows, Request
  <2> QED
    BY <1>9, <2>1, SettleTyped DEF MockConfirm
<1>10. ASSUME NEW r \in Requests, DecideMockExpiry(r) PROVE Typed'
  BY <1>10 DEF DecideMockExpiry, TypeOK, References, Rows
<1>11. ASSUME NEW r \in Requests, WriteMockExpiry(r) PROVE Typed'
  <2>1. req' \in [Requests -> Request \cup {NULL}] /\ Rows' = Rows
    BY <1>11 DEF WriteMockExpiry, TypeOK, References, Rows, Request
  <2> QED
    BY <1>11, <2>1 DEF WriteMockExpiry, TypeOK, References
<1>12. ASSUME NEW r \in Requests, NEW t \in Txs, ConfirmPayment(r, t) PROVE Typed'
  <2>1. r \in Rows /\ chain[t].amount \in Amounts
    BY <1>12 DEF ConfirmPayment, Confirmable, TypeOK, Payment
  <2> QED
    BY <1>12, <2>1, SettleTyped DEF ConfirmPayment
<1>13. ASSUME NEW r \in Requests, NEW t \in Txs, Pay(t, r) PROVE Typed'
  <2>1. chain' \in [Txs -> Payment \cup {NULL}]
    BY <1>13 DEF Pay, TypeOK, Payment
  <2> QED
    BY <1>13, <2>1 DEF Pay, TypeOK, References, Rows
<1>14. ASSUME NEW a \in Actions, CloseAction(a) \/ ReopenAction(a) PROVE Typed'
  BY <1>14 DEF CloseAction, ReopenAction, TypeOK, References, Rows
<1>15. CASE Tick
  BY <1>15 DEF Tick, TypeOK, References, Rows
<1>16. CASE UNCHANGED vars
  BY <1>16 DEF vars, TypeOK, References, Rows
<1> QED
  BY <1>1, <1>2, <1>3, <1>4, <1>5, <1>6, <1>7, <1>8, <1>9, <1>10, <1>11,
     <1>12, <1>13, <1>14, <1>15, <1>16 DEF Next

(***************************************************************************)
(* The inductive invariant.                                                *)
(***************************************************************************)

\* A row's transaction and status agree as far as the code keeps them so, and
\* its audit row, if there is one, names the client that asked for it.
RowsOK ==
  /\ \A r \in Rows :
       /\ req[r].createdAt <= clock
       /\ req[r].status = "PENDING" => req[r].tx = NULL
       /\ req[r].status = "CONFIRMED" => req[r].tx # NULL
       /\ createdBy[r] \in {NULL, req[r].by}
  /\ \A r \in Requests \ Rows : createdBy[r] = NULL

\* A payment was made before now, of the amount its request still asks for
\* unless that request was credited since.
PaymentsOK ==
  \A t \in Txs : chain[t] # NULL =>
    /\ chain[t].at <= clock
    /\ req[chain[t].for].tx = NULL => req[chain[t].for].amount \in {NULL, chain[t].amount}

TxOnce ==
  \A r, s \in Rows : req[r].tx = req[s].tx /\ req[r].tx \in Txs => r = s

EventsOK ==
  /\ \A e \in events : e.request \in Rows /\ req[e.request].tx = e.tx
  /\ CreditedOnce

\* What a call may rely on between taking the locks and its commit: nobody
\* else holds them, the request it will reuse is not credited and was open when
\* it read, and nothing was credited at the recipient since.
HoldsLocks(h) ==
  LET p == handler[h] IN
    /\ p.at <= clock
    /\ p.target # NULL =>
         /\ req[p.target].tx = NULL
         /\ req[p.target].action = p.action
         /\ p.at < req[p.target].expiresAt
    /\ \A r \in Rows :
         req[r].tx \in Txs /\ Recipient(r) = RecipientOf[p.action] =>
           chain[req[r].tx].at <= p.at
    /\ \A k \in Handlers \ {h} : handler[k] # NULL =>
         ~(handler[k].pc = "inTx" /\ RecipientOf[handler[k].action] = RecipientOf[p.action])

CallsOK ==
  \A h \in Handlers : handler[h] # NULL /\ handler[h].pc = "inTx" => HoldsLocks(h)

Ledger ==
  RowsOK /\ PaymentsOK /\ TxOnce /\ EventsOK /\ CreditFits /\ NoMisattribution

IInv == Typed /\ Ledger /\ HandedToItsClient /\ CallsOK

\* The invariant holds before the first request.
LEMMA InvInit == Init => IInv
<1> SUFFICES ASSUME Init PROVE IInv
  OBVIOUS
<1>1. Typed
  BY TypedInit
<1>2. Rows = {} /\ events = {}
  BY DEF Init, Rows
<1>3. Ledger
  BY <1>2, PaymentsAssumption DEF Init, Ledger, RowsOK, PaymentsOK, TxOnce, EventsOK, CreditFits,
     NoMisattribution, CreditedOnce
<1>4. HandedToItsClient /\ CallsOK
  BY DEF Init, HandedToItsClient, CallsOK
<1> QED
  BY <1>1, <1>3, <1>4 DEF IInv

\* Steps that leave the rows, the payments and the events alone.
LEMMA LedgerFrame ==
  ASSUME IInv, UNCHANGED <<req, chain, events, createdBy>>,
         clock' \in Nat, clock <= clock'
  PROVE  Ledger'
<1> USE DEF IInv, Ledger
<1>0. Rows' = Rows
  BY DEF Rows
<1>1. RowsOK'
  BY <1>0 DEF RowsOK, Typed, TypeOK, Rows, Request
<1>2. PaymentsOK'
  BY DEF PaymentsOK, Typed, TypeOK, Payment
<1>3. TxOnce' /\ EventsOK'
  BY <1>0 DEF TxOnce, EventsOK, CreditedOnce
<1>4. CreditFits' /\ NoMisattribution'
  BY <1>0 DEF CreditFits, NoMisattribution
<1> QED
  BY <1>1, <1>2, <1>3, <1>4

\* A step that changes nothing of the rows but their status and the end of the
\* window of requests not credited, and moves no credited payment into the
\* window of the request it was made for.
LEMMA CreditsKept ==
  ASSUME IInv, Rows' = Rows, chain' = chain,
         \A s \in Rows : /\ req'[s].tx = req[s].tx
                         /\ req'[s].action = req[s].action
                         /\ req'[s].amount = req[s].amount
                         /\ req'[s].plain = req[s].plain
                         /\ req'[s].by = req[s].by
                         /\ req'[s].createdAt = req[s].createdAt,
         \A s \in Rows : req[s].tx \in Txs => req'[s].expiresAt = req[s].expiresAt,
         \A s \in Rows : \A t \in Txs :
           req[s].tx = t /\ chain[t].at < req'[chain[t].for].expiresAt =>
             chain[t].at < req[chain[t].for].expiresAt
  PROVE  CreditFits' /\ NoMisattribution'
<1> USE DEF IInv, Ledger
<1>1. ASSUME NEW r \in Rows, NEW t \in Txs, req[r].tx = t
      PROVE  /\ chain[t] # NULL /\ chain[t].for \in Rows
             /\ RecipientOf[req[chain[t].for].action] = RecipientOf[req[r].action]
             /\ req[r].amount = chain[t].amount
             /\ req[r].createdAt <= chain[t].at /\ chain[t].at < req[r].expiresAt
  BY <1>1 DEF CreditFits, Typed, References
<1>2. CreditFits'
  <2> SUFFICES ASSUME NEW r \in Rows, NEW t \in Txs, req[r].tx = t
               PROVE  /\ chain[t] # NULL
                      /\ RecipientOf[req'[chain[t].for].action] = RecipientOf[req'[r].action]
                      /\ req'[r].amount = chain[t].amount
                      /\ req'[r].createdAt <= chain[t].at
                      /\ chain[t].at < req'[r].expiresAt
    BY DEF CreditFits
  <2> QED
    BY <1>1
<1>3. NoMisattribution'
  <2> SUFFICES ASSUME NEW r \in Rows, NEW t \in Txs, req'[r].tx = t,
                      req'[chain[t].for].createdAt <= chain[t].at,
                      chain[t].at < req'[chain[t].for].expiresAt
               PROVE  \/ chain[t].for = r
                      \/ /\ req'[chain[t].for].by = req'[r].by
                         /\ req'[chain[t].for].action = req'[r].action
                         /\ req'[chain[t].for].plain /\ req'[r].plain
                      \/ req'[chain[t].for].tx \notin {NULL, t}
    BY DEF NoMisattribution
  <2>1. req[r].tx = t /\ chain[t].for \in Rows
    BY <1>1
  <2>2. /\ req[chain[t].for].createdAt <= chain[t].at
        /\ chain[t].at < req[chain[t].for].expiresAt
    BY <2>1
  <2>3. \/ chain[t].for = r
        \/ /\ req[chain[t].for].by = req[r].by
           /\ req[chain[t].for].action = req[r].action
           /\ req[chain[t].for].plain /\ req[r].plain
        \/ req[chain[t].for].tx \notin {NULL, t}
    BY <2>1, <2>2 DEF NoMisattribution
  <2> QED
    BY <2>1, <2>3
<1> QED
  BY <1>2, <1>3

\* Steps that only expire rows.
LEMMA LedgerExpiry ==
  ASSUME IInv, NEW r \in Rows, UNCHANGED <<clock, chain, events, createdBy>>,
         req' = [req EXCEPT ![r].status = "EXPIRED"]
  PROVE  Ledger'
<1> USE DEF IInv, Ledger
<1>1. /\ Rows' = Rows
      /\ \A s \in Rows :
           /\ req'[s].tx = req[s].tx
           /\ req'[s].action = req[s].action
           /\ req'[s].amount = req[s].amount
           /\ req'[s].plain = req[s].plain
           /\ req'[s].by = req[s].by
           /\ req'[s].createdAt = req[s].createdAt
           /\ req'[s].expiresAt = req[s].expiresAt
           /\ req'[s].status # req[s].status => req'[s].status = "EXPIRED"
  BY PaymentsAssumption DEF Typed, TypeOK, Rows, Request
<1>2. \A t \in Txs : chain[t] # NULL => chain[t].for \in Rows
  BY DEF Typed, References
<1>3. RowsOK'
  BY <1>1 DEF RowsOK
<1>4. PaymentsOK'
  BY <1>1, <1>2 DEF PaymentsOK
<1>5. TxOnce' /\ EventsOK'
  BY <1>1 DEF TxOnce, EventsOK, CreditedOnce
<1>6. CreditFits' /\ NoMisattribution'
  <2>1. \A s \in Rows : \A t \in Txs :
           req[s].tx = t /\ chain[t].at < req'[chain[t].for].expiresAt =>
             chain[t].at < req[chain[t].for].expiresAt
    BY <1>1, <1>2 DEF CreditFits
  <2> QED
    BY <1>1, <2>1, CreditsKept
<1> QED
  BY <1>3, <1>4, <1>5, <1>6

(***************************************************************************)
(* The two steps the argument is about: a call that moves a window, and    *)
(* the confirmation itself.                                                *)
(***************************************************************************)

\* CommitReuse cannot bring a payment credited earlier into the window it
\* extends: whatever was credited at the recipient when the locks were taken
\* was in a block before the old end of the window.
LEMMA LedgerReuse ==
  ASSUME IInv, NEW h \in Handlers, CommitReuse(h)
  PROVE  Ledger'
<1> USE DEF IInv, Ledger
<1> DEFINE p == handler[h]
<1>1. p \in Call /\ p.pc = "inTx" /\ p.target \in Rows
  BY DEF CommitReuse, Typed, TypeOK, References
<1>2. HoldsLocks(h)
  BY <1>1 DEF CallsOK, CommitReuse
<1>3. /\ Rows' = Rows
      /\ \A s \in Rows :
           /\ req'[s].tx = req[s].tx
           /\ req'[s].status = req[s].status
           /\ req'[s].action = req[s].action
           /\ req'[s].amount = req[s].amount
           /\ req'[s].plain = req[s].plain
           /\ req'[s].by = req[s].by
           /\ req'[s].createdAt = req[s].createdAt
           /\ s # p.target => req'[s].expiresAt = req[s].expiresAt
  <2> DEFINE q == [req[p.target] EXCEPT !.expiresAt = p.expiresAt]
  <2>1. req[p.target] \in Request /\ p.target \in Requests
    BY <1>1 DEF Typed, TypeOK, Rows
  <2>2. req' = [req EXCEPT ![p.target] = q]
    BY DEF CommitReuse
  <2>3. /\ q \in Request
        /\ q.tx = req[p.target].tx /\ q.status = req[p.target].status
        /\ q.action = req[p.target].action /\ q.amount = req[p.target].amount
        /\ q.plain = req[p.target].plain /\ q.by = req[p.target].by
        /\ q.createdAt = req[p.target].createdAt
    BY <1>1, <2>1 DEF Request, Call
  <2> HIDE DEF q
  <2>4. req'[p.target] = q /\ \A s \in Requests : s # p.target => req'[s] = req[s]
    BY <2>1, <2>2 DEF Typed, TypeOK
  <2> QED
    BY <2>1, <2>3, <2>4, PaymentsAssumption DEF Rows
<1>4. UNCHANGED <<clock, chain, events, createdBy>>
  BY DEF CommitReuse
<1>5. \A t \in Txs : chain[t] # NULL => chain[t].for \in Rows
  BY DEF Typed, References
<1>6. RowsOK'
  BY <1>3, <1>4 DEF RowsOK
<1>7. PaymentsOK'
  BY <1>3, <1>4, <1>5 DEF PaymentsOK
<1>8. TxOnce' /\ EventsOK'
  BY <1>3, <1>4 DEF TxOnce, EventsOK, CreditedOnce
<1>9. /\ req[p.target].tx = NULL /\ req[p.target].action = p.action
      /\ p.at < req[p.target].expiresAt
      /\ \A r \in Rows :
           req[r].tx \in Txs /\ Recipient(r) = RecipientOf[p.action] =>
             chain[req[r].tx].at <= p.at
  <2>1. p.target # NULL
    BY <1>1, PaymentsAssumption DEF Rows
  <2> QED
    BY <1>2, <2>1 DEF HoldsLocks
<1> HIDE DEF p
<1>10. NULL \notin Txs
  BY PaymentsAssumption
<1>11. ASSUME NEW r \in Rows, NEW t \in Txs, req[r].tx = t,
              chain[t].at < req'[chain[t].for].expiresAt
       PROVE  chain[t].at < req[chain[t].for].expiresAt
  <2>1. chain[t] # NULL /\ chain[t].for \in Rows
    BY <1>5, <1>11 DEF CreditFits
  <2>2. CASE chain[t].for # p.target
    BY <1>3, <1>11, <2>1, <2>2
  <2>3. CASE chain[t].for = p.target
    <3>1. Recipient(r) = RecipientOf[p.action]
      BY <1>9, <1>11, <2>3 DEF CreditFits, Recipient
    <3>2. chain[t].at <= p.at /\ p.at < req[p.target].expiresAt
      BY <1>9, <1>11, <3>1
    <3>3. chain[t].at \in Nat /\ p.at \in Nat /\ req[p.target].expiresAt \in Nat
      BY <1>1, <2>1 DEF Call, Payment, Request, Typed, TypeOK, Rows
    <3> QED
      BY <2>3, <3>2, <3>3
  <2> QED
    BY <2>2, <2>3
<1>12. CreditFits' /\ NoMisattribution'
  BY <1>3, <1>4, <1>9, <1>10, <1>11, CreditsKept
<1> QED
  BY <1>6, <1>7, <1>8, <1>12

\* The request a payment was meant for is among those it could be meant for,
\* unless it was credited before; so the one that is picked is that request or
\* a repetition of it.
LEMMA PickedIsMeant ==
  ASSUME IInv, NEW r \in Requests, NEW t \in Txs, Confirmable(r, t),
         NEW i \in Rows, i = chain[t].for, InWindow(t, i)
  PROVE  \/ i = r
         \/ /\ req[i].by = req[r].by
            /\ req[i].action = req[r].action
            /\ req[i].plain /\ req[r].plain
         \/ req[i].tx \notin {NULL, t}
<1> USE DEF IInv, Ledger
<1> DEFINE S == Overlapping(t, Recipient(r))
<1>1. r \in Rows /\ chain[t] # NULL /\ Fits(t, r) /\ Attributable(t, r) /\ Unclaimed(t)
  BY DEF Confirmable
<1>2. CASE req[i].tx # NULL
  BY <1>1, <1>2 DEF Unclaimed
<1>3. CASE req[i].tx = NULL
  <2>1. i \in S
    <3>1. req[i].status \in {"PENDING", "EXPIRED"}
      BY <1>3 DEF RowsOK, Typed, TypeOK, Rows, Request
    <3>2. req[i].amount \in {NULL, chain[t].amount}
      BY <1>1, <1>3 DEF PaymentsOK
    <3>3. Recipient(i) = Recipient(r)
      BY <1>1 DEF Fits
    <3> QED
      BY <3>1, <3>2, <3>3 DEF Overlapping
  <2>2. CASE S = {r}
    BY <2>1, <2>2
  <2>3. CASE ChosenAmongRepeated(S, r)
    <3>1. r \in S /\ OneIntent(S)
      BY <2>3 DEF ChosenAmongRepeated
    <3>2. /\ req[i].action = req[r].action
          /\ req[i].plain /\ req[r].plain
          /\ createdBy[r] # NULL /\ createdBy[i] = createdBy[r]
      BY <2>1, <3>1 DEF OneIntent
    <3>3. createdBy[i] = req[i].by /\ createdBy[r] = req[r].by
      BY <1>1, <3>2 DEF RowsOK
    <3> QED
      BY <3>2, <3>3
  <2> QED
    BY <1>1, <2>2, <2>3 DEF Attributable
<1> QED
  BY <1>2, <1>3

\* confirmPayment credits a request it checked under the locks, or a mock one.
LEMMA LedgerSettle ==
  ASSUME IInv, NEW r \in Rows, NEW tx \in Txs \cup {FakeTx},
         NEW amount \in Amounts, Settle(r, tx, amount),
         req[r].status = "PENDING",
         tx \in Txs => Confirmable(r, tx) /\ amount = chain[tx].amount
  PROVE  Ledger'
<1> USE PaymentsAssumption DEF IInv, Ledger
<1>1. /\ Rows' = Rows
      /\ \A s \in Rows : s # r => req'[s] = req[s]
      /\ req'[r] = Credited(req[r], tx, amount)
  BY SettleRows
<1>2. /\ req'[r].status = "CONFIRMED" /\ req'[r].tx = tx
      /\ req'[r].amount = IF req[r].amount = NULL THEN amount ELSE req[r].amount
      /\ req'[r].action = req[r].action /\ req'[r].plain = req[r].plain
      /\ req'[r].by = req[r].by
      /\ req'[r].createdAt = req[r].createdAt /\ req'[r].expiresAt = req[r].expiresAt
  <2>1. req[r] \in Request
    BY DEF Typed, TypeOK, Rows
  <2> QED
    BY <1>1, <2>1 DEF Credited, Request
<1>3. UNCHANGED <<clock, chain, createdBy>>
  BY DEF Settle
<1>4. req[r].tx = NULL
  BY DEF RowsOK
<1>5. \A t \in Txs : chain[t] # NULL => chain[t].for \in Rows
  BY DEF Typed, References
<1>6. tx \in Txs => \A s \in Rows : req[s].tx # tx
  BY DEF Confirmable, Unclaimed
<1>7. RowsOK'
  BY <1>1, <1>2, <1>3 DEF RowsOK
<1>8. PaymentsOK'
  BY <1>1, <1>2, <1>3, <1>5 DEF PaymentsOK
<1>9. TxOnce'
  BY <1>1, <1>2, <1>6 DEF TxOnce
<1>10. EventsOK'
  <2> DEFINE e == [request |-> r, tx |-> tx, amount |-> amount,
                   queued |-> tx # FakeTx /\ req[r].action \in Notified]
  <2>1. events' = events \cup {e} /\ e.request = r /\ e.tx = tx
    BY DEF Settle
  <2> HIDE DEF e
  <2>2. \A f \in events : f.request \in Rows /\ req[f.request].tx = f.tx /\ f.tx # NULL
    BY DEF EventsOK, Typed, TypeOK, Event
  <2>3. \A f \in events' : f.request \in Rows /\ req'[f.request].tx = f.tx
    BY <1>1, <1>2, <1>4, <2>1, <2>2
  <2>4. \A f \in events : tx \in Txs => f.tx # tx
    BY <1>6, <2>2
  <2>5. CreditedOnce'
    BY <2>1, <2>4 DEF EventsOK, CreditedOnce
  <2> QED
    BY <1>1, <2>3, <2>5 DEF EventsOK
<1>11. \A s \in Rows : \A t \in Txs : req[s].tx = t =>
         /\ chain[t] # NULL /\ chain[t].for \in Rows
         /\ RecipientOf[req[chain[t].for].action] = RecipientOf[req[s].action]
         /\ req[s].amount = chain[t].amount
         /\ req[s].createdAt <= chain[t].at /\ chain[t].at < req[s].expiresAt
  BY <1>5 DEF CreditFits
<1>12. tx \in Txs =>
         /\ chain[tx] # NULL /\ chain[tx].for \in Rows
         /\ RecipientOf[req[chain[tx].for].action] = RecipientOf[req[r].action]
         /\ req'[r].amount = chain[tx].amount
         /\ req[r].createdAt <= chain[tx].at /\ chain[tx].at < req[r].expiresAt
  BY <1>2, <1>5 DEF Confirmable, Fits, Recipient, InWindow
<1>13. CreditFits'
  <2> SUFFICES ASSUME NEW s \in Rows, NEW t \in Txs, req'[s].tx = t
               PROVE  /\ chain[t] # NULL
                      /\ RecipientOf[req'[chain[t].for].action] = RecipientOf[req'[s].action]
                      /\ req'[s].amount = chain[t].amount
                      /\ req'[s].createdAt <= chain[t].at
                      /\ chain[t].at < req'[s].expiresAt
    BY <1>1, <1>3 DEF CreditFits
  <2>1. CASE s = r
    BY <1>1, <1>2, <1>12, <2>1
  <2>2. CASE s # r
    BY <1>1, <1>2, <1>11, <2>2
  <2> QED
    BY <2>1, <2>2
<1>14. NoMisattribution'
  <2> SUFFICES ASSUME NEW s \in Rows, NEW t \in Txs, req'[s].tx = t,
                      req'[chain[t].for].createdAt <= chain[t].at,
                      chain[t].at < req'[chain[t].for].expiresAt
               PROVE  \/ chain[t].for = s
                      \/ /\ req'[chain[t].for].by = req'[s].by
                         /\ req'[chain[t].for].action = req'[s].action
                         /\ req'[chain[t].for].plain /\ req'[s].plain
                      \/ req'[chain[t].for].tx \notin {NULL, t}
    BY <1>1, <1>3 DEF NoMisattribution
  <2>1. CASE s = r
    <3>1. tx = t /\ chain[t].for \in Rows
      BY <1>2, <1>12, <2>1
    <3>2. CASE chain[t].for = r
      BY <2>1, <3>2
    <3>3. CASE chain[t].for # r
      <4>1. InWindow(t, chain[t].for)
        BY <1>1, <3>1, <3>3 DEF InWindow
      <4>2. \/ /\ req[chain[t].for].by = req[r].by
               /\ req[chain[t].for].action = req[r].action
               /\ req[chain[t].for].plain /\ req[r].plain
            \/ req[chain[t].for].tx \notin {NULL, t}
        <5>1. r \in Requests /\ Confirmable(r, t)
          BY <3>1 DEF Rows
        <5> QED
          BY <3>1, <3>3, <4>1, <5>1, PickedIsMeant
      <4> QED
        BY <1>1, <1>2, <2>1, <3>1, <3>3, <4>2
    <3> QED
      BY <3>2, <3>3
  <2>2. CASE s # r
    <3>1. req[s].tx = t /\ chain[t].for \in Rows
      BY <1>1, <1>11, <2>2
    <3>2. /\ req[chain[t].for].createdAt <= chain[t].at
          /\ chain[t].at < req[chain[t].for].expiresAt
      BY <1>1, <1>2, <3>1
    <3>3. \/ chain[t].for = s
          \/ /\ req[chain[t].for].by = req[s].by
             /\ req[chain[t].for].action = req[s].action
             /\ req[chain[t].for].plain /\ req[s].plain
          \/ req[chain[t].for].tx \notin {NULL, t}
      BY <3>1, <3>2 DEF NoMisattribution
    <3> QED
      BY <1>1, <1>2, <1>4, <2>2, <3>1, <3>3
  <2> QED
    BY <2>1, <2>2
<1> QED
  BY <1>7, <1>8, <1>9, <1>10, <1>13, <1>14

\* A new row: no payment was made for it, none is credited to it.
LEMMA LedgerNew ==
  ASSUME IInv, NEW h \in Handlers, NEW r \in Requests, NEW now \in 0 .. clock,
         CommitNew(h, r, now)
  PROVE  Ledger'
<1> USE PaymentsAssumption DEF IInv, Ledger
<1> DEFINE q == [status |-> "PENDING", action |-> handler[h].action,
                 amount |-> handler[h].amount, plain |-> handler[h].plain,
                 memo |-> handler[h].memo, createdAt |-> now,
                 expiresAt |-> handler[h].expiresAt, tx |-> NULL,
                 by |-> handler[h].client]
<1>1. q \in Request /\ q.tx = NULL /\ q.status = "PENDING" /\ q.createdAt <= clock
  BY DEF CommitNew, Request, Call, Typed, TypeOK
<1>2. req' = [req EXCEPT ![r] = q]
  BY DEF CommitNew
<1> HIDE DEF q
<1>3. /\ req'[r] = q /\ r \notin Rows
      /\ \A s \in Requests : s # r => req'[s] = req[s]
  BY <1>2 DEF CommitNew, Typed, TypeOK, Rows
<1>4. Rows' = Rows \cup {r}
  BY <1>1, <1>3 DEF Rows
<1>5. \A s \in Rows : s # r /\ req'[s] = req[s]
  BY <1>3 DEF Rows
<1>6. UNCHANGED <<clock, chain, events, createdBy>>
  BY DEF CommitNew
<1>7. \A t \in Txs : chain[t] # NULL => chain[t].for \in Rows
  BY DEF Typed, References
<1>8. RowsOK'
  BY <1>1, <1>3, <1>4, <1>5, <1>6 DEF RowsOK
<1>9. PaymentsOK'
  BY <1>5, <1>6, <1>7 DEF PaymentsOK
<1>10. TxOnce' /\ EventsOK'
  BY <1>1, <1>3, <1>4, <1>5, <1>6 DEF TxOnce, EventsOK, CreditedOnce
<1>11. \A s \in Rows' : req'[s].tx \in Txs => s \in Rows
  BY <1>1, <1>3, <1>4
<1>12. \A s \in Rows : \A t \in Txs : req[s].tx = t =>
         chain[t] # NULL /\ chain[t].for \in Rows
  BY <1>7 DEF CreditFits
<1>13. CreditFits'
  BY <1>5, <1>6, <1>11, <1>12 DEF CreditFits
<1>14. NoMisattribution'
  BY <1>5, <1>6, <1>11, <1>12 DEF NoMisattribution
<1> QED
  BY <1>8, <1>9, <1>10, <1>13, <1>14

\* The audit row names the client of the request the call opened.
LEMMA LedgerAudit ==
  ASSUME IInv, NEW h \in Handlers, WriteAudit(h)
  PROVE  Ledger'
<1> USE PaymentsAssumption DEF IInv, Ledger
<1>1. /\ handler[h].target \in Rows
      /\ req[handler[h].target].by = handler[h].client
  BY DEF WriteAudit, Typed, References, HandedToItsClient
<1>2. Rows' = Rows /\ UNCHANGED <<clock, req, chain, events>>
  BY DEF WriteAudit, Rows
<1>3. \A s \in Requests :
        \/ createdBy'[s] = createdBy[s]
        \/ s = handler[h].target /\ createdBy'[s] = handler[h].client
  <2>1. CASE createdBy' = createdBy
    BY <2>1
  <2>2. CASE createdBy' = [createdBy EXCEPT ![handler[h].target] = handler[h].client]
    BY <1>1, <2>2 DEF Typed, TypeOK
  <2> QED
    BY <2>1, <2>2 DEF WriteAudit
<1>4. RowsOK'
  BY <1>1, <1>2, <1>3 DEF RowsOK, Rows
<1>5. PaymentsOK' /\ TxOnce' /\ EventsOK'
  BY <1>2 DEF PaymentsOK, TxOnce, EventsOK, CreditedOnce
<1>6. CreditFits' /\ NoMisattribution'
  BY <1>2 DEF CreditFits, NoMisattribution
<1> QED
  BY <1>4, <1>5, <1>6

\* A new payment is credited to nothing yet.
LEMMA LedgerPay ==
  ASSUME IInv, NEW t \in Txs, NEW r \in Requests, Pay(t, r)
  PROVE  Ledger'
<1> USE PaymentsAssumption DEF IInv, Ledger
<1>1. PICK amount \in Amounts :
        /\ req[r].amount \in {NULL, amount}
        /\ chain' = [chain EXCEPT ![t] = [for |-> r, amount |-> amount, at |-> clock]]
  BY DEF Pay
<1>2. /\ Rows' = Rows /\ r \in Rows /\ chain[t] = NULL
      /\ UNCHANGED <<clock, req, events, createdBy>>
  BY DEF Pay, Rows
<1>3. /\ chain'[t] = [for |-> r, amount |-> amount, at |-> clock]
      /\ \A u \in Txs : u # t => chain'[u] = chain[u]
  BY <1>1 DEF Typed, TypeOK
<1>4. RowsOK' /\ TxOnce' /\ EventsOK'
  BY <1>2 DEF RowsOK, TxOnce, EventsOK, CreditedOnce
<1>5. PaymentsOK'
  BY <1>1, <1>2, <1>3 DEF PaymentsOK, Typed, TypeOK
<1>6. \A s \in Rows : req[s].tx \in Txs => req[s].tx # t
  BY <1>2 DEF CreditFits
<1>7. CreditFits'
  BY <1>2, <1>3, <1>6 DEF CreditFits
<1>8. NoMisattribution'
  BY <1>2, <1>3, <1>6 DEF NoMisattribution
<1> QED
  BY <1>4, <1>5, <1>7, <1>8

(***************************************************************************)
(* The calls in progress.                                                  *)
(***************************************************************************)

\* A call keeps what it relies on when no other call takes its locks and its
\* target and the credits at its recipient stay as they are.
LEMMA HoldsKept ==
  ASSUME IInv, NEW h \in Handlers, handler[h] # NULL, handler[h].pc = "inTx",
         handler'[h] = handler[h], clock' \in Nat, clock <= clock',
         handler[h].target # NULL =>
           /\ req'[handler[h].target].tx = req[handler[h].target].tx
           /\ req'[handler[h].target].action = req[handler[h].target].action
           /\ req'[handler[h].target].expiresAt = req[handler[h].target].expiresAt,
         \A r \in Rows' :
           (/\ req'[r].tx \in Txs
            /\ RecipientOf[req'[r].action] = RecipientOf[handler[h].action]) =>
             /\ r \in Rows /\ req[r].tx = req'[r].tx /\ req[r].action = req'[r].action
             /\ chain'[req[r].tx] = chain[req[r].tx],
         \A k \in Handlers \ {h} : handler'[k] # NULL /\ handler'[k].pc = "inTx" =>
           RecipientOf[handler'[k].action] # RecipientOf[handler[h].action]
  PROVE  HoldsLocks(h)'
<1> DEFINE p == handler[h]
<1>1. HoldsLocks(h)
  BY DEF IInv, CallsOK
<1>2. p.at \in Nat /\ clock \in Nat
  BY DEF IInv, Typed, TypeOK, Call
<1>3. p.at <= clock'
  BY <1>1, <1>2 DEF HoldsLocks
<1>4. p.target # NULL => /\ req'[p.target].tx = NULL
                         /\ req'[p.target].action = p.action
                         /\ p.at < req'[p.target].expiresAt
  BY <1>1 DEF HoldsLocks
<1>5. \A r \in Rows' :
        req'[r].tx \in Txs /\ RecipientOf[req'[r].action] = RecipientOf[p.action] =>
          chain'[req'[r].tx].at <= p.at
  BY <1>1 DEF HoldsLocks, Recipient
<1> QED
  BY <1>3, <1>4, <1>5 DEF HoldsLocks, Recipient

\* Steps that change neither the calls nor what the calls rely on.
LEMMA CallsFrame ==
  ASSUME IInv, handler' = handler, clock' \in Nat, clock <= clock', Rows' = Rows,
         \A r \in Rows : /\ req'[r].tx = req[r].tx
                         /\ req'[r].action = req[r].action
                         /\ req'[r].by = req[r].by
                         /\ req'[r].expiresAt = req[r].expiresAt,
         \A r \in Rows : req[r].tx \in Txs => chain'[req[r].tx] = chain[req[r].tx]
  PROVE  HandedToItsClient' /\ CallsOK'
<1>1. \A h \in Handlers : handler[h] # NULL /\ handler[h].target # NULL =>
        handler[h].target \in Rows
  BY DEF IInv, Typed, References
<1>2. HandedToItsClient'
  BY <1>1 DEF IInv, HandedToItsClient
<1>3. ASSUME NEW h \in Handlers, handler[h] # NULL, handler[h].pc = "inTx"
      PROVE  HoldsLocks(h)'
  <2>1. HoldsLocks(h)
    BY <1>3 DEF IInv, CallsOK
  <2>2. \A k \in Handlers \ {h} : handler'[k] # NULL /\ handler'[k].pc = "inTx" =>
           RecipientOf[handler'[k].action] # RecipientOf[handler[h].action]
    BY <2>1 DEF HoldsLocks
  <2>3. \A r \in Rows' :
           (/\ req'[r].tx \in Txs
            /\ RecipientOf[req'[r].action] = RecipientOf[handler[h].action]) =>
             /\ r \in Rows /\ req[r].tx = req'[r].tx /\ req[r].action = req'[r].action
             /\ chain'[req[r].tx] = chain[req[r].tx]
    OBVIOUS
  <2>4. handler[h].target # NULL =>
           /\ req'[handler[h].target].tx = req[handler[h].target].tx
           /\ req'[handler[h].target].action = req[handler[h].target].action
           /\ req'[handler[h].target].expiresAt = req[handler[h].target].expiresAt
    BY <1>1, <1>3
  <2>5. handler'[h] = handler[h]
    OBVIOUS
  <2> QED
    BY <1>3, <2>2, <2>3, <2>4, <2>5, HoldsKept
<1> QED
  BY <1>2, <1>3 DEF CallsOK

\* Steps of one call that take no lock, and leave the rows alone.
LEMMA CallsOwnStep ==
  ASSUME IInv, NEW h \in Handlers, UNCHANGED <<clock, req, chain>>,
         \A k \in Handlers \ {h} : handler'[k] = handler[k],
         handler'[h] # NULL => handler'[h].pc = "ready" /\ handler'[h].target = NULL
  PROVE  HandedToItsClient' /\ CallsOK'
<1>1. \A k \in Handlers : handler[k] # NULL /\ handler[k].target # NULL =>
        handler[k].target \in Rows
  BY DEF IInv, Typed, References
<1>2. Rows' = Rows /\ clock' \in Nat /\ clock <= clock'
  BY DEF Rows, IInv, Typed, TypeOK
<1>3. HandedToItsClient'
  BY DEF IInv, HandedToItsClient
<1>4. ASSUME NEW k \in Handlers, handler'[k] # NULL, handler'[k].pc = "inTx"
      PROVE  HoldsLocks(k)'
  <2>1. k # h /\ handler'[k] = handler[k]
    BY <1>4
  <2>2. HoldsLocks(k)
    BY <1>4, <2>1 DEF IInv, CallsOK
  <2>3. \A j \in Handlers \ {k} : handler'[j] # NULL /\ handler'[j].pc = "inTx" =>
           RecipientOf[handler'[j].action] # RecipientOf[handler[k].action]
    BY <2>2 DEF HoldsLocks
  <2>4. \A r \in Rows' :
           (/\ req'[r].tx \in Txs
            /\ RecipientOf[req'[r].action] = RecipientOf[handler[k].action]) =>
             /\ r \in Rows /\ req[r].tx = req'[r].tx /\ req[r].action = req'[r].action
             /\ chain'[req[r].tx] = chain[req[r].tx]
    BY <1>2
  <2>5. handler[k].target # NULL =>
           /\ req'[handler[k].target].tx = req[handler[k].target].tx
           /\ req'[handler[k].target].action = req[handler[k].target].action
           /\ req'[handler[k].target].expiresAt = req[handler[k].target].expiresAt
    OBVIOUS
  <2> QED
    BY <1>2, <1>4, <2>1, <2>3, <2>4, <2>5, HoldsKept
<1> QED
  BY <1>3, <1>4 DEF CallsOK

\* A call that takes the locks finds a request of its own client, or none.
LEMMA CallsBegin ==
  ASSUME IInv, NEW h \in Handlers, BeginCreate(h)
  PROVE  HandedToItsClient' /\ CallsOK'
<1> USE PaymentsAssumption
<1>1. UNCHANGED <<clock, req, chain, createdBy>> /\ Rows' = Rows
  BY DEF BeginCreate, Rows
<1>2. CASE handler' = [handler EXCEPT ![h] = NULL]
  BY <1>1, <1>2, CallsOwnStep DEF IInv, Typed, TypeOK
<1>3. ASSUME NEW r \in Requests \cup {NULL}, r # NULL => r \in Reusable(handler[h]),
             Unlocked(RecipientOf[handler[h].action]),
             handler' = [handler EXCEPT
               ![h] = [handler[h] EXCEPT !.pc = "inTx", !.at = clock,
                                         !.target = r, !.reused = (r # NULL)]]
      PROVE  HandedToItsClient' /\ CallsOK'
  <2> DEFINE p == [handler[h] EXCEPT !.pc = "inTx", !.at = clock,
                                     !.target = r, !.reused = (r # NULL)]
  <2>1. /\ p.target = r /\ p.pc = "inTx" /\ p.at = clock
        /\ p.action = handler[h].action /\ p.client = handler[h].client
    <3>1. handler[h] \in Call
      BY DEF BeginCreate, IInv, Typed, TypeOK
    <3> QED
      BY <3>1 DEF Call
  <2>2. handler' = [handler EXCEPT ![h] = p]
    BY <1>3
  <2> HIDE DEF p
  <2>3. handler'[h] = p /\ \A k \in Handlers \ {h} : handler'[k] = handler[k]
    BY <2>2 DEF IInv, Typed, TypeOK
  <2>4. r # NULL => /\ r \in Rows /\ req[r].status = "PENDING" /\ req[r].expiresAt > clock
                    /\ req[r].action = p.action /\ createdBy[r] = p.client
                    /\ createdBy[r] # NULL
    <3>1. handler[h].client \in Clients
      BY DEF BeginCreate, IInv, Typed, TypeOK, Call
    <3> QED
      BY <1>3, <2>1, <3>1 DEF Reusable
  <2>5. r # NULL => req[r].by = p.client /\ req[r].tx = NULL
    BY <2>4 DEF IInv, Ledger, RowsOK
  <2>6. HandedToItsClient'
    BY <1>1, <2>1, <2>3, <2>5 DEF IInv, HandedToItsClient
  <2>7. HoldsLocks(h)'
    <3>1. p.at <= clock' /\ clock \in Nat
      BY <1>1, <2>1 DEF IInv, Typed, TypeOK
    <3>2. p.target # NULL => /\ req[p.target].tx = NULL
                             /\ req[p.target].action = p.action
                             /\ p.at < req[p.target].expiresAt
      <4>1. r # NULL => req[r].expiresAt \in Nat
        BY <2>4 DEF IInv, Typed, TypeOK, Rows, Request
      <4> QED
        BY <2>1, <2>4, <2>5, <3>1, <4>1
    <3>3. \A s \in Rows : req[s].tx \in Txs => chain[req[s].tx].at <= p.at
      BY <2>1 DEF IInv, Ledger, CreditFits, PaymentsOK
    <3>4. \A k \in Handlers \ {h} : handler'[k] # NULL =>
            ~(handler'[k].pc = "inTx" /\ RecipientOf[handler'[k].action] = RecipientOf[p.action])
      BY <1>3, <2>1, <2>3 DEF Unlocked
    <3> QED
      BY <1>1, <2>3, <3>1, <3>2, <3>3, <3>4 DEF HoldsLocks, Recipient
  <2>8. ASSUME NEW k \in Handlers \ {h}, handler[k] # NULL, handler[k].pc = "inTx"
        PROVE  HoldsLocks(k)'
    <3>1. HoldsLocks(k)
      BY <2>8 DEF IInv, CallsOK
    <3>2. \A j \in Handlers \ {k} : handler'[j] # NULL /\ handler'[j].pc = "inTx" =>
          RecipientOf[handler'[j].action] # RecipientOf[handler[k].action]
      BY <1>3, <2>1, <2>3, <2>8, <3>1 DEF HoldsLocks, Unlocked
    <3>3. \A s \in Rows' :
          (/\ req'[s].tx \in Txs
           /\ RecipientOf[req'[s].action] = RecipientOf[handler[k].action]) =>
            /\ s \in Rows /\ req[s].tx = req'[s].tx /\ req[s].action = req'[s].action
            /\ chain'[req[s].tx] = chain[req[s].tx]
      BY <1>1
    <3>4. handler[k].target # NULL =>
          /\ req'[handler[k].target].tx = req[handler[k].target].tx
          /\ req'[handler[k].target].action = req[handler[k].target].action
          /\ req'[handler[k].target].expiresAt = req[handler[k].target].expiresAt
      BY <1>1
    <3>5. clock' \in Nat /\ clock <= clock'
      BY <1>1 DEF IInv, Typed, TypeOK
    <3> QED
      BY <2>3, <2>8, <3>2, <3>3, <3>4, <3>5, HoldsKept
  <2> QED
    BY <2>3, <2>6, <2>7, <2>8 DEF CallsOK
<1> QED
  BY <1>2, <1>3 DEF BeginCreate, Reusable, Rows

\* Committing the end of a window disturbs no other call.
LEMMA CallsReuse ==
  ASSUME IInv, NEW h \in Handlers, CommitReuse(h)
  PROVE  HandedToItsClient' /\ CallsOK'
<1> USE PaymentsAssumption
<1> DEFINE i == handler[h].target
           q == [req[i] EXCEPT !.expiresAt = handler[h].expiresAt]
<1>1. i \in Rows /\ i \in Requests /\ req[i] \in Request /\ handler[h] \in Call
      /\ handler[h].pc = "inTx" /\ i # NULL
  BY DEF CommitReuse, IInv, Typed, TypeOK, References, Rows
<1>2. q \in Request /\ q.tx = req[i].tx /\ q.action = req[i].action /\ q.by = req[i].by
  BY <1>1 DEF Request, Call
<1>3. req' = [req EXCEPT ![i] = q]
  BY DEF CommitReuse
<1> HIDE DEF q
<1>4. req'[i] = q /\ \A s \in Requests : s # i => req'[s] = req[s]
  BY <1>1, <1>3 DEF IInv, Typed, TypeOK
<1>5. Rows' = Rows
  BY <1>1, <1>2, <1>4 DEF Rows
<1>6. \A s \in Rows : /\ req'[s].tx = req[s].tx /\ req'[s].action = req[s].action
                      /\ req'[s].by = req[s].by
                      /\ s # i => req'[s].expiresAt = req[s].expiresAt
  BY <1>2, <1>4 DEF Rows
<1>7. /\ \A k \in Handlers \ {h} : handler'[k] = handler[k]
      /\ handler'[h] # NULL => /\ handler'[h].pc = "audit" /\ handler'[h].target = i
                              /\ handler'[h].client = handler[h].client
  BY <1>1 DEF CommitReuse, IInv, Typed, TypeOK, Call
<1>8. chain' = chain /\ clock' \in Nat /\ clock <= clock'
  BY DEF CommitReuse, IInv, Typed, TypeOK
<1>9. \A k \in Handlers : handler[k] # NULL /\ handler[k].target # NULL =>
        handler[k].target \in Rows
  BY DEF IInv, Typed, References
<1>10. handler[h] # NULL /\ HoldsLocks(h)
  BY <1>1 DEF CommitReuse, IInv, CallsOK
<1>11. HandedToItsClient'
  <2> SUFFICES ASSUME NEW k \in Handlers, handler'[k] # NULL, handler'[k].target # NULL
               PROVE  req'[handler'[k].target].by = handler'[k].client
    BY DEF HandedToItsClient
  <2>1. /\ handler[k] # NULL /\ handler'[k].target = handler[k].target
        /\ handler'[k].client = handler[k].client
    BY <1>7, <1>10
  <2> QED
    BY <1>6, <1>9, <2>1 DEF IInv, HandedToItsClient
<1>12. ASSUME NEW k \in Handlers, handler'[k] # NULL, handler'[k].pc = "inTx"
       PROVE  HoldsLocks(k)'
  <2>1. k # h /\ handler'[k] = handler[k] /\ handler[k] # NULL /\ handler[k].pc = "inTx"
    BY <1>7, <1>12
  <2>2. HoldsLocks(k)
    BY <2>1 DEF IInv, CallsOK
  <2>3. \A j \in Handlers \ {k} : handler'[j] # NULL /\ handler'[j].pc = "inTx" =>
          RecipientOf[handler'[j].action] # RecipientOf[handler[k].action]
    BY <1>7, <2>2 DEF HoldsLocks
  <2>4. handler[k].target # i
    BY <1>1, <1>10, <2>1, <2>2 DEF HoldsLocks
  <2>5. \A s \in Rows' :
          (/\ req'[s].tx \in Txs
           /\ RecipientOf[req'[s].action] = RecipientOf[handler[k].action]) =>
            /\ s \in Rows /\ req[s].tx = req'[s].tx /\ req[s].action = req'[s].action
            /\ chain'[req[s].tx] = chain[req[s].tx]
    BY <1>5, <1>6, <1>8
  <2>6. handler[k].target # NULL =>
          /\ req'[handler[k].target].tx = req[handler[k].target].tx
          /\ req'[handler[k].target].action = req[handler[k].target].action
          /\ req'[handler[k].target].expiresAt = req[handler[k].target].expiresAt
    BY <1>6, <1>9, <2>1, <2>4
  <2> QED
    BY <1>8, <2>1, <2>3, <2>5, <2>6, HoldsKept
<1> QED
  BY <1>11, <1>12 DEF CallsOK

\* Committing a new row disturbs no other call.
LEMMA CallsNew ==
  ASSUME IInv, NEW h \in Handlers, NEW r \in Requests, NEW now \in 0 .. clock,
         CommitNew(h, r, now)
  PROVE  HandedToItsClient' /\ CallsOK'
<1> USE PaymentsAssumption
<1> DEFINE q == [status |-> "PENDING", action |-> handler[h].action,
                 amount |-> handler[h].amount, plain |-> handler[h].plain,
                 memo |-> handler[h].memo, createdAt |-> now,
                 expiresAt |-> handler[h].expiresAt, tx |-> NULL,
                 by |-> handler[h].client]
<1>1. handler[h] \in Call /\ handler[h].pc = "inTx" /\ handler[h] # NULL
  BY DEF CommitNew, IInv, Typed, TypeOK
<1>2. q \in Request /\ q.tx = NULL /\ q.by = handler[h].client
  BY <1>1 DEF Request, Call, IInv, Typed, TypeOK
<1>3. req' = [req EXCEPT ![r] = q]
  BY DEF CommitNew
<1> HIDE DEF q
<1>4. /\ req'[r] = q /\ r \notin Rows
      /\ \A s \in Requests : s # r => req'[s] = req[s]
  BY <1>3 DEF CommitNew, IInv, Typed, TypeOK, Rows
<1>5. Rows' = Rows \cup {r}
  BY <1>2, <1>4 DEF Rows
<1>6. \A s \in Rows : s # r /\ req'[s] = req[s]
  BY <1>4 DEF Rows
<1>7. /\ \A k \in Handlers \ {h} : handler'[k] = handler[k]
      /\ handler'[h].pc = "audit" /\ handler'[h].target = r
      /\ handler'[h].client = handler[h].client
  BY <1>1 DEF CommitNew, IInv, Typed, TypeOK, Call
<1>8. chain' = chain /\ clock' \in Nat /\ clock <= clock'
  BY DEF CommitNew, IInv, Typed, TypeOK
<1>9. \A k \in Handlers : handler[k] # NULL /\ handler[k].target # NULL =>
        handler[k].target \in Rows
  BY DEF IInv, Typed, References
<1>10. HandedToItsClient'
  <2> SUFFICES ASSUME NEW k \in Handlers, handler'[k] # NULL, handler'[k].target # NULL
               PROVE  req'[handler'[k].target].by = handler'[k].client
    BY DEF HandedToItsClient
  <2>1. CASE k = h
    BY <1>2, <1>4, <1>7, <2>1
  <2>2. CASE k # h
    BY <1>6, <1>7, <1>9, <2>2 DEF IInv, HandedToItsClient
  <2> QED
    BY <2>1, <2>2
<1>11. ASSUME NEW k \in Handlers, handler'[k] # NULL, handler'[k].pc = "inTx"
       PROVE  HoldsLocks(k)'
  <2>1. k # h /\ handler'[k] = handler[k] /\ handler[k] # NULL /\ handler[k].pc = "inTx"
    BY <1>7, <1>11
  <2>2. HoldsLocks(k)
    BY <2>1 DEF IInv, CallsOK
  <2>3. \A j \in Handlers \ {k} : handler'[j] # NULL /\ handler'[j].pc = "inTx" =>
          RecipientOf[handler'[j].action] # RecipientOf[handler[k].action]
    BY <1>7, <2>2 DEF HoldsLocks
  <2>4. \A s \in Rows' :
          (/\ req'[s].tx \in Txs
           /\ RecipientOf[req'[s].action] = RecipientOf[handler[k].action]) =>
            /\ s \in Rows /\ req[s].tx = req'[s].tx /\ req[s].action = req'[s].action
            /\ chain'[req[s].tx] = chain[req[s].tx]
    BY <1>2, <1>4, <1>5, <1>6, <1>8
  <2>5. handler[k].target # NULL =>
          /\ req'[handler[k].target].tx = req[handler[k].target].tx
          /\ req'[handler[k].target].action = req[handler[k].target].action
          /\ req'[handler[k].target].expiresAt = req[handler[k].target].expiresAt
    BY <1>6, <1>9, <2>1
  <2> QED
    BY <1>8, <2>1, <2>3, <2>4, <2>5, HoldsKept
<1> QED
  BY <1>10, <1>11 DEF CallsOK

\* confirmPayment takes locks that no call it could disturb holds.
LEMMA CallsSettle ==
  ASSUME IInv, NEW r \in Rows, NEW tx \in Txs \cup {FakeTx},
         NEW amount \in Amounts, Settle(r, tx, amount), Unlocked(Recipient(r))
  PROVE  HandedToItsClient' /\ CallsOK'
<1>1. /\ Rows' = Rows
      /\ \A s \in Rows : s # r => req'[s] = req[s]
      /\ req'[r] = Credited(req[r], tx, amount)
  BY SettleRows DEF IInv
<1>2. req'[r].action = req[r].action /\ req'[r].by = req[r].by
  <2>1. req[r] \in Request
    BY DEF IInv, Typed, TypeOK, Rows
  <2> QED
    BY <1>1, <2>1 DEF Credited, Request
<1>3. handler' = handler /\ chain' = chain /\ clock' \in Nat /\ clock <= clock'
  BY DEF Settle, IInv, Typed, TypeOK
<1>4. \A k \in Handlers : handler[k] # NULL /\ handler[k].target # NULL =>
        handler[k].target \in Rows
  BY DEF IInv, Typed, References
<1>5. HandedToItsClient'
  <2> SUFFICES ASSUME NEW k \in Handlers, handler[k] # NULL, handler[k].target # NULL
               PROVE  req'[handler[k].target].by = handler[k].client
    BY <1>3 DEF HandedToItsClient
  <2> QED
    BY <1>1, <1>2, <1>4 DEF IInv, HandedToItsClient
<1>6. ASSUME NEW k \in Handlers, handler[k] # NULL, handler[k].pc = "inTx"
      PROVE  HoldsLocks(k)'
  <2>1. HoldsLocks(k)
    BY <1>6 DEF IInv, CallsOK
  <2>2. RecipientOf[handler[k].action] # RecipientOf[req[r].action]
    BY <1>6 DEF Unlocked, Recipient
  <2>3. \A j \in Handlers \ {k} : handler'[j] # NULL /\ handler'[j].pc = "inTx" =>
          RecipientOf[handler'[j].action] # RecipientOf[handler[k].action]
    BY <1>3, <2>1 DEF HoldsLocks
  <2>4. \A s \in Rows' :
          (/\ req'[s].tx \in Txs
           /\ RecipientOf[req'[s].action] = RecipientOf[handler[k].action]) =>
            /\ s \in Rows /\ req[s].tx = req'[s].tx /\ req[s].action = req'[s].action
            /\ chain'[req[s].tx] = chain[req[s].tx]
    BY <1>1, <1>2, <1>3, <2>2
  <2>5. handler[k].target # NULL =>
          /\ req'[handler[k].target].tx = req[handler[k].target].tx
          /\ req'[handler[k].target].action = req[handler[k].target].action
          /\ req'[handler[k].target].expiresAt = req[handler[k].target].expiresAt
    BY <1>1, <1>4, <1>6, <2>1, <2>2 DEF HoldsLocks
  <2> QED
    BY <1>3, <1>6, <2>3, <2>4, <2>5, HoldsKept
<1> QED
  BY <1>3, <1>5, <1>6 DEF CallsOK

(***************************************************************************)
(* Every step preserves the invariant.                                     *)
(***************************************************************************)

\* One case per action of Next.
LEMMA InvStep == IInv /\ [Next]_vars => IInv'
<1> SUFFICES ASSUME IInv, [Next]_vars PROVE Ledger' /\ HandedToItsClient' /\ CallsOK'
  BY TypedStep DEF IInv
<1>0. clock \in Nat /\ clock <= clock
  BY DEF IInv, Typed, TypeOK
<1>1. ASSUME NEW h \in Handlers, NEW c \in Clients, NEW a \in Actions,
             NEW amount \in Amounts \cup {NULL}, NEW plain \in BOOLEAN,
             NEW memo \in Memos, StartCreate(h, c, a, amount, plain, memo)
      PROVE  Ledger' /\ HandedToItsClient' /\ CallsOK'
  <2>1. UNCHANGED <<clock, req, chain, events, createdBy>>
    BY <1>1 DEF StartCreate
  <2>2. /\ \A k \in Handlers \ {h} : handler'[k] = handler[k]
        /\ handler'[h].pc = "ready" /\ handler'[h].target = NULL
    BY <1>1 DEF StartCreate, IInv, Typed, TypeOK
  <2> QED
    BY <1>0, <2>1, <2>2, LedgerFrame, CallsOwnStep
<1>2. ASSUME NEW h \in Handlers, BeginCreate(h)
      PROVE  Ledger' /\ HandedToItsClient' /\ CallsOK'
  <2>1. UNCHANGED <<clock, req, chain, events, createdBy>>
    BY <1>2 DEF BeginCreate
  <2> QED
    BY <1>0, <1>2, <2>1, LedgerFrame, CallsBegin
<1>3. ASSUME NEW h \in Handlers, CommitReuse(h)
      PROVE  Ledger' /\ HandedToItsClient' /\ CallsOK'
  BY <1>3, LedgerReuse, CallsReuse
<1>4. ASSUME NEW h \in Handlers, NEW r \in Requests, NEW now \in 0 .. clock,
             CommitNew(h, r, now)
      PROVE  Ledger' /\ HandedToItsClient' /\ CallsOK'
  BY <1>4, LedgerNew, CallsNew
<1>5. ASSUME NEW h \in Handlers, WriteAudit(h)
      PROVE  Ledger' /\ HandedToItsClient' /\ CallsOK'
  <2>1. UNCHANGED <<clock, req, chain>>
    BY <1>5 DEF WriteAudit
  <2>2. /\ \A k \in Handlers \ {h} : handler'[k] = handler[k]
        /\ handler'[h] = NULL
    BY <1>5 DEF WriteAudit, IInv, Typed, TypeOK
  <2> QED
    BY <1>5, <2>1, <2>2, LedgerAudit, CallsOwnStep
<1>6. ASSUME NEW h \in Handlers, AbandonCreate(h)
      PROVE  Ledger' /\ HandedToItsClient' /\ CallsOK'
  <2>1. UNCHANGED <<clock, req, chain, events, createdBy>>
    BY <1>6 DEF AbandonCreate
  <2>2. /\ \A k \in Handlers \ {h} : handler'[k] = handler[k]
        /\ handler'[h] = NULL
    BY <1>6 DEF AbandonCreate, IInv, Typed, TypeOK
  <2> QED
    BY <1>0, <2>1, <2>2, LedgerFrame, CallsOwnStep
<1>7. CASE UNCHANGED <<req, chain, events, createdBy, handler>> /\ clock' \in Nat /\ clock <= clock'
  <2>1. Rows' = Rows
    BY <1>7 DEF Rows
  <2> QED
    BY <1>7, <2>1, LedgerFrame, CallsFrame
<1>8. ASSUME NEW r \in Rows, UNCHANGED <<clock, chain, events, createdBy, handler>>,
             req' = [req EXCEPT ![r].status = "EXPIRED"]
      PROVE  Ledger' /\ HandedToItsClient' /\ CallsOK'
  <2>1. /\ Rows' = Rows
        /\ \A s \in Rows : /\ req'[s].tx = req[s].tx
                           /\ req'[s].action = req[s].action
                           /\ req'[s].by = req[s].by
                           /\ req'[s].expiresAt = req[s].expiresAt
    BY <1>8, PaymentsAssumption DEF IInv, Typed, TypeOK, Rows, Request
  <2> QED
    BY <1>0, <1>8, <2>1, LedgerExpiry, CallsFrame
<1>9. ASSUME NEW r \in Requests, WriteExpiry(r)
      PROVE  Ledger' /\ HandedToItsClient' /\ CallsOK'
  <2>1. r \in Rows /\ UNCHANGED <<clock, chain, events, createdBy, handler>>
    BY <1>9 DEF WriteExpiry, IInv, Typed, References
  <2> QED
    BY <1>0, <1>7, <1>8, <1>9, <2>1 DEF WriteExpiry
<1>10. ASSUME NEW r \in Requests, WriteMockExpiry(r)
       PROVE  Ledger' /\ HandedToItsClient' /\ CallsOK'
  <2>1. r \in Rows /\ UNCHANGED <<clock, chain, events, createdBy, handler>>
    BY <1>10 DEF WriteMockExpiry, IInv, Typed, References
  <2> QED
    BY <1>8, <1>10, <2>1 DEF WriteMockExpiry
<1>11. ASSUME NEW r \in Requests, MockConfirm(r)
       PROVE  Ledger' /\ HandedToItsClient' /\ CallsOK'
  <2>1. /\ r \in Rows /\ req[r].amount \in Amounts /\ Unlocked(Recipient(r))
        /\ req[r].status = "PENDING" /\ FakeTx \notin Txs
        /\ Settle(r, FakeTx, req[r].amount)
    BY <1>11, PaymentsAssumption DEF MockConfirm, IInv, Typed, TypeOK, Rows, Request
  <2> QED
    BY <2>1, LedgerSettle, CallsSettle
<1>12. ASSUME NEW r \in Requests, NEW t \in Txs, ConfirmPayment(r, t)
       PROVE  Ledger' /\ HandedToItsClient' /\ CallsOK'
  <2>1. /\ r \in Rows /\ chain[t].amount \in Amounts /\ Unlocked(Recipient(r))
        /\ req[r].status = "PENDING" /\ Confirmable(r, t)
        /\ Settle(r, t, chain[t].amount)
    BY <1>12 DEF ConfirmPayment, Confirmable, IInv, Typed, TypeOK, Payment
  <2> QED
    BY <2>1, LedgerSettle, CallsSettle
<1>13. ASSUME NEW r \in Requests, NEW t \in Txs, Pay(t, r)
       PROVE  Ledger' /\ HandedToItsClient' /\ CallsOK'
  <2>1. Rows' = Rows /\ UNCHANGED <<clock, req, handler>>
    BY <1>13 DEF Pay, Rows
  <2>2. \A s \in Rows : req[s].tx \in Txs => chain'[req[s].tx] = chain[req[s].tx]
    BY <1>13 DEF Pay, IInv, Ledger, CreditFits, Typed, TypeOK
  <2> QED
    BY <1>0, <1>13, <2>1, <2>2, LedgerPay, CallsFrame
<1>14. ASSUME NEW r \in Requests, DecideExpiry(r) \/ DecideMockExpiry(r)
       PROVE  Ledger' /\ HandedToItsClient' /\ CallsOK'
  BY <1>0, <1>7, <1>14 DEF DecideExpiry, DecideMockExpiry
<1>15. ASSUME NEW a \in Actions, CloseAction(a) \/ ReopenAction(a)
       PROVE  Ledger' /\ HandedToItsClient' /\ CallsOK'
  BY <1>0, <1>7, <1>15 DEF CloseAction, ReopenAction
<1>16. CASE Tick
  BY <1>0, <1>7, <1>16 DEF Tick
<1>17. CASE UNCHANGED vars
  BY <1>0, <1>7, <1>17 DEF vars
<1> QED
  BY <1>1, <1>2, <1>3, <1>4, <1>5, <1>6, <1>9, <1>10, <1>11, <1>12, <1>13,
     <1>14, <1>15, <1>16, <1>17 DEF Next

(***************************************************************************)
(* The theorems.                                                           *)
(***************************************************************************)

\* The inductive invariant holds in every reachable state.
THEOREM Invariance == Spec => []IInv
<1>1. Init => IInv
  BY InvInit
<1>2. IInv /\ [Next]_vars => IInv'
  BY InvStep
<1> QED
  BY <1>1, <1>2, PTL DEF Spec

\* The rows, the calls and the payments keep their types.
THEOREM TypeCorrect == Spec => []TypeOK
<1>1. IInv => TypeOK
  BY DEF IInv, Typed
<1> QED
  BY <1>1, Invariance, PTL

\* No payment made in its window is credited to somebody else's request.
THEOREM Attribution == Spec => []NoMisattribution
<1>1. IInv => NoMisattribution
  BY DEF IInv, Ledger
<1> QED
  BY <1>1, Invariance, PTL

\* A credit is a payment of the request's recipient, amount and window.
THEOREM CreditsAreSound == Spec => []CreditFits
<1>1. IInv => CreditFits
  BY DEF IInv, Ledger
<1> QED
  BY <1>1, Invariance, PTL

\* A chain transaction is in the creator's ledger once.
THEOREM LedgerOnce == Spec => []CreditedOnce
<1>1. IInv => CreditedOnce
  BY DEF IInv, Ledger, EventsOK
<1> QED
  BY <1>1, Invariance, PTL

\* A call is handed a request that its own client opened.
THEOREM OwnRequests == Spec => []HandedToItsClient
<1>1. IInv => HandedToItsClient
  BY DEF IInv
<1> QED
  BY <1>1, Invariance, PTL

\* A payment has at most one request it can confirm.
THEOREM OnePick == Spec => []EveryCheckPicksTheSame
<1>1. TypeOK => EveryCheckPicksTheSame
  <2> SUFFICES ASSUME TypeOK, NEW t \in Txs, NEW r \in Rows, NEW s \in Rows,
                      Confirmable(r, t), Confirmable(s, t)
               PROVE  r = s
    BY DEF EveryCheckPicksTheSame
  <2> DEFINE S == Overlapping(t, Recipient(r))
  <2>1. Recipient(s) = Recipient(r)
    BY DEF Confirmable, Fits
  <2>2. r \in S /\ s \in S
    BY <2>1 DEF Confirmable, Fits, Overlapping
  <2>3. CASE S = {r} \/ S = {s}
    BY <2>2, <2>3
  <2>4. CASE ChosenAmongRepeated(S, r) /\ ChosenAmongRepeated(S, s)
    <3>1. (s = r \/ Newer(r, s)) /\ (r = s \/ Newer(s, r))
      BY <2>2, <2>4 DEF ChosenAmongRepeated, Confirmable
    <3>2. r \in Nat /\ s \in Nat /\ req[r].createdAt \in Nat /\ req[s].createdAt \in Nat
      BY PaymentsAssumption DEF TypeOK, Rows, Request
    <3> QED
      BY <3>1, <3>2 DEF Newer
  <2> QED
    BY <2>1, <2>3, <2>4 DEF Confirmable, Attributable
<1> QED
  BY <1>1, TypeCorrect, PTL
(***************************************************************************)
(* What a step may never do.                                               *)
(***************************************************************************)

\* Between taking the locks and the commit no invoice a call is for gets paid:
\* whoever confirms the payment needs the lock of its recipient.
UnpaidInTx ==
  \A h \in Handlers : handler[h] # NULL /\ handler[h].pc = "inTx" =>
    handler[h].action \notin invoicePaid

\* The calls that are not in a transaction do not matter, and nobody confirms
\* a payment to the recipient of one that is.
LEMMA UnpaidSettle ==
  ASSUME Typed, UnpaidInTx, NEW r \in Rows, NEW tx, NEW amount,
         Unlocked(Recipient(r)), Settle(r, tx, amount)
  PROVE  UnpaidInTx'
<1>1. handler' = handler /\ invoicePaid' \subseteq invoicePaid \cup {req[r].action}
  BY DEF Settle
<1>2. \A h \in Handlers : handler[h] # NULL /\ handler[h].pc = "inTx" =>
        handler[h].action # req[r].action
  BY DEF Unlocked, Recipient
<1> QED
  BY <1>1, <1>2 DEF UnpaidInTx

\* A call enters its transaction only for an invoice that is not paid.
LEMMA UnpaidStep == Typed /\ UnpaidInTx /\ [Next]_vars => UnpaidInTx'
<1> SUFFICES ASSUME Typed, UnpaidInTx, [Next]_vars PROVE UnpaidInTx'
  OBVIOUS
<1> USE DEF Typed, TypeOK
<1>1. ASSUME invoicePaid' = invoicePaid, NEW h \in Handlers,
             \A k \in Handlers \ {h} : handler'[k] = handler[k],
             handler'[h] # NULL /\ handler'[h].pc = "inTx" =>
               handler'[h].action \notin invoicePaid
      PROVE  UnpaidInTx'
  BY <1>1 DEF UnpaidInTx
<1>2. ASSUME NEW h \in Handlers, NEW c \in Clients, NEW a \in Actions,
             NEW amount \in Amounts \cup {NULL}, NEW plain \in BOOLEAN,
             NEW memo \in Memos, StartCreate(h, c, a, amount, plain, memo)
      PROVE  UnpaidInTx'
  BY <1>1, <1>2 DEF StartCreate
<1>3. ASSUME NEW h \in Handlers, BeginCreate(h) PROVE UnpaidInTx'
  <2>1. handler[h] \in Call
    BY <1>3 DEF BeginCreate
  <2>2. ASSUME handler[h].action \notin invoicePaid, NEW r,
               handler' = [handler EXCEPT
                 ![h] = [handler[h] EXCEPT !.pc = "inTx", !.at = clock,
                                           !.target = r, !.reused = (r # NULL)]]
        PROVE  handler'[h].action \notin invoicePaid
    <3> DEFINE p == [handler[h] EXCEPT !.pc = "inTx", !.at = clock,
                                       !.target = r, !.reused = (r # NULL)]
    <3>1. p.action = handler[h].action
      BY <2>1 DEF Call
    <3> HIDE DEF p
    <3>2. handler' = [handler EXCEPT ![h] = p]
      BY <2>2 DEF p
    <3> QED
      BY <2>2, <3>1, <3>2
  <2>3. CASE handler' = [handler EXCEPT ![h] = NULL]
    BY <1>1, <1>3, <2>3 DEF BeginCreate
  <2>4. CASE handler[h].action \notin invoicePaid
    <3>1. handler'[h].action \notin invoicePaid
      BY <1>3, <2>2, <2>4 DEF BeginCreate
    <3> QED
      BY <1>1, <1>3, <3>1 DEF BeginCreate
  <2> QED
    BY <1>3, <2>3, <2>4 DEF BeginCreate
<1>4. ASSUME NEW h \in Handlers, CommitReuse(h) PROVE UnpaidInTx'
  <2>1. handler[h] \in Call
    BY <1>4 DEF CommitReuse
  <2> QED
    BY <1>1, <1>4, <2>1 DEF CommitReuse, Call
<1>5. ASSUME NEW h \in Handlers, NEW r \in Requests, NEW now \in 0 .. clock,
             CommitNew(h, r, now)
      PROVE  UnpaidInTx'
  <2>1. handler[h] \in Call
    BY <1>5 DEF CommitNew
  <2> QED
    BY <1>1, <1>5, <2>1 DEF CommitNew, Call
<1>6. ASSUME NEW h \in Handlers, WriteAudit(h) \/ AbandonCreate(h) PROVE UnpaidInTx'
  BY <1>1, <1>6 DEF WriteAudit, AbandonCreate
<1>7. ASSUME NEW r \in Requests, MockConfirm(r) PROVE UnpaidInTx'
  BY <1>7, UnpaidSettle DEF MockConfirm
<1>8. ASSUME NEW r \in Requests, NEW t \in Txs, ConfirmPayment(r, t) PROVE UnpaidInTx'
  BY <1>8, UnpaidSettle DEF ConfirmPayment, Confirmable
<1>9. CASE UNCHANGED <<handler, invoicePaid>>
  BY <1>9 DEF UnpaidInTx
<1> QED
  BY <1>2, <1>3, <1>4, <1>5, <1>6, <1>7, <1>8, <1>9
     DEF Next, vars, DecideExpiry, WriteExpiry, DecideMockExpiry, WriteMockExpiry,
         Pay, CloseAction, ReopenAction, Tick

\* The steps that write rows, each with what it leaves of them.
LEMMA RowWrites ==
  ASSUME Typed, [Next]_vars
  PROVE  \/ req' = req
         \/ \E h \in Handlers, r \in Requests, now \in 0 .. clock : CommitNew(h, r, now)
         \/ \E h \in Handlers : CommitReuse(h)
         \/ \E r \in Requests : WriteExpiry(r) \/ WriteMockExpiry(r)
         \/ \E r \in Rows, tx \in Txs \cup {FakeTx}, amount \in Amounts :
              req[r].status = "PENDING" /\ Settle(r, tx, amount)
<1>1. ASSUME NEW r \in Requests, MockConfirm(r)
      PROVE  \E s \in Rows, tx \in Txs \cup {FakeTx}, amount \in Amounts :
               req[s].status = "PENDING" /\ Settle(s, tx, amount)
  <2>1. r \in Rows /\ req[r].amount \in Amounts /\ FakeTx \in Txs \cup {FakeTx}
    BY <1>1 DEF MockConfirm, Typed, TypeOK, Rows, Request
  <2> QED
    BY <1>1, <2>1 DEF MockConfirm
<1>2. ASSUME NEW r \in Requests, NEW t \in Txs, ConfirmPayment(r, t)
      PROVE  \E s \in Rows, tx \in Txs \cup {FakeTx}, amount \in Amounts :
               req[s].status = "PENDING" /\ Settle(s, tx, amount)
  <2>1. r \in Rows /\ chain[t].amount \in Amounts /\ t \in Txs \cup {FakeTx}
    BY <1>2 DEF ConfirmPayment, Confirmable, Typed, TypeOK, Payment
  <2> QED
    BY <1>2, <2>1 DEF ConfirmPayment, Confirmable
<1>3. CASE \/ UNCHANGED vars \/ Tick
           \/ \E a \in Actions : CloseAction(a) \/ ReopenAction(a)
           \/ \E r \in Requests : \/ DecideExpiry(r) \/ DecideMockExpiry(r)
                                   \/ \E t \in Txs : Pay(t, r)
           \/ \E h \in Handlers :
                \/ BeginCreate(h) \/ WriteAudit(h) \/ AbandonCreate(h)
                \/ \E c \in Clients, a \in Actions, amount \in Amounts \cup {NULL},
                      plain \in BOOLEAN, memo \in Memos :
                        StartCreate(h, c, a, amount, plain, memo)
  BY <1>3 DEF vars, Tick, CloseAction, ReopenAction, DecideExpiry, DecideMockExpiry, Pay, BeginCreate,
              WriteAudit, AbandonCreate, StartCreate
<1> QED
  BY <1>1, <1>2, <1>3 DEF Next

\* A call that read an invoice as unpaid before its payment was confirmed opens
\* no request for it.
THEOREM InvoiceStaysClosed == Spec => PaidInvoiceStaysClosed
<1> DEFINE Opens ==
      \A r \in Requests : req[r] = NULL /\ req'[r] # NULL => req'[r].action \notin invoicePaid
<1>1. Init => UnpaidInTx
  BY DEF Init, UnpaidInTx
<1>2. Typed /\ UnpaidInTx /\ [Next]_vars => Opens
  <2> SUFFICES ASSUME Typed, UnpaidInTx, [Next]_vars,
                      NEW r \in Requests, req[r] = NULL, req'[r] # NULL
               PROVE  req'[r].action \notin invoicePaid
    OBVIOUS
  <2>1. CASE \E h \in Handlers, s \in Requests, now \in 0 .. clock : CommitNew(h, s, now)
    BY <2>1 DEF CommitNew, UnpaidInTx, Typed, TypeOK
  <2>2. ASSUME NEW h \in Handlers, CommitReuse(h) PROVE FALSE
    <3>1. handler[h].target \in Rows
      BY <2>2 DEF CommitReuse, Typed, References
    <3> QED
      BY <2>2, <3>1 DEF CommitReuse, Rows, Typed, TypeOK
  <2>3. ASSUME NEW s \in Requests, WriteExpiry(s) \/ WriteMockExpiry(s) PROVE FALSE
    <3>1. s \in Rows
      BY <2>3 DEF WriteExpiry, WriteMockExpiry, Typed, References
    <3> QED
      BY <2>3, <3>1 DEF WriteExpiry, WriteMockExpiry, Rows, Typed, TypeOK
  <2>4. ASSUME NEW s \in Rows, NEW tx \in Txs \cup {FakeTx}, NEW amount \in Amounts,
               Settle(s, tx, amount)
        PROVE  FALSE
    BY <2>4, SettleRows DEF Rows
  <2> QED
    BY <2>1, <2>2, <2>3, <2>4, RowWrites
<1> HIDE DEF Opens
<1>3. Spec => [](Typed /\ UnpaidInTx)
  BY <1>1, TypedInit, TypedStep, UnpaidStep, PTL DEF Spec
<1>4. Spec => [][Opens]_vars
  BY <1>2, <1>3, PTL DEF Spec
<1> QED
  BY <1>4 DEF Opens, PaidInvoiceStaysClosed

\* A request keeps the transaction it was credited with, whatever the mock
\* route, late polls and repeated calls do to the row.
CreditStays ==
  [][\A r \in Rows : req[r].tx # NULL => req'[r].tx = req[r].tx]_vars

\* What one step can do to a row that is not pending any more: the status of
\* one is overwritten only by the mock route's update.
LEMMA WritesOfSettled ==
  ASSUME IInv, [Next]_vars, NEW r \in Rows
  PROVE  /\ req[r].tx # NULL => req'[r].tx = req[r].tx
         /\ req[r].status # "PENDING" =>
              /\ req'[r].tx = req[r].tx
              /\ req'[r].status = req[r].status \/ \E s \in Requests : WriteMockExpiry(s)
<1> USE DEF IInv
<1>0. r \in Requests /\ req[r] # NULL /\ req[r] \in Request
  BY DEF Rows, Typed, TypeOK
<1>1. ASSUME NEW h \in Handlers, NEW s \in Requests, NEW now \in 0 .. clock,
             CommitNew(h, s, now)
      PROVE  req'[r] = req[r]
  BY <1>0, <1>1 DEF CommitNew, Typed, TypeOK
<1>2. ASSUME NEW h \in Handlers, CommitReuse(h)
      PROVE  req'[r].tx = req[r].tx /\ req'[r].status = req[r].status
  BY <1>0, <1>2 DEF CommitReuse, Typed, TypeOK, Request
<1>3. ASSUME NEW s \in Requests, WriteExpiry(s) \/ WriteMockExpiry(s)
      PROVE  /\ req'[r].tx = req[r].tx
             /\ WriteExpiry(s) /\ req[r].status # "PENDING" => req'[r].status = req[r].status
  BY <1>0, <1>3 DEF WriteExpiry, WriteMockExpiry, Typed, TypeOK, Request
<1>4. ASSUME NEW s \in Rows, NEW tx \in Txs \cup {FakeTx}, NEW amount \in Amounts,
             req[s].status = "PENDING", Settle(s, tx, amount)
      PROVE  /\ r # s => req'[r] = req[r]
             /\ r = s => req[r].tx = NULL
  BY <1>4, SettleRows DEF Ledger, RowsOK
<1> QED
  BY <1>0, <1>1, <1>2, <1>3, <1>4, RowWrites

\* A payment, once credited, stays with its request.
THEOREM CreditsStay == Spec => CreditStays
<1> DEFINE Keeps == \A r \in Rows : req[r].tx # NULL => req'[r].tx = req[r].tx
<1>1. IInv /\ [Next]_vars => Keeps
  BY WritesOfSettled
<1> HIDE DEF Keeps
<1>2. Spec => [][Keeps]_vars
  BY <1>1, Invariance, PTL DEF Spec
<1> QED
  BY <1>2 DEF Keeps, CreditStays

\* In production the mock-confirm route is off, and then nothing reopens or
\* expires a request that is confirmed, nor confirms one that has expired.
THEOREM SettledStays == ASSUME ~MockEnabled PROVE Spec => SettledIsFinal
<1> DEFINE Quiet == mockExpiring = {}
           Keeps == \A r \in Rows : req[r].status # "PENDING" =>
                      req'[r].status = req[r].status /\ req'[r].tx = req[r].tx
<1>1. Init => Quiet
  BY DEF Init
<1>2. Quiet /\ [Next]_vars => Quiet'
  BY DEF Next, vars, StartCreate, BeginCreate, CommitReuse, CommitNew, WriteAudit,
         AbandonCreate, DecideExpiry, WriteExpiry, MockConfirm, ConfirmPayment, Settle,
         DecideMockExpiry, WriteMockExpiry, Pay, CloseAction, ReopenAction, Tick
<1>3. IInv /\ Quiet /\ [Next]_vars => Keeps
  BY WritesOfSettled DEF WriteMockExpiry
<1> HIDE DEF Quiet, Keeps
<1>4. Spec => []Quiet
  BY <1>1, <1>2, PTL DEF Spec
<1>5. Spec => [][Keeps]_vars
  BY <1>3, <1>4, Invariance, PTL DEF Spec
<1> QED
  BY <1>5 DEF Keeps, SettledIsFinal

=============================================================================
