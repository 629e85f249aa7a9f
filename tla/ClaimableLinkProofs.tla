------------------------- MODULE ClaimableLinkProofs ------------------------
(***************************************************************************)
(* A claimable link goes through the life of LinkLifecycle, for any        *)
(* number of payments, users, workers and faults.                          *)
(***************************************************************************)
EXTENDS ClaimableLink, TLAPS

(***************************************************************************)
(* The inductive invariant, in terms of the row, the payments P seen on    *)
(* the chain and the outputs G that are spent or about to be.              *)
(***************************************************************************)

GoneOuts ==
  {o \in Outputs : \/ spentBy[o] # NULL
                   \/ \E u \in pending : u.out = o
                   \/ o \in dropped}

RowOK(r, P, G) ==
  /\ r.status \in Open =>
       /\ r.claimTx = NULL /\ r.refundTx = NULL
       /\ r.status = "awaiting_funding" <=> r.funding = NULL
       /\ r.funding # NULL => r.funding \in P /\ AmountOf[r.funding] = r.amount
  /\ r.status \in Closed =>
       /\ r.funding \in G
       /\ r.claimTx # NULL => r.claimTx.out = r.funding
       /\ r.refundTx # NULL => r.refundTx.out = r.funding

\* What a look at the chain may make of the row r.
Finding(r, status, out, P, G) ==
  \/ status = r.status /\ out = NULL
  \/ r.status = "awaiting_funding" /\ status = "funded" /\ out \in P /\ AmountOf[out] = r.amount
  \/ r.status \in {"funded", "refundable"} /\ status = "refundable" /\ out = NULL
  \/ r.status \in {"funded", "refundable"} /\ status = "spent_unknown" /\ out = NULL /\ r.funding \in G

Writing == {"write", "write_stats", "remove"}
Looking == Writing \cup {"resolve", "resolve_stats"}

\* A call knows the transaction it sends and the row it read; what it is about
\* to write fits the row it read, which is the row if nobody wrote since.
CallOK(c, r, l, P, G) ==
  /\ c.at \in {"submit", "mark", "send", "record"} => c.tx \in Txs
  /\ c.at \in {"send", "record"} => c.tx.kind = "refund"
  /\ c.at \in {"mark", "record"} => c.tx.out \in G
  /\ c.at \in Looking \cup {"return", "send", "record"} => c.snap \in Row
  /\ c.at = "adopt" => c.out \in P
  /\ l = NULL /\ c.at \in Looking =>
       /\ RowOK(c.snap, P, G)
       /\ c.fresh => c.snap = r
       /\ c.at \in Writing => Finding(c.snap, c.status, c.out, P, G)

CallsOK ==
  \A h \in Handlers : call[h] # NULL => CallOK(call[h], row, lost, paid, GoneOuts)

Recorded == Record # NULL => RowOK(Record, paid, GoneOuts)

IInv == TypeOK /\ Recorded /\ CallsOK

(***************************************************************************)
(* What every step does.                                                   *)
(***************************************************************************)

\* Payments stay and what is gone stays gone.
Grows == paid \subseteq paid' /\ GoneOuts \subseteq GoneOuts'

\* One call goes on as c, and the others go on or find another updatedAt.
Moves ==
  \E h \in Handlers, c \in Call \cup {NULL} :
    /\ c # NULL => CallOK(c, row', lost', paid', GoneOuts')
    /\ \/ UNCHANGED <<row, age>> /\ call' = [call EXCEPT ![h] = c]
       \/ WriteThen(h, row', c)

\* The row r becomes s, in terms of the abstract specification.
Turn(r, s) ==
  \/ s = r
  \/ r # NULL /\ s = NULL /\ r.status = "awaiting_funding" /\ r.claimTx = NULL /\ r.refundTx = NULL
  \/ /\ r # NULL /\ s # NULL
     /\ \/ /\ s.claimTx = r.claimTx /\ s.refundTx = r.refundTx
           /\ \/ s.status = r.status
              \/ r.status = "awaiting_funding" /\ s.status = "funded"
              \/ r.status = "funded" /\ s.status = "refundable"
              \/ r.status \in {"funded", "refundable"} /\ s.status = "spent_unknown"
        \/ r.status \in Open /\ s.status = "claimed" /\ s.claimTx \in ClaimTxs /\ s.refundTx = r.refundTx
        \/ r.status \in Open /\ s.status = "refunded" /\ s.refundTx \in RefundTxs /\ s.claimTx = r.claimTx

\* The row and its history.
Rewrites ==
  /\ row' \in Row \cup {NULL}
  /\ \/ lost' = lost
     \/ lost = NULL /\ row # NULL /\ lost' = row
  /\ lost' = NULL => Turn(row, row') /\ (row' # NULL => RowOK(row', paid', GoneOuts'))

\* A step of a call.
Steps == Grows /\ Moves /\ Rewrites

-----------------------------------------------------------------------------
(* Lemmas about the data. *)

LEMMA TxTypes ==
  /\ \A t \in Txs : t.out \in Outputs /\ t # NULL /\ t.kind \in {"claim", "refund"}
  /\ \A t \in Txs : t.kind = "claim" => t \in ClaimTxs
  /\ \A t \in Txs : t.kind = "refund" => t \in RefundTxs
  /\ \A o \in Outputs : RefundOf(o) \in RefundTxs /\ RefundOf(o).kind = "refund"
<1>1. \A t \in Txs : t # NULL
  BY NullAssumption
<1> QED
  BY <1>1 DEF Txs, ClaimTxs, RefundTxs, RefundOf

\* A row stays right as the chain goes on.
LEMMA RowStays ==
  ASSUME NEW r, NEW P, NEW G, NEW P2, NEW G2, P \subseteq P2, G \subseteq G2, RowOK(r, P, G)
  PROVE  RowOK(r, P2, G2)
  BY DEF RowOK

\* So does a finding.
LEMMA FindingStays ==
  ASSUME NEW r, NEW x, NEW o, NEW P, NEW G, NEW P2, NEW G2,
         P \subseteq P2, G \subseteq G2, Finding(r, x, o, P, G)
  PROVE  Finding(r, x, o, P2, G2)
  BY DEF Finding

\* A call that does not move keeps what it knows.
LEMMA CallStays ==
  ASSUME NEW c \in Call, NEW d \in Call, NEW r, NEW s, NEW l, NEW m,
         NEW P, NEW G, NEW P2, NEW G2, P \subseteq P2, G \subseteq G2,
         m = NULL => l = NULL,
         CallOK(c, r, l, P, G),
         (d = c /\ s = r) \/ d = [c EXCEPT !.fresh = FALSE]
  PROVE  CallOK(d, s, m, P2, G2)
<1>1. d.at = c.at /\ d.tx = c.tx /\ d.snap = c.snap /\ d.out = c.out /\ d.status = c.status
  BY DEF Call
<1>2. d.fresh => c.fresh /\ s = r
  BY DEF Call
<1>3. l = NULL /\ c.at \in Looking => RowOK(c.snap, P2, G2)
  BY RowStays DEF CallOK
<1>4. l = NULL /\ c.at \in Writing => Finding(c.snap, c.status, c.out, P2, G2)
  BY FindingStays DEF CallOK, Looking
<1> QED
  BY <1>1, <1>2, <1>3, <1>4 DEF CallOK, Looking

\* What a resolution finds fits the row.
LEMMA ResolvedFits ==
  ASSUME TypeOK, NEW r \in Row, RowOK(r, paid, GoneOuts), NEW x \in Resolved(r)
  PROVE  /\ x.status \in Open \cup Closed
         /\ x.out \in Outputs \cup {NULL}
         /\ Finding(r, x.status, x.out, paid, GoneOuts)
<1>1. r.status \in Open \cup Closed /\ r.funding \in Outputs \cup {NULL}
  BY DEF Row
<1>2. CASE r.status = "awaiting_funding" /\ r.funding = NULL
  BY <1>2 DEF Resolved, Finding, TypeOK, Open
<1>3. CASE ~(r.status = "awaiting_funding" /\ r.funding = NULL)
  <2>1. r.status \notin Closed /\ r.funding # NULL
    BY <1>3 DEF Resolved
  <2>2. r.status \in {"funded", "refundable"} /\ r.claimTx = NULL /\ r.refundTx = NULL
    BY <1>1, <2>1 DEF RowOK, Open
  <2>3. \/ x = [status |-> "spent_unknown", out |-> NULL] /\ spentBy[r.funding] # NULL
        \/ x = [status |-> "refundable", out |-> NULL]
    BY <1>3, <2>1, <2>2 DEF Resolved
  <2>4. spentBy[r.funding] # NULL => r.funding \in GoneOuts
    BY <1>1, <2>1 DEF GoneOuts
  <2> QED
    BY <2>2, <2>3, <2>4 DEF Finding, Open, Closed
<1> QED
  BY <1>2, <1>3

\* Writing it down keeps the row right and is a step of its life.
LEMMA FindingWritten ==
  ASSUME NEW P, NEW G, P \subseteq Outputs, NEW r \in Row, RowOK(r, P, G), NEW c \in Call,
         Finding(r, c.status, c.out, P, G)
  PROVE  /\ Updated(r, c) \in Row
         /\ RowOK(Updated(r, c), P, G)
         /\ Turn(r, Updated(r, c))
         /\ RowOK([Updated(r, c) EXCEPT !.deleted = TRUE], P, G)
         /\ Turn(r, [Updated(r, c) EXCEPT !.deleted = TRUE])
         /\ [Updated(r, c) EXCEPT !.deleted = TRUE] \in Row
<1> DEFINE s == Updated(r, c)
           d == [s EXCEPT !.deleted = TRUE]
<1>0. NULL \notin Row /\ NULL \notin Outputs
  BY NullAssumption, LinkAssumption
<1>1. c.status \in Open \cup Closed /\ c.out \in Outputs \cup {NULL}
  BY DEF Call
<1>2. s \in Row /\ s.status = c.status /\ s.claimTx = r.claimTx /\ s.refundTx = r.refundTx
      /\ s.amount = r.amount /\ s.funding = (IF c.out = NULL THEN r.funding ELSE c.out)
  BY <1>1 DEF Updated, Row
<1>3. d \in Row /\ d.status = s.status /\ d.claimTx = s.claimTx /\ d.refundTx = s.refundTx
      /\ d.amount = s.amount /\ d.funding = s.funding
  BY <1>2 DEF Row
<1>4. RowOK(s, P, G)
  BY <1>0, <1>1, <1>2 DEF RowOK, Finding, Open, Closed
<1>5. RowOK(d, P, G)
  BY <1>3, <1>4 DEF RowOK
<1>6. Turn(r, s)
  <2>1. r # NULL /\ s # NULL
    BY <1>0, <1>2
  <2> QED
    BY <1>2, <2>1 DEF Turn, Finding
<1>7. Turn(r, d)
  <2>1. r # NULL /\ d # NULL
    BY <1>0, <1>3
  <2> QED
    BY <1>2, <1>3, <2>1 DEF Turn, Finding
<1> QED
  BY <1>2, <1>3, <1>4, <1>5, <1>6, <1>7

-----------------------------------------------------------------------------
(* The chain. *)

\* The steps that only add to what nodes hold.
LEMMA GrowsSimply ==
  ASSUME TypeOK, paid \subseteq paid', spentBy' = spentBy, pending \subseteq pending',
         dropped' = dropped
  PROVE  Grows
  BY DEF Grows, GoneOuts

LEMMA AcceptGrows ==
  ASSUME TypeOK, NEW t \in Txs, Accept(t)
  PROVE  Grows
<1>1. t.out \in Outputs /\ t # NULL
  BY TxTypes
<1>2. ASSUME NEW o \in GoneOuts
      PROVE  o \in GoneOuts'
  <2>1. CASE o = t.out
    BY <1>1, <2>1 DEF Accept, TypeOK, GoneOuts
  <2>2. CASE o # t.out
    BY <1>1, <1>2, <2>2 DEF Accept, TypeOK, GoneOuts
  <2> QED
    BY <2>1, <2>2
<1> QED
  BY <1>2 DEF Grows, Accept

LEMMA DropGrows ==
  ASSUME TypeOK, NEW t \in Txs, Drop(t)
  PROVE  Grows
<1>1. ASSUME NEW o \in GoneOuts
      PROVE  o \in GoneOuts'
  <2>1. CASE o = t.out
    BY <2>1, <1>1 DEF Drop, GoneOuts
  <2>2. CASE o # t.out
    BY <1>1, <2>2 DEF Drop, GoneOuts
  <2> QED
    BY <2>1, <2>2
<1> QED
  BY <1>1 DEF Grows, Drop

\* The steps of the chain and its users leave rows and calls alone.
LEMMA EnvironmentStep ==
  ASSUME TypeOK, Environment
  PROVE  Grows /\ TypeOK' /\ UNCHANGED <<row, call, lost>>
<1>1. CASE Tick
  <2>1. Grows
    BY <1>1, GrowsSimply DEF Tick, TypeOK
  <2> QED
    BY <1>1, <2>1 DEF Tick, TypeOK
<1>2. ASSUME NEW o \in Outputs, Pay(o)
      PROVE  Grows /\ TypeOK' /\ UNCHANGED <<row, call, lost>>
  <2>1. Grows
    BY <1>2, GrowsSimply DEF Pay, TypeOK
  <2> QED
    BY <1>2, <2>1 DEF Pay, TypeOK
<1>3. ASSUME NEW t \in Txs, SendOutside(t)
      PROVE  Grows /\ TypeOK' /\ UNCHANGED <<row, call, lost>>
  <2>1. Grows
    BY <1>3, GrowsSimply DEF SendOutside, TypeOK
  <2> QED
    BY <1>3, <2>1 DEF SendOutside, TypeOK
<1>4. ASSUME NEW t \in Txs, Accept(t)
      PROVE  Grows /\ TypeOK' /\ UNCHANGED <<row, call, lost>>
  <2>1. Grows
    BY <1>4, AcceptGrows
  <2> QED
    BY <1>4, <2>1 DEF Accept, TypeOK
<1>5. ASSUME NEW t \in Txs, Drop(t)
      PROVE  Grows /\ TypeOK' /\ UNCHANGED <<row, call, lost>>
  <2>1. Grows
    BY <1>5, DropGrows
  <2>2. faults' \in 0 .. MaxFaults
    BY <1>5, LinkAssumption DEF Drop, TypeOK
  <2>3. dropped' \subseteq Outputs
    BY <1>5, TxTypes DEF Drop, TypeOK
  <2> QED
    BY <1>5, <2>1, <2>2, <2>3 DEF Drop, TypeOK
<1>6. CASE Age
  <2>1. Grows
    BY <1>6, GrowsSimply DEF Age
  <2>2. age' \in 0 .. Recheck
    BY <1>6, LinkAssumption DEF Age, TypeOK
  <2> QED
    BY <1>6, <2>1, <2>2 DEF Age, TypeOK
<1> QED
  BY <1>1, <1>2, <1>3, <1>4, <1>5, <1>6 DEF Environment

-----------------------------------------------------------------------------
(* A step of a call keeps the invariant. *)

LEMMA MovesKeep ==
  ASSUME IInv, Grows, Moves, Rewrites
  PROVE  CallsOK' /\ call' \in [Handlers -> Call \cup {NULL}]
<1>1. PICK h \in Handlers, c \in Call \cup {NULL} :
        /\ c # NULL => CallOK(c, row', lost', paid', GoneOuts')
        /\ \/ UNCHANGED <<row, age>> /\ call' = [call EXCEPT ![h] = c]
           \/ WriteThen(h, row', c)
  BY DEF Moves
<1>2. lost' = NULL => lost = NULL
  BY NullAssumption DEF Rewrites, IInv, TypeOK
<1>3. call \in [Handlers -> Call \cup {NULL}] /\ NULL \notin Call
  BY NullAssumption DEF IInv, TypeOK
<1>4. call' \in [Handlers -> Call \cup {NULL}]
  <2>1. CASE call' = [call EXCEPT ![h] = c]
    BY <1>3, <2>1
  <2>2. CASE WriteThen(h, row', c)
    <3>1. ASSUME NEW g \in Handlers, call[g] # NULL
          PROVE  [call[g] EXCEPT !.fresh = FALSE] \in Call
      BY <1>3, <3>1 DEF Call
    <3> QED
      BY <1>3, <2>2, <3>1 DEF WriteThen
  <2> QED
    BY <1>1, <2>1, <2>2
<1>5. ASSUME NEW g \in Handlers, call'[g] # NULL
      PROVE  CallOK(call'[g], row', lost', paid', GoneOuts')
  <2>1. CASE g = h
    <3>1. call'[g] = c
      BY <1>1, <1>3, <2>1 DEF WriteThen
    <3> QED
      BY <1>1, <1>5, <3>1
  <2>2. CASE g # h
    <3>1. \/ call'[g] = call[g] /\ row' = row
          \/ call[g] # NULL /\ call'[g] = [call[g] EXCEPT !.fresh = FALSE]
      BY <1>1, <1>3, <1>5, <2>2 DEF WriteThen
    <3>2. call[g] \in Call /\ call'[g] \in Call
      BY <1>3, <1>4, <1>5, <3>1
    <3>3. CallOK(call[g], row, lost, paid, GoneOuts)
      BY <1>3, <3>2 DEF IInv, CallsOK
    <3> QED
      BY <1>2, <3>1, <3>2, <3>3, CallStays DEF Grows
  <2> QED
    BY <2>1, <2>2
<1> QED
  BY <1>4, <1>5 DEF CallsOK

LEMMA RewritesKeep ==
  ASSUME IInv, Grows, Rewrites
  PROVE  Recorded' /\ lost' \in Row \cup {NULL}
<1>1. lost' \in Row \cup {NULL}
  BY DEF Rewrites, IInv, TypeOK
<1>2. CASE lost' = NULL
  BY <1>2 DEF Rewrites, Recorded, Record
<1>3. CASE lost' # NULL
  <2>1. Record' = Record
    BY <1>3 DEF Rewrites, Record
  <2> QED
    BY <1>1, <2>1, RowStays DEF Grows, IInv, Recorded
<1> QED
  BY <1>1, <1>2, <1>3

LEMMA StepsKeep ==
  ASSUME IInv, Steps, UNCHANGED <<expired, paid, spentBy, dropped>>,
         pending' \subseteq Txs, faults' \in 0 .. MaxFaults
  PROVE  IInv'
<1>1. CallsOK' /\ call' \in [Handlers -> Call \cup {NULL}]
  BY MovesKeep DEF Steps
<1>2. Recorded' /\ lost' \in Row \cup {NULL}
  BY RewritesKeep DEF Steps
<1>3. age' \in 0 .. Recheck
  BY LinkAssumption DEF Steps, Moves, WriteThen, IInv, TypeOK
<1>4. TypeOK'
  BY <1>1, <1>2, <1>3 DEF TypeOK, IInv, Steps, Rewrites
<1> QED
  BY <1>1, <1>2, <1>4 DEF IInv

\* A step that leaves the row alone.
LEMMA Quiet ==
  ASSUME IInv, Grows, UNCHANGED <<row, lost>>
  PROVE  Rewrites
<1>1. lost' = NULL /\ row' # NULL => RowOK(row', paid', GoneOuts')
  BY RowStays DEF IInv, Recorded, Record, Grows
<1> QED
  BY <1>1 DEF Rewrites, Turn, IInv, TypeOK

(***************************************************************************)
(* The two forms of a step of a call: it leaves the row alone, or writes   *)
(* it.                                                                     *)
(***************************************************************************)

\* What a step of a call does besides.
Frame ==
  /\ UNCHANGED <<expired, paid, spentBy, dropped>>
  /\ pending \subseteq pending' /\ pending' \subseteq Txs
  /\ faults <= faults' /\ faults' \in 0 .. MaxFaults

LEMMA FrameGrows ==
  ASSUME TypeOK, Frame
  PROVE  Grows
  BY GrowsSimply, LinkAssumption DEF Frame

LEMMA StillStep ==
  ASSUME IInv, Frame, NEW h \in Handlers, NEW c \in Call \cup {NULL}, Set(h, c),
         UNCHANGED <<row, age, lost>>,
         c # NULL => CallOK(c, row', lost', paid', GoneOuts')
  PROVE  Steps
<1>1. Grows
  BY FrameGrows DEF IInv
<1>2. Rewrites
  BY <1>1, Quiet
<1>3. Moves
  BY DEF Moves, Set
<1> QED
  BY <1>1, <1>2, <1>3 DEF Steps

LEMMA WrittenStep ==
  ASSUME IInv, Frame, NEW h \in Handlers, NEW c \in Call \cup {NULL}, WriteThen(h, row', c),
         lost' = lost, row' \in Row \cup {NULL},
         lost = NULL => Turn(row, row') /\ (row' # NULL => RowOK(row', paid', GoneOuts')),
         c # NULL => CallOK(c, row', lost', paid', GoneOuts')
  PROVE  Steps
<1>1. Grows
  BY FrameGrows DEF IInv
<1>2. Rewrites
  BY DEF Rewrites
<1>3. Moves
  BY DEF Moves
<1> QED
  BY <1>1, <1>2, <1>3 DEF Steps

\* A step that ends the call.
LEMMA EndStep ==
  ASSUME IInv, Frame, NEW h \in Handlers, Set(h, NULL), UNCHANGED <<row, age, lost>>
  PROVE  Steps
  BY StillStep

\* A call that is under way.
LEMMA Underway ==
  ASSUME IInv, NEW h \in Handlers, NEW where, At(h, where)
  PROVE  call[h] \in Call /\ call[h].at = where /\ CallOK(call[h], row, lost, paid, GoneOuts)
  BY DEF IInv, TypeOK, CallsOK, At

LEMMA StartTyped ==
  /\ \A x \in {"submit", "mark", "touched", "return", "send", "record", "resolve",
               "resolve_stats", "write", "write_stats", "adopt", "remove", "cleanup"} :
       Start(x) \in Call /\ Start(x).at = x
  /\ \A x : Start(x).tx = NULL
  BY DEF Start, Call, Open

-----------------------------------------------------------------------------
(* Broadcasts. *)

\* What the relay took is gone.
LEMMA TakenGone ==
  ASSUME TypeOK, NEW t \in Txs, Taken(t), spentBy' = spentBy, dropped' = dropped
  PROVE  t.out \in GoneOuts' /\ pending \subseteq pending' /\ pending' \subseteq Txs
<1>1. t.out \in Outputs /\ t # NULL
  BY TxTypes
<1> QED
  BY <1>1 DEF Taken, TypeOK, GoneOuts

LEMMA BroadcastStep ==
  ASSUME IInv, NEW u \in Users, NEW t \in Txs, Broadcast(u, t)
  PROVE  Steps /\ Frame
<1> DEFINE c == [Start("submit") EXCEPT !.tx = t, !.marks = ~Mismatched(row, t)]
<1>1. (~Mismatched(row, t)) \in BOOLEAN
  BY DEF Mismatched
<1>2. c \in Call /\ c.at = "submit" /\ c.tx = t
  BY <1>1 DEF Start, Call, Open
<1>3. Frame
  BY DEF Broadcast, Frame, IInv, TypeOK
<1>4. CallOK(c, row', lost', paid', GoneOuts')
  BY <1>2 DEF CallOK, Looking, Writing
<1>5. u \in Handlers /\ Set(u, c) /\ UNCHANGED <<row, age, lost>>
  BY DEF Broadcast, Handlers
<1> HIDE DEF c
<1> QED
  BY <1>2, <1>3, <1>4, <1>5, StillStep

LEMMA SubmitStep ==
  ASSUME IInv, NEW u \in Users, Submit(u)
  PROVE  Steps /\ Frame
<1> DEFINE c == [call[u] EXCEPT !.at = "mark"]
<1>0. u \in Handlers
  BY DEF Handlers
<1>1. call[u] \in Call /\ call[u].tx \in Txs
  BY <1>0, Underway DEF Submit, CallOK
<1>2. c \in Call /\ c.at = "mark" /\ c.tx = call[u].tx
  BY <1>1 DEF Call
<1>3. call[u].tx.out \in GoneOuts' /\ pending \subseteq pending' /\ pending' \subseteq Txs
  BY <1>1, TakenGone DEF Submit, IInv
<1>4. Frame
  BY <1>3 DEF Submit, Frame, IInv, TypeOK
<1>5. CallOK(c, row', lost', paid', GoneOuts')
  BY <1>1, <1>2, <1>3 DEF CallOK, Looking, Writing
<1>6. CASE call[u].marks
  <2>1. Set(u, c) /\ UNCHANGED <<row, age, lost>>
    BY <1>6 DEF Submit
  <2> HIDE DEF c
  <2> QED
    BY <1>0, <1>2, <1>4, <1>5, <2>1, StillStep
<1>7. CASE ~call[u].marks
  BY <1>0, <1>4, <1>7, EndStep DEF Submit
<1> QED
  BY <1>6, <1>7

\* The link that is ended is right and has not ended before.
LEMMA EndedRight ==
  ASSUME IInv, Markable, NEW t \in Txs, t.out \in GoneOuts
  PROVE  /\ EndedBy(t) \in Row
         /\ Turn(row, EndedBy(t))
         /\ lost = NULL => RowOK(EndedBy(t), paid, GoneOuts)
<1>1. row \in Row /\ row.status \in Open /\ row # NULL
  BY DEF Markable, IInv, TypeOK, Row
<1>2. t.out \in Outputs /\ t # NULL /\ t.kind \in {"claim", "refund"}
  BY TxTypes
<1>3. lost = NULL => row.claimTx = NULL /\ row.refundTx = NULL
  BY <1>1 DEF IInv, Recorded, Record, RowOK
<1>4. CASE t.kind = "claim"
  <2>1. t \in ClaimTxs
    BY <1>4, TxTypes
  <2>2. EndedBy(t) = [row EXCEPT !.status = "claimed", !.claimTx = t, !.funding = t.out]
    BY <1>4 DEF EndedBy
  <2>3. EndedBy(t) \in Row
    BY <1>1, <1>2, <2>1, <2>2 DEF Row, Closed
  <2>4. /\ EndedBy(t).status = "claimed" /\ EndedBy(t).claimTx = t
        /\ EndedBy(t).refundTx = row.refundTx /\ EndedBy(t).funding = t.out
    BY <1>1, <2>2 DEF Row
  <2>5. EndedBy(t) # NULL
    BY <2>3, NullAssumption
  <2> QED
    BY <1>1, <1>3, <2>1, <2>3, <2>4, <2>5 DEF Turn, RowOK, Open, Closed
<1>5. CASE t.kind = "refund"
  <2>1. t \in RefundTxs
    BY <1>5, TxTypes
  <2>2. EndedBy(t) = [row EXCEPT !.status = "refunded", !.refundTx = t, !.funding = t.out]
    BY <1>5 DEF EndedBy
  <2>3. EndedBy(t) \in Row
    BY <1>1, <1>2, <2>1, <2>2 DEF Row, Closed
  <2>4. /\ EndedBy(t).status = "refunded" /\ EndedBy(t).refundTx = t
        /\ EndedBy(t).claimTx = row.claimTx /\ EndedBy(t).funding = t.out
    BY <1>1, <2>2 DEF Row
  <2>5. EndedBy(t) # NULL
    BY <2>3, NullAssumption
  <2> QED
    BY <1>1, <1>3, <2>1, <2>3, <2>4, <2>5 DEF Turn, RowOK, Open, Closed
<1> QED
  BY <1>2, <1>4, <1>5

LEMMA MarkBroadcastedStep ==
  ASSUME IInv, NEW u \in Users, MarkBroadcasted(u)
  PROVE  Steps /\ Frame
<1>0. u \in Handlers
  BY DEF Handlers
<1>1. call[u].tx \in Txs /\ call[u].tx.out \in GoneOuts
  BY <1>0, Underway DEF MarkBroadcasted, CallOK
<1>2. Frame
  BY DEF MarkBroadcasted, Frame, IInv, TypeOK
<1>3. GoneOuts' = GoneOuts /\ paid' = paid /\ lost' = lost
  BY DEF MarkBroadcasted, GoneOuts
<1>4. CASE Markable
  <2>1. WriteThen(u, row', NULL) /\ row' = EndedBy(call[u].tx)
    BY <1>4 DEF MarkBroadcasted, WriteThen
  <2>2. /\ EndedBy(call[u].tx) \in Row
        /\ Turn(row, EndedBy(call[u].tx))
        /\ lost = NULL => RowOK(EndedBy(call[u].tx), paid, GoneOuts)
    BY <1>1, <1>4, EndedRight
  <2>3. lost = NULL => Turn(row, row') /\ RowOK(row', paid', GoneOuts')
    BY <1>3, <2>1, <2>2
  <2> QED
    BY <1>0, <1>2, <1>3, <2>1, <2>2, <2>3, WrittenStep
<1>5. CASE ~Markable
  BY <1>0, <1>2, <1>5, EndStep DEF MarkBroadcasted
<1> QED
  BY <1>4, <1>5

-----------------------------------------------------------------------------
(* Returns and clean-up. *)

LEMMA FramePending ==
  ASSUME TypeOK, UNCHANGED <<expired, paid, spentBy, pending, faults, dropped>>
  PROVE  Frame /\ GoneOuts' = GoneOuts
  BY DEF Frame, TypeOK, GoneOuts

LEMMA ReturnNowStep ==
  ASSUME IInv, NEW u \in Users, ReturnNow(u)
  PROVE  Steps /\ Frame
<1> DEFINE c == [Start("return") EXCEPT !.snap = row]
<1>1. row \in Row
  BY DEF ReturnNow, IInv, TypeOK
<1>2. c \in Call /\ c.at = "return" /\ c.snap = row
  BY <1>1 DEF Start, Call, Open
<1>3. Frame
  BY FramePending DEF ReturnNow, IInv
<1>4. CallOK(c, row', lost', paid', GoneOuts')
  BY <1>1, <1>2 DEF CallOK, Looking, Writing
<1>5. u \in Handlers /\ Set(u, c) /\ UNCHANGED <<row, age, lost>>
  BY DEF ReturnNow, Handlers
<1> HIDE DEF c
<1> QED
  BY <1>2, <1>3, <1>4, <1>5, StillStep

\* A write that leaves the row's status and transactions alone.
LEMMA SameTurn ==
  ASSUME IInv, NEW r \in Row \cup {NULL}, r = row
  PROVE  Turn(row, r) /\ (lost = NULL /\ r # NULL => RowOK(r, paid, GoneOuts))
  BY DEF Turn, IInv, Recorded, Record

LEMMA TouchStep ==
  ASSUME IInv, NEW w \in Workers, Touch(w)
  PROVE  Steps /\ Frame
<1>1. Start("touched") \in Call /\ Start("touched").at = "touched"
  BY StartTyped
<1>2. Frame /\ GoneOuts' = GoneOuts
  BY FramePending DEF Touch, IInv
<1>3. w \in Handlers /\ row' = row /\ lost' = lost /\ WriteThen(w, row', Start("touched"))
  BY DEF Touch, WriteThen, Handlers
<1>4. CallOK(Start("touched"), row', lost', paid', GoneOuts')
  BY <1>1 DEF CallOK, Looking, Writing
<1>5. row \in Row \cup {NULL} /\ paid' = paid
  BY DEF Touch, IInv, TypeOK
<1>6. lost = NULL => Turn(row, row') /\ (row' # NULL => RowOK(row', paid', GoneOuts'))
  BY <1>2, <1>3, <1>5, SameTurn
<1> QED
  BY <1>1, <1>2, <1>3, <1>4, <1>5, <1>6, WrittenStep

LEMMA TakeRowStep ==
  ASSUME IInv, NEW w \in Workers, TakeRow(w)
  PROVE  Steps /\ Frame
<1> DEFINE c == [Start("return") EXCEPT !.snap = row]
<1>0. w \in Handlers
  BY DEF Handlers
<1>1. Frame
  BY FramePending DEF TakeRow, IInv
<1>2. CASE row = NULL
  BY <1>0, <1>1, <1>2, EndStep DEF TakeRow
<1>3. CASE row # NULL
  <2>1. row \in Row
    BY <1>3 DEF IInv, TypeOK
  <2>2. c \in Call /\ c.at = "return" /\ c.snap = row
    BY <2>1 DEF Start, Call, Open
  <2>3. CallOK(c, row', lost', paid', GoneOuts')
    BY <2>1, <2>2 DEF CallOK, Looking, Writing
  <2>4. Set(w, c) /\ UNCHANGED <<row, age, lost>>
    BY <1>3 DEF TakeRow
  <2> HIDE DEF c
  <2> QED
    BY <1>0, <1>1, <2>2, <2>3, <2>4, StillStep
<1> QED
  BY <1>2, <1>3

\* What is returned next is a refund of a listed output.
LEMMA ReturningOK ==
  ASSUME NEW c \in Call, c.snap \in Row, NEW os \in SUBSET Outputs, NEW d \in Returning(c, os),
         NEW r, NEW l, NEW P, NEW G
  PROVE  d \in Call \cup {NULL} /\ (d # NULL => CallOK(d, r, l, P, G))
<1>1. CASE os = {}
  BY <1>1 DEF Returning
<1>2. CASE os # {}
  <2>1. PICK o \in Foremost(c.snap, os) :
          d = [c EXCEPT !.at = "send", !.todo = os, !.tx = RefundOf(o)]
    BY <1>2 DEF Returning
  <2>2. RefundOf(o) \in Txs /\ RefundOf(o).kind = "refund"
    BY <2>1, TxTypes DEF Foremost, Txs
  <2>3. d \in Call
    BY <2>1, <2>2 DEF Call
  <2>4. d.at = "send" /\ d.tx = RefundOf(o) /\ d.snap = c.snap
    BY <2>1 DEF Call
  <2> QED
    BY <2>2, <2>3, <2>4 DEF CallOK, Looking, Writing
<1> QED
  BY <1>1, <1>2

LEMMA ContinuedOK ==
  ASSUME NEW c \in Call, c.snap \in Row, NEW d \in Continued(c), NEW r, NEW l, NEW P, NEW G
  PROVE  d \in Call \cup {NULL} /\ (d # NULL => CallOK(d, r, l, P, G))
<1> DEFINE e == [c EXCEPT !.marks = FALSE]
<1>1. e \in Call /\ e.snap = c.snap
  BY DEF Call
<1>2. c.todo \ {c.tx.out} \in SUBSET Outputs
  BY DEF Call
<1>3. d \in Returning(e, c.todo \ {c.tx.out})
  BY DEF Continued
<1> HIDE DEF e
<1> QED
  BY <1>1, <1>2, <1>3, ReturningOK

LEMMA ListUtxosStep ==
  ASSUME IInv, NEW h \in Handlers, ListUtxos(h)
  PROVE  Steps /\ Frame
<1> DEFINE e == [call[h] EXCEPT !.marks = call[h].snap.status \notin Closed]
           os == IF expired THEN Returnable ELSE {}
<1>1. call[h] \in Call /\ call[h].snap \in Row
  BY Underway DEF ListUtxos, CallOK
<1>2. e \in Call /\ e.snap = call[h].snap
  BY <1>1 DEF Call
<1>3. os \in SUBSET Outputs
  BY DEF Returnable, Unspent, IInv, TypeOK
<1>4. PICK c \in Returning(e, os) : Set(h, c)
  BY DEF ListUtxos
<1>5. UNCHANGED <<row, age, lost>> /\ Frame
  BY FramePending DEF ListUtxos, IInv
<1> HIDE DEF e, os
<1>6. c \in Call \cup {NULL} /\ (c # NULL => CallOK(c, row', lost', paid', GoneOuts'))
  BY <1>1, <1>2, <1>3, ReturningOK
<1> QED
  BY <1>4, <1>5, <1>6, StillStep

LEMMA SendReturnStep ==
  ASSUME IInv, NEW h \in Handlers, SendReturn(h)
  PROVE  Steps /\ Frame
<1> DEFINE d == [call[h] EXCEPT !.at = "record"]
<1>1. call[h] \in Call /\ call[h].snap \in Row /\ call[h].tx \in Txs /\ call[h].tx.kind = "refund"
  BY Underway DEF SendReturn, CallOK
<1>2. call[h].tx.out \in GoneOuts' /\ pending \subseteq pending' /\ pending' \subseteq Txs
  BY <1>1, TakenGone DEF SendReturn, IInv
<1>3. Frame /\ UNCHANGED <<row, age, lost>>
  BY <1>2 DEF SendReturn, Frame, IInv, TypeOK
<1>4. CASE call[h].marks
  <2>1. d \in Call /\ d.at = "record" /\ d.tx = call[h].tx /\ d.snap = call[h].snap
    BY <1>1 DEF Call
  <2>2. CallOK(d, row', lost', paid', GoneOuts')
    BY <1>1, <1>2, <2>1 DEF CallOK, Looking, Writing
  <2>3. Set(h, d)
    BY <1>4 DEF SendReturn
  <2> HIDE DEF d
  <2> QED
    BY <1>3, <2>1, <2>2, <2>3, StillStep
<1>5. CASE ~call[h].marks
  <2>1. PICK c \in Continued(call[h]) : Set(h, c)
    BY <1>5 DEF SendReturn
  <2>2. c \in Call \cup {NULL} /\ (c # NULL => CallOK(c, row', lost', paid', GoneOuts'))
    BY <1>1, ContinuedOK
  <2> QED
    BY <1>3, <2>1, <2>2, StillStep
<1> QED
  BY <1>4, <1>5

LEMMA MarkReturnedStep ==
  ASSUME IInv, NEW h \in Handlers, MarkReturned(h)
  PROVE  Steps /\ Frame
<1>1. /\ call[h] \in Call /\ call[h].snap \in Row
      /\ call[h].tx \in Txs /\ call[h].tx.out \in GoneOuts
  BY Underway DEF MarkReturned, CallOK
<1>2. Frame /\ GoneOuts' = GoneOuts /\ paid' = paid /\ lost' = lost
  BY FramePending DEF MarkReturned, IInv
<1>3. PICK c \in Continued(call[h]) :
        IF Markable THEN WriteThen(h, EndedBy(call[h].tx), c)
        ELSE Set(h, c) /\ UNCHANGED <<row, age>>
  BY DEF MarkReturned
<1>4. c \in Call \cup {NULL} /\ (c # NULL => CallOK(c, row', lost', paid', GoneOuts'))
  BY <1>1, ContinuedOK
<1>5. CASE Markable
  <2>1. WriteThen(h, row', c) /\ row' = EndedBy(call[h].tx)
    BY <1>3, <1>5 DEF WriteThen
  <2>2. /\ EndedBy(call[h].tx) \in Row
        /\ Turn(row, EndedBy(call[h].tx))
        /\ lost = NULL => RowOK(EndedBy(call[h].tx), paid, GoneOuts)
    BY <1>1, <1>5, EndedRight
  <2>3. row' \in Row /\ (lost = NULL => Turn(row, row') /\ RowOK(row', paid', GoneOuts'))
    BY <1>2, <2>1, <2>2
  <2> QED
    BY <1>2, <1>4, <2>1, <2>3, WrittenStep
<1>6. CASE ~Markable
  BY <1>2, <1>3, <1>4, <1>6, StillStep
<1> QED
  BY <1>5, <1>6

LEMMA FindStaleStep ==
  ASSUME IInv, NEW w \in Workers, FindStale(w)
  PROVE  Steps /\ Frame
<1>1. Start("cleanup") \in Call /\ Start("cleanup").at = "cleanup"
  BY StartTyped
<1>2. CallOK(Start("cleanup"), row', lost', paid', GoneOuts')
  BY <1>1 DEF CallOK, Looking, Writing
<1>3. Frame /\ w \in Handlers /\ Set(w, Start("cleanup")) /\ UNCHANGED <<row, age, lost>>
  BY FramePending DEF FindStale, Handlers, IInv
<1> QED
  BY <1>1, <1>2, <1>3, StillStep

LEMMA DeleteStaleStep ==
  ASSUME IInv, NEW w \in Workers, DeleteStale(w)
  PROVE  Steps /\ Frame
<1>1. Frame /\ w \in Handlers /\ lost' = lost
  BY FramePending DEF DeleteStale, Handlers, IInv
<1>2. CASE Stale
  <2>1. WriteThen(w, row', NULL) /\ row' = NULL
    BY <1>2 DEF DeleteStale, WriteThen
  <2>2. lost = NULL => Turn(row, row')
    BY <1>2, <2>1 DEF Turn, Stale, IInv, Recorded, Record, RowOK, Open
  <2> QED
    BY <1>1, <2>1, <2>2, WrittenStep
<1>3. CASE ~Stale
  BY <1>1, <1>3, EndStep DEF DeleteStale
<1> QED
  BY <1>2, <1>3

-----------------------------------------------------------------------------
(* Refreshes. *)

LEMMA RefreshStep ==
  ASSUME IInv, NEW u \in Users, Refresh(u)
  PROVE  Steps /\ Frame
<1> DEFINE c == [Start("resolve") EXCEPT !.snap = row, !.fresh = TRUE]
<1>1. row \in Row /\ row # NULL
  BY DEF Refresh, IInv, TypeOK
<1>2. c \in Call /\ c.at = "resolve" /\ c.snap = row
  BY <1>1 DEF Start, Call, Open
<1>3. Frame /\ GoneOuts' = GoneOuts /\ UNCHANGED <<row, age, lost, paid>>
  BY FramePending DEF Refresh, IInv
<1>4. lost = NULL => RowOK(row, paid, GoneOuts)
  BY <1>1 DEF IInv, Recorded, Record
<1>5. CallOK(c, row', lost', paid', GoneOuts')
  BY <1>1, <1>2, <1>3, <1>4 DEF CallOK, Looking, Writing
<1>6. u \in Handlers /\ Set(u, c)
  BY DEF Refresh, Handlers
<1> HIDE DEF c
<1> QED
  BY <1>2, <1>3, <1>5, <1>6, StillStep

LEMMA RefreshStatsStep ==
  ASSUME IInv, NEW u \in Users, RefreshStats(u)
  PROVE  Steps /\ Frame
<1> DEFINE c == [Start("resolve_stats") EXCEPT !.snap = row]
<1>1. row \in Row /\ row # NULL
  BY DEF RefreshStats, IInv, TypeOK
<1>2. c \in Call /\ c.at = "resolve_stats" /\ c.snap = row
  BY <1>1 DEF Start, Call, Open
<1>3. Frame /\ GoneOuts' = GoneOuts /\ UNCHANGED <<row, age, lost, paid>>
  BY FramePending DEF RefreshStats, IInv
<1>4. lost = NULL => RowOK(row, paid, GoneOuts)
  BY <1>1 DEF IInv, Recorded, Record
<1>5. CallOK(c, row', lost', paid', GoneOuts')
  BY <1>1, <1>2, <1>3, <1>4 DEF CallOK, Looking, Writing
<1>6. u \in Handlers /\ Set(u, c)
  BY DEF RefreshStats, Handlers
<1> HIDE DEF c
<1> QED
  BY <1>2, <1>3, <1>5, <1>6, StillStep

\* What a resolution may find, whether or not the row it read was right.
LEMMA ResolvedTyped ==
  ASSUME TypeOK, NEW r \in Row, NEW x \in Resolved(r)
  PROVE  x.status \in Open \cup Closed /\ x.out \in Outputs \cup {NULL}
<1>1. \A o \in paid : o \in Outputs
  BY DEF TypeOK
<1>2. \/ \E o \in paid : x = [status |-> "funded", out |-> o]
      \/ \E y \in Open \cup Closed : x = [status |-> y, out |-> NULL]
  BY DEF Resolved, Open, Closed
<1>3. "funded" \in Open
  BY DEF Open
<1> QED
  BY <1>1, <1>2, <1>3

LEMMA ResolveStep ==
  ASSUME IInv, NEW u \in Users, Resolve(u)
  PROVE  Steps /\ Frame
<1>0. u \in Handlers
  BY DEF Handlers
<1>1. PICK now \in {"resolve", "resolve_stats"} : At(u, now)
  BY DEF Resolve
<1>2. call[u] \in Call /\ call[u].at = now /\ CallOK(call[u], row, lost, paid, GoneOuts)
  BY <1>0, <1>1, Underway
<1>3. call[u].snap \in Row /\ (lost = NULL => RowOK(call[u].snap, paid, GoneOuts))
      /\ (lost = NULL => (call[u].fresh => call[u].snap = row))
  BY <1>1, <1>2 DEF CallOK, Looking, Writing
<1>4. Frame /\ GoneOuts' = GoneOuts /\ UNCHANGED <<row, age, lost, paid>>
  BY FramePending DEF Resolve, IInv
<1>5. CASE Set(u, NULL)
  BY <1>0, <1>4, <1>5, EndStep
<1>6. ASSUME NEW next \in {"write", "write_stats"}, NEW x \in Resolved(call[u].snap),
             Set(u, [call[u] EXCEPT !.at = next, !.status = x.status, !.out = x.out])
      PROVE  Steps
  <2> DEFINE c == [call[u] EXCEPT !.at = next, !.status = x.status, !.out = x.out]
  <2>1. x.status \in Open \cup Closed /\ x.out \in Outputs \cup {NULL}
    BY <1>3, <1>6, ResolvedTyped DEF IInv
  <2>2. lost = NULL => Finding(call[u].snap, x.status, x.out, paid, GoneOuts)
    BY <1>3, <1>6, ResolvedFits DEF IInv
  <2>3. c \in Call
    BY <1>2, <1>6, <2>1 DEF Call
  <2>4. /\ c.at = next /\ c.snap = call[u].snap /\ c.fresh = call[u].fresh
        /\ c.status = x.status /\ c.out = x.out
    BY <1>2 DEF Call
  <2>5. CallOK(c, row', lost', paid', GoneOuts')
    BY <1>3, <1>4, <1>6, <2>2, <2>4 DEF CallOK, Looking, Writing
  <2>6. Set(u, c)
    BY <1>6
  <2> HIDE DEF c
  <2> QED
    BY <1>0, <1>4, <2>3, <2>5, <2>6, StillStep
<1> QED
  BY <1>4, <1>5, <1>6 DEF Resolve

LEMMA UpdatedTyped ==
  ASSUME NEW r \in Row, NEW c \in Call
  PROVE  Updated(r, c) \in Row /\ [Updated(r, c) EXCEPT !.deleted = TRUE] \in Row
  BY DEF Updated, Row, Call

\* A write that names the row that was read writes what was found about it.
LEMMA FreshWrite ==
  ASSUME IInv, lost = NULL, NEW c \in Call, c.at \in Writing, row # NULL,
         CallOK(c, row, lost, paid, GoneOuts), c.snap = row
  PROVE  /\ RowOK(Updated(row, c), paid, GoneOuts)
         /\ Turn(row, Updated(row, c))
         /\ RowOK([Updated(row, c) EXCEPT !.deleted = TRUE], paid, GoneOuts)
         /\ Turn(row, [Updated(row, c) EXCEPT !.deleted = TRUE])
<1>1. row \in Row /\ RowOK(row, paid, GoneOuts)
  BY DEF IInv, TypeOK, Recorded, Record
<1>2. Finding(row, c.status, c.out, paid, GoneOuts)
  BY DEF CallOK, Looking
<1>3. paid \subseteq Outputs
  BY DEF IInv, TypeOK
<1> QED
  BY <1>1, <1>2, <1>3, FindingWritten

LEMMA WriteStatusStep ==
  ASSUME IInv, NEW u \in Users, WriteStatus(u)
  PROVE  Steps /\ Frame
<1>0. u \in Handlers
  BY DEF Handlers
<1>1. call[u] \in Call /\ call[u].at = "write" /\ CallOK(call[u], row, lost, paid, GoneOuts)
  BY <1>0, Underway DEF WriteStatus
<1>2. Frame /\ GoneOuts' = GoneOuts /\ lost' = lost /\ paid' = paid
  BY FramePending DEF WriteStatus, IInv
<1>3. CASE SameRow(call[u])
  <2>1. row \in Row /\ row # NULL /\ call[u].fresh
    BY <1>3 DEF SameRow, IInv, TypeOK
  <2>2. WriteThen(u, row', NULL) /\ row' = Updated(row, call[u])
    BY <1>3 DEF WriteStatus, WriteThen
  <2>3. row' \in Row
    BY <1>1, <2>1, <2>2, UpdatedTyped
  <2>4. lost = NULL => call[u].snap = row
    BY <1>1, <2>1 DEF CallOK, Looking, Writing
  <2>5. call[u].at \in Writing
    BY <1>1 DEF Writing
  <2>6. lost = NULL => RowOK(row', paid', GoneOuts') /\ Turn(row, row')
    BY <1>1, <1>2, <2>1, <2>2, <2>4, <2>5, FreshWrite
  <2> QED
    BY <1>0, <1>2, <2>2, <2>3, <2>6, WrittenStep
<1>4. CASE ~SameRow(call[u])
  BY <1>0, <1>2, <1>4, EndStep DEF WriteStatus
<1> QED
  BY <1>3, <1>4

LEMMA WriteStatsStep ==
  ASSUME IInv, NEW u \in Users, WriteStats(u)
  PROVE  Steps /\ Frame
<1>0. u \in Handlers
  BY DEF Handlers
<1>1. /\ call[u] \in Call /\ call[u].at = "write_stats"
      /\ CallOK(call[u], row, lost, paid, GoneOuts)
  BY <1>0, Underway DEF WriteStats
<1>2. Frame /\ GoneOuts' = GoneOuts /\ paid' = paid
  BY FramePending DEF WriteStats, IInv
<1>3. CASE row = NULL
  BY <1>0, <1>2, <1>3, EndStep DEF WriteStats
<1>4. CASE row # NULL
  <2>1. row \in Row
    BY <1>4 DEF IInv, TypeOK
  <2>2. WriteThen(u, row', NULL) /\ row' = Updated(row, call[u])
    BY <1>4 DEF WriteStats, WriteThen
  <2>3. row' \in Row
    BY <1>1, <2>1, <2>2, UpdatedTyped
  <2>4. call[u].at \in Writing
    BY <1>1 DEF Writing
  <2>5. CASE lost = NULL /\ row # call[u].snap
    <3>1. lost' = row /\ row # NULL
      BY <1>4, <2>5 DEF WriteStats
    <3>2. Rewrites
      BY <2>3, <2>5, <3>1 DEF Rewrites
    <3>3. Moves
      BY <1>0, <2>2 DEF Moves
    <3> QED
      BY <1>2, <3>2, <3>3, FrameGrows DEF Steps, IInv
  <2>6. CASE ~(lost = NULL /\ row # call[u].snap)
    <3>1. lost' = lost
      BY <2>6 DEF WriteStats
    <3>2. lost = NULL => call[u].snap = row
      BY <2>6
    <3>3. lost = NULL => RowOK(row', paid', GoneOuts') /\ Turn(row, row')
      BY <1>1, <1>2, <1>4, <2>2, <2>4, <3>2, FreshWrite
    <3> QED
      BY <1>0, <1>2, <2>2, <2>3, <3>1, <3>3, WrittenStep
  <2> QED
    BY <1>2, <2>5, <2>6
<1> QED
  BY <1>2, <1>3, <1>4

-----------------------------------------------------------------------------
(* Adoption and removal. *)

LEMMA AdoptFundingStep ==
  ASSUME IInv, NEW u \in Users, NEW o \in Outputs, AdoptFunding(u, o)
  PROVE  Steps /\ Frame
<1> DEFINE c == [Start("adopt") EXCEPT !.out = o]
<1>1. c \in Call /\ c.at = "adopt" /\ c.out = o
  BY DEF Start, Call, Open
<1>2. Frame /\ GoneOuts' = GoneOuts /\ UNCHANGED <<row, age, lost, paid>>
  BY FramePending DEF AdoptFunding, IInv
<1>3. o \in paid
  BY DEF AdoptFunding, Unspent
<1>4. CallOK(c, row', lost', paid', GoneOuts')
  BY <1>1, <1>2, <1>3 DEF CallOK, Looking, Writing
<1>5. u \in Handlers /\ Set(u, c)
  BY DEF AdoptFunding, Handlers
<1> HIDE DEF c
<1> QED
  BY <1>1, <1>2, <1>4, <1>5, StillStep

LEMMA WriteFundingStep ==
  ASSUME IInv, NEW u \in Users, WriteFunding(u)
  PROVE  Steps /\ Frame
<1> DEFINE o == call[u].out
<1>0. u \in Handlers
  BY DEF Handlers
<1>1. o \in paid /\ o \in Outputs /\ o # NULL
  <2>1. CallOK(call[u], row, lost, paid, GoneOuts) /\ call[u].at = "adopt"
    BY <1>0, Underway DEF WriteFunding
  <2>2. o \in paid
    BY <2>1 DEF CallOK
  <2> QED
    BY <2>2, LinkAssumption DEF IInv, TypeOK
<1>2. Frame /\ GoneOuts' = GoneOuts /\ UNCHANGED <<lost, paid>>
  BY FramePending DEF WriteFunding, IInv
<1>3. CASE Unfunded
  <2>1. row \in Row /\ row # NULL /\ row.status = "awaiting_funding"
    BY <1>3 DEF Unfunded, IInv, TypeOK
  <2>2. WriteThen(u, row', NULL) /\ row' = Adopted(o)
    BY <1>3 DEF WriteFunding, WriteThen
  <2>3. AmountOf[o] \in Nat
    BY <1>1, LinkAssumption
  <2>4. row' \in Row
    BY <1>1, <2>1, <2>2, <2>3 DEF Adopted, Row, Open
  <2>5. /\ row'.status = "funded" /\ row'.funding = o /\ row'.amount = AmountOf[o]
        /\ row'.claimTx = row.claimTx /\ row'.refundTx = row.refundTx
    BY <2>1, <2>2 DEF Adopted, Row
  <2>6. row' # NULL
    BY <2>4, NullAssumption
  <2>7. lost = NULL => row.claimTx = NULL /\ row.refundTx = NULL
    BY <2>1 DEF IInv, Recorded, Record, RowOK, Open
  <2>8. lost = NULL => RowOK(row', paid', GoneOuts')
    BY <1>1, <1>2, <2>5, <2>7 DEF RowOK, Open, Closed
  <2>9. Turn(row, row')
    BY <2>1, <2>5, <2>6 DEF Turn
  <2> HIDE DEF o
  <2> QED
    BY <1>0, <1>2, <2>2, <2>4, <2>8, <2>9, WrittenStep
<1>4. CASE ~Unfunded
  BY <1>0, <1>2, <1>4, EndStep DEF WriteFunding
<1> QED
  BY <1>2, <1>3, <1>4

LEMMA AdoptLinkStep ==
  ASSUME IInv, NEW u \in Users, AdoptLink(u)
  PROVE  Steps /\ Frame
<1>1. Frame /\ GoneOuts' = GoneOuts /\ UNCHANGED <<lost, paid>> /\ u \in Handlers
  BY FramePending DEF AdoptLink, Handlers, IInv
<1>2. row \in Row /\ row # NULL
  BY DEF AdoptLink, IInv, TypeOK
<1>3. WriteThen(u, row', NULL) /\ row' = [row EXCEPT !.owned = TRUE]
  BY DEF AdoptLink, WriteThen
<1>4. /\ row' \in Row
      /\ row'.status = row.status /\ row'.funding = row.funding /\ row'.amount = row.amount
      /\ row'.claimTx = row.claimTx /\ row'.refundTx = row.refundTx
  BY <1>2, <1>3 DEF Row
<1>5. row' # NULL
  BY <1>4, NullAssumption
<1>6. lost = NULL => RowOK(row', paid', GoneOuts')
  BY <1>1, <1>2, <1>4 DEF IInv, Recorded, Record, RowOK
<1>7. Turn(row, row')
  BY <1>2, <1>4, <1>5 DEF Turn
<1> QED
  BY <1>1, <1>3, <1>4, <1>6, <1>7, WrittenStep

LEMMA RemoveStep ==
  ASSUME IInv, NEW u \in Users, Remove(u)
  PROVE  Steps /\ Frame
<1>1. row \in Row /\ row # NULL
  BY DEF Remove, IInv, TypeOK
<1>2. Frame /\ GoneOuts' = GoneOuts /\ UNCHANGED <<row, age, lost, paid>> /\ u \in Handlers
  BY FramePending DEF Remove, Handlers, IInv
<1>3. PICK x \in {Unmoved} \cup Found :
        Set(u, [Start("remove") EXCEPT !.snap = row, !.fresh = TRUE,
                                       !.status = x.status, !.out = x.out])
  BY DEF Remove
<1> DEFINE c == [Start("remove") EXCEPT !.snap = row, !.fresh = TRUE,
                                        !.status = x.status, !.out = x.out]
<1>4. lost = NULL => RowOK(row, paid, GoneOuts)
  BY <1>1 DEF IInv, Recorded, Record
<1>5. /\ x.status \in Open \cup Closed /\ x.out \in Outputs \cup {NULL}
      /\ lost = NULL => Finding(row, x.status, x.out, paid, GoneOuts)
  <2>1. CASE x = Unmoved
    BY <1>1, <2>1 DEF Unmoved, Finding, Row
  <2>2. CASE x # Unmoved
    <3>1. x \in Resolved(row)
      BY <1>3, <2>2 DEF Found
    <3> QED
      BY <1>1, <1>4, <3>1, ResolvedTyped, ResolvedFits DEF IInv
  <2> QED
    BY <2>1, <2>2
<1>6. c \in Call
  BY <1>1, <1>5 DEF Start, Call, Open
<1>7. c.at = "remove" /\ c.snap = row /\ c.status = x.status /\ c.out = x.out
  BY DEF Start
<1>8. CallOK(c, row', lost', paid', GoneOuts')
  BY <1>1, <1>2, <1>4, <1>5, <1>7 DEF CallOK, Looking, Writing
<1>9. Set(u, c)
  BY <1>3
<1> HIDE DEF c
<1> QED
  BY <1>2, <1>6, <1>8, <1>9, StillStep

LEMMA WriteRemovedStep ==
  ASSUME IInv, NEW u \in Users, WriteRemoved(u)
  PROVE  Steps /\ Frame
<1>0. u \in Handlers
  BY DEF Handlers
<1>1. call[u] \in Call /\ call[u].at = "remove" /\ CallOK(call[u], row, lost, paid, GoneOuts)
  BY <1>0, Underway DEF WriteRemoved
<1>2. Frame /\ GoneOuts' = GoneOuts /\ lost' = lost /\ paid' = paid
  BY FramePending DEF WriteRemoved, IInv
<1>3. CASE SameRow(call[u])
  <2>1. row \in Row /\ row # NULL /\ call[u].fresh
    BY <1>3 DEF SameRow, IInv, TypeOK
  <2>2. WriteThen(u, row', NULL) /\ row' = [Updated(row, call[u]) EXCEPT !.deleted = TRUE]
    BY <1>3 DEF WriteRemoved, WriteThen
  <2>3. row' \in Row
    BY <1>1, <2>1, <2>2, UpdatedTyped
  <2>4. lost = NULL => call[u].snap = row
    BY <1>1, <2>1 DEF CallOK, Looking, Writing
  <2>5. call[u].at \in Writing
    BY <1>1 DEF Writing
  <2>6. lost = NULL => RowOK(row', paid', GoneOuts') /\ Turn(row, row')
    BY <1>1, <1>2, <2>1, <2>2, <2>4, <2>5, FreshWrite
  <2> QED
    BY <1>0, <1>2, <2>2, <2>3, <2>6, WrittenStep
<1>4. CASE ~SameRow(call[u])
  BY <1>0, <1>2, <1>4, EndStep DEF WriteRemoved
<1> QED
  BY <1>3, <1>4

-----------------------------------------------------------------------------
(* Refusals and faults. *)

LEMMA RefuseStep ==
  ASSUME IInv, NEW h \in Handlers, Refuse(h)
  PROVE  Steps /\ Frame
<1>1. Frame /\ Set(h, NULL) /\ UNCHANGED <<row, age, lost>>
  BY FramePending DEF Refuse, IInv
<1> QED
  BY <1>1, EndStep

LEMMA LoseAnswerStep ==
  ASSUME IInv, NEW h \in Handlers, LoseAnswer(h)
  PROVE  Steps /\ Frame
<1>1. call[h].tx \in Txs
  BY Underway DEF LoseAnswer, CallOK
<1>2. faults' \in 0 .. MaxFaults /\ faults <= faults'
  BY LinkAssumption DEF LoseAnswer, IInv, TypeOK
<1>3. Frame /\ Set(h, NULL) /\ UNCHANGED <<row, age, lost>>
  BY <1>1, <1>2 DEF LoseAnswer, Frame, IInv, TypeOK
<1> QED
  BY <1>3, EndStep

LEMMA FailStep ==
  ASSUME IInv, NEW h \in Handlers, Fail(h)
  PROVE  Steps /\ Frame
<1>1. faults' \in 0 .. MaxFaults /\ faults <= faults'
  BY LinkAssumption DEF Fail, IInv, TypeOK
<1>2. Frame /\ Set(h, NULL) /\ UNCHANGED <<row, age, lost>>
  BY <1>1 DEF Fail, Frame, IInv, TypeOK
<1> QED
  BY <1>2, EndStep

(***************************************************************************)
(* The theorems.                                                           *)
(***************************************************************************)

LEMMA CallStep ==
  ASSUME IInv, Next, ~Environment
  PROVE  Steps /\ Frame
<1>1. ASSUME NEW u \in Users, UserNext(u)
      PROVE  Steps /\ Frame
  BY <1>1, BroadcastStep, AdoptFundingStep, ReturnNowStep, RefreshStep, RefreshStatsStep,
     AdoptLinkStep, RemoveStep, SubmitStep, MarkBroadcastedStep, ResolveStep, WriteStatusStep,
     WriteStatsStep, WriteFundingStep, WriteRemovedStep DEF UserNext
<1>2. ASSUME NEW w \in Workers, WorkerNext(w)
      PROVE  Steps /\ Frame
  BY <1>2, TouchStep, TakeRowStep, FindStaleStep, DeleteStaleStep DEF WorkerNext
<1>3. ASSUME NEW h \in Handlers, ReturnNext(h) \/ LoseAnswer(h) \/ Fail(h)
      PROVE  Steps /\ Frame
  BY <1>3, ListUtxosStep, SendReturnStep, MarkReturnedStep, RefuseStep, LoseAnswerStep, FailStep
     DEF ReturnNext
<1> QED
  BY <1>1, <1>2, <1>3 DEF Next

LEMMA NextStep ==
  ASSUME IInv, [Next]_vars
  PROVE  IInv' /\ Rewrites
<1>1. CASE Environment
  <2>1. Grows /\ TypeOK' /\ UNCHANGED <<row, call, lost>>
    BY <1>1, EnvironmentStep DEF IInv
  <2>2. Rewrites
    BY <2>1, Quiet
  <2>3. Recorded'
    BY <2>1, <2>2, RewritesKeep
  <2>4. ASSUME NEW h \in Handlers, call'[h] # NULL
        PROVE  CallOK(call'[h], row', lost', paid', GoneOuts')
    <3>1. call[h] \in Call /\ call'[h] = call[h] /\ CallOK(call[h], row, lost, paid, GoneOuts)
      BY <2>1, <2>4 DEF IInv, TypeOK, CallsOK
    <3> QED
      BY <2>1, <3>1, CallStays DEF Grows
  <2> QED
    BY <2>1, <2>2, <2>3, <2>4 DEF IInv, CallsOK
<1>2. CASE UNCHANGED vars
  <2>1. IInv'
    BY <1>2 DEF vars, IInv, TypeOK, Recorded, Record, CallsOK, GoneOuts
  <2>2. Grows
    BY <1>2 DEF vars, Grows, GoneOuts
  <2> QED
    BY <1>2, <2>1, <2>2, Quiet DEF vars
<1>3. CASE Next /\ ~Environment
  <2>1. Steps /\ Frame
    BY <1>3, CallStep
  <2> QED
    BY <2>1, StepsKeep DEF Frame, Steps
<1> QED
  BY <1>1, <1>2, <1>3

LEMMA IInvInit == Init => IInv
<1> SUFFICES ASSUME Init PROVE IInv
  OBVIOUS
<1>1. row \in Row
  BY LinkAssumption DEF Init, Row, Open
<1>2. TypeOK
  <2>1. expired \in BOOLEAN /\ paid \subseteq Outputs /\ pending \subseteq Txs /\ lost = NULL
    BY DEF Init
  <2>2. spentBy \in [Outputs -> Txs \cup {NULL}] /\ call \in [Handlers -> Call \cup {NULL}]
    BY DEF Init
  <2>3. faults \in 0 .. MaxFaults /\ age \in 0 .. Recheck /\ dropped \subseteq Outputs
    BY LinkAssumption DEF Init
  <2> QED
    BY <1>1, <2>1, <2>2, <2>3 DEF TypeOK
<1>3. Recorded
  BY DEF Init, Recorded, Record, RowOK, Open, Closed
<1>4. CallsOK
  BY DEF Init, CallsOK
<1> QED
  BY <1>2, <1>3, <1>4 DEF IInv

\* The invariant: the row is right until the operator's page writes over it, and
\* what a call is about to write fits the row it read.
THEOREM Invariance == Spec => []IInv
<1>1. IInv /\ [Next]_vars => IInv'
  BY NextStep
<1> QED
  BY <1>1, IInvInit, PTL DEF Spec

\* The row, the calls and the chain keep their types.
THEOREM TypeCorrect == Spec => []TypeOK
<1>1. IInv => TypeOK
  BY DEF IInv
<1> QED
  BY <1>1, Invariance, PTL

\* A link closes only for a spend of its output.
THEOREM ClosedForASpend == Spec => []ClosedIsSpent
<1>1. IInv => ClosedIsSpent
  <2> SUFFICES ASSUME IInv, Record # NULL, Record.status \in Closed
               PROVE  /\ Record.funding # NULL
                      /\ Record.claimTx # NULL => Record.claimTx.out = Record.funding
                      /\ Record.refundTx # NULL => Record.refundTx.out = Record.funding
                      /\ \/ spentBy[Record.funding] # NULL
                         \/ \E u \in pending : u.out = Record.funding
                         \/ Record.funding \in dropped
    BY DEF ClosedIsSpent
  <2>1. RowOK(Record, paid, GoneOuts)
    BY DEF IInv, Recorded
  <2>2. Record.funding \in GoneOuts
    BY <2>1 DEF RowOK
  <2>3. Record.funding # NULL
    BY <2>2, LinkAssumption DEF GoneOuts
  <2> QED
    BY <2>1, <2>2, <2>3 DEF RowOK, GoneOuts
<1> QED
  BY <1>1, Invariance, PTL

\* An open link knows its funding output, and the output has the link's amount.
THEOREM FundingIsRight == Spec => []FundingFits
<1>1. IInv => FundingFits
  BY DEF IInv, Recorded, RowOK, FundingFits
<1> QED
  BY <1>1, Invariance, PTL

\* The routes, the refreshes and the worker together implement the life of a
\* link, for any number of them and any number of faults.
THEOREM Refinement == Spec => FollowsLifecycle
<1>1. Init => L!Init
  <2> SUFFICES ASSUME Init PROVE L!Init
    OBVIOUS
  <2>1. Record = row /\ row # NULL /\ row.status = "awaiting_funding"
        /\ row.claimTx = NULL /\ row.refundTx = NULL
    <3>1. row \in Row
      BY LinkAssumption DEF Init, Row, Open
    <3>2. row # NULL
      BY <3>1, NullAssumption
    <3>3. Record = row
      BY DEF Init, Record
    <3> QED
      BY <3>2, <3>3 DEF Init
  <2> QED
    BY <2>1 DEF L!Init
<1>2. ASSUME IInv, [Next]_vars
      PROVE  [L!Next]_<<IF Record = NULL THEN "gone" ELSE Record.status,
                        IF Record = NULL THEN NULL ELSE Record.claimTx,
                        IF Record = NULL THEN NULL ELSE Record.refundTx>>
  <2>1. Rewrites
    BY <1>2, NextStep
  <2>2. Turn(Record, Record')
    <3>1. CASE lost' = NULL
      BY <2>1, <3>1, NullAssumption DEF Rewrites, Record, IInv, TypeOK
    <3>2. CASE lost' # NULL
      BY <2>1, <3>2 DEF Rewrites, Record, Turn
    <3> QED
      BY <3>1, <3>2
  <2> QED
    BY <2>2 DEF Turn, L!Next, L!Fund, L!Expire, L!LoseTrack, L!Forget, L!Claim, L!Refund,
                L!Open, Open
<1> QED
  BY <1>1, <1>2, Invariance, PTL DEF Spec, FollowsLifecycle, L!Spec
=============================================================================
