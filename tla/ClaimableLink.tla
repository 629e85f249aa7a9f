---------------------------- MODULE ClaimableLink ---------------------------
(***************************************************************************)
(* One registered claimable link: its row, the payments at its one-time    *)
(* address, the transactions that spend them, and the calls that broadcast *)
(* them, refresh the stored status from the chain, adopt a payment, remove *)
(* the link or clean it up.  Every write of the code names the row's id,   *)
(* so links do not meet and one is enough.  It is a link of its own: the   *)
(* children of a claim drop and the prizes of giveaways are rows of the    *)
(* same table that the routes of the drop and the giveaway write too, and  *)
(* nothing is said of those here.                                          *)
(*                                                                         *)
(* A call is cut where the code awaits the database, the chain or the      *)
(* relay.  A payment is a transaction of its own.  The two reads of the    *)
(* chain in one resolution are one step.                                   *)
(***************************************************************************)
EXTENDS Integers, FiniteSets

CONSTANTS
  Outputs,    \* payments that can arrive at the funding address
  AmountOf,   \* their amounts
  Planned,    \* the amount registered with the link
  Floor,      \* the least amount whose spend pays for itself
  Claimants,  \* whoever holds the claim code and signs a claim
  Users,      \* calls of creators, recipients and visitors under way at a time
  Workers,    \* passes of the return worker under way at a time
  Recheck,    \* RETURN_RECHECK_MS, in steps of the clock
  MaxFaults,  \* bound on failed calls, lost answers and dropped transactions
  NULL

ASSUME LinkAssumption ==
  /\ AmountOf \in [Outputs -> Nat]
  /\ Planned \in Nat /\ Floor \in Nat /\ MaxFaults \in Nat /\ Recheck \in Nat \ {0}
  /\ Users \cap Workers = {}
  /\ NULL \notin Outputs \cup Claimants

Handlers == Users \cup Workers

\* A claim is signed by one claimant; the refund of an output is the same
\* transaction whoever sends it.
ClaimTxs == [kind : {"claim"}, out : Outputs, by : Claimants]
RefundTxs == [kind : {"refund"}, out : Outputs, by : {NULL}]
Txs == ClaimTxs \cup RefundTxs

Open == {"awaiting_funding", "funded", "refundable"}
Closed == {"claimed", "refunded", "spent_unknown"}

\* The ClaimableLink row.  owned: creatorId is not null.  funding stands for
\* fundingTxId and fundingOutputIndex.
Row ==
  [version : {1, 2}, owned : BOOLEAN, amount : Nat, funding : Outputs \cup {NULL},
   claimTx : ClaimTxs \cup {NULL}, refundTx : RefundTxs \cup {NULL},
   status : Open \cup Closed, deleted : BOOLEAN]

\* A call: at names what it does next.  snap is the row it read, as far as it
\* is used later, and fresh that the row was not written since, which is what
\* the condition on updatedAt finds out.  todo: outputs still to be returned;
\* tx: transaction being sent; marks: whether it is to be recorded; status,
\* out: update to be written.
Call ==
  [at : {"submit", "mark", "touched", "return", "send", "record", "resolve",
         "resolve_stats", "write", "write_stats", "adopt", "remove", "cleanup"},
   snap : Row \cup {NULL}, fresh : BOOLEAN, todo : SUBSET Outputs, tx : Txs \cup {NULL},
   marks : BOOLEAN, status : Open \cup Closed, out : Outputs \cup {NULL}]

ASSUME NullAssumption == NULL \notin Row /\ NULL \notin Call /\ NULL \notin Txs

VARIABLES
  row,      \* the row, NULL once it is deleted for good
  expired,  \* whether the refund lock time has passed
  paid,     \* payments that have arrived
  pending,  \* transactions some node has and the chain has not accepted
  spentBy,  \* the accepted spend of each output
  call,     \* the calls under way
  age,      \* how long ago the row was written: updatedAt, up to Recheck
  faults,   \* failed calls, lost answers and dropped transactions so far
  dropped,  \* history: the outputs of whose spends the nodes forgot one
  lost      \* history: the row before the operator's page wrote over it

vars == <<row, expired, paid, pending, spentBy, call, age, faults, dropped, lost>>

TypeOK ==
  /\ row \in Row \cup {NULL}
  /\ expired \in BOOLEAN
  /\ paid \subseteq Outputs
  /\ pending \subseteq Txs
  /\ spentBy \in [Outputs -> Txs \cup {NULL}]
  /\ call \in [Handlers -> Call \cup {NULL}]
  /\ age \in 0 .. Recheck
  /\ faults \in 0 .. MaxFaults
  /\ dropped \subseteq Outputs
  /\ lost \in Row \cup {NULL}

\* Registration: links of the older script have a creator.
Init ==
  /\ \E v \in {1, 2}, o \in BOOLEAN :
       /\ v = 1 => o
       /\ row = [version |-> v, owned |-> o, amount |-> Planned, funding |-> NULL,
                 claimTx |-> NULL, refundTx |-> NULL, status |-> "awaiting_funding",
                 deleted |-> FALSE]
  /\ expired = FALSE /\ paid = {} /\ pending = {}
  /\ spentBy = [o \in Outputs |-> NULL]
  /\ call = [h \in Handlers |-> NULL]
  /\ age = 0 /\ faults = 0 /\ dropped = {} /\ lost = NULL

-----------------------------------------------------------------------------
(* The chain and whoever uses it without this server. *)

\* Links whose claim window is over, with a keyless return.
Overdue == row # NULL /\ row.version = 2 /\ row.status \in Open /\ expired

Unspent == {o \in paid : spentBy[o] = NULL}
Returnable == {o \in Unspent : AmountOf[o] >= Floor}
RefundOf(o) == [kind |-> "refund", out |-> o, by |-> NULL]

Tick ==
  /\ ~expired /\ expired' = TRUE
  /\ UNCHANGED <<row, paid, pending, spentBy, call, age, faults, dropped, lost>>

\* Only a worker asks how old a row is, when it begins a pass, and only of links it
\* may return: until then the clock need not move.
Age ==
  /\ Overdue /\ age < Recheck /\ \E w \in Workers : call[w] = NULL /\ age' = age + 1
  /\ UNCHANGED <<row, expired, paid, pending, spentBy, call, faults, dropped, lost>>

Pay(o) ==
  /\ row # NULL /\ o \notin paid /\ paid' = paid \cup {o}
  /\ UNCHANGED <<row, expired, pending, spentBy, call, age, faults, dropped, lost>>

\* A claim can be sent at any time, a refund or return after the lock time.
SendOutside(t) ==
  /\ t.out \in Unspent /\ t \notin pending
  /\ t.kind = "refund" => expired /\ AmountOf[t.out] >= Floor
  /\ pending' = pending \cup {t}
  /\ UNCHANGED <<row, expired, paid, spentBy, call, age, faults, dropped, lost>>

\* The chain accepts one spend of an output and drops the others.
Accept(t) ==
  /\ t \in pending
  /\ spentBy' = [spentBy EXCEPT ![t.out] = t]
  /\ pending' = {u \in pending : u.out # t.out}
  /\ UNCHANGED <<row, expired, paid, call, age, faults, dropped, lost>>

\* Every node that had the transaction forgets it.
Drop(t) ==
  /\ t \in pending /\ faults < MaxFaults
  /\ pending' = pending \ {t} /\ dropped' = dropped \cup {t.out} /\ faults' = faults + 1
  /\ UNCHANGED <<row, expired, paid, spentBy, call, age, lost>>

-----------------------------------------------------------------------------
(* Parts of calls. *)

Start(where) ==
  [at |-> where, snap |-> NULL, fresh |-> FALSE, todo |-> {}, tx |-> NULL,
   marks |-> FALSE, status |-> "awaiting_funding", out |-> NULL]

At(h, where) == call[h] # NULL /\ call[h].at = where
Free(h) == call[h] = NULL
Set(h, c) == call' = [call EXCEPT ![h] = c]

\* A write of the row sets updatedAt, ends the call h, or lets it go on as c, and
\* every other call that read the row before will find another updatedAt.
WriteThen(h, r, c) ==
  /\ row' = r /\ age' = 0
  /\ call' = [g \in Handlers |->
                IF g = h THEN c
                ELSE IF call[g] = NULL THEN NULL
                ELSE [call[g] EXCEPT !.fresh = FALSE]]

\* What resolveClaimableOnChain may find out about a row: a set of updates.
Resolved(r) ==
  IF r.status = "awaiting_funding" /\ r.funding = NULL
  THEN {[status |-> "funded", out |-> o] : o \in {p \in paid : AmountOf[p] = r.amount}}
  ELSE IF r.status \in Closed \/ r.funding = NULL \/ r.funding \notin paid THEN {}
  ELSE IF AmountOf[r.funding] # r.amount THEN {}
  ELSE IF spentBy[r.funding] # NULL
  THEN {[status |-> IF r.claimTx # NULL THEN "claimed"
                    ELSE IF r.refundTx # NULL THEN "refunded" ELSE "spent_unknown",
         out |-> NULL]}
  ELSE IF expired THEN {[status |-> "refundable", out |-> NULL]} ELSE {}

Updated(r, c) ==
  [r EXCEPT !.status = c.status, !.funding = IF c.out = NULL THEN @ ELSE c.out]

\* Mistake: the update names the row only.
SameRowById(c) == row # NULL

\* The condition of the guarded updates on a row that was read before.
SameRow(c) == row # NULL /\ c.fresh /\ row.status = c.snap.status /\ ~row.deleted

\* A call fails or its process dies; its writes so far stay.
Fail(h) ==
  /\ ~Free(h) /\ faults < MaxFaults
  /\ Set(h, NULL) /\ faults' = faults + 1
  /\ UNCHANGED <<row, expired, paid, pending, spentBy, age, dropped, lost>>

-----------------------------------------------------------------------------
(* Sending a transaction to the relay. *)

Unlocked(t) == t.kind = "refund" => expired

\* The relay's node takes the transaction, or says that it was already
\* accepted, which counts as success.
Taken(t) ==
  /\ Unlocked(t) /\ t.out \in paid
  /\ \/ spentBy[t.out] = NULL /\ pending' = pending \cup {t}
     \/ spentBy[t.out] = t /\ UNCHANGED pending

\* It is refused before the lock time, when the output is not there or is gone,
\* or when a node holds a spend of it.
Refuse(h) ==
  /\ At(h, "submit") \/ At(h, "send")
  /\ LET t == call[h].tx IN
       \/ ~Unlocked(t) \/ t.out \notin paid
       \/ spentBy[t.out] \notin {NULL, t}
       \/ \E u \in pending : u.out = t.out
  /\ Set(h, NULL)
  /\ UNCHANGED <<row, expired, paid, pending, spentBy, age, faults, dropped, lost>>

\* The transaction arrives and the answer does not.
LoseAnswer(h) ==
  /\ At(h, "submit") \/ At(h, "send")
  /\ Unlocked(call[h].tx) /\ call[h].tx.out \in Unspent
  /\ faults < MaxFaults /\ faults' = faults + 1
  /\ pending' = pending \cup {call[h].tx}
  /\ Set(h, NULL)
  /\ UNCHANGED <<row, expired, paid, spentBy, age, dropped, lost>>

-----------------------------------------------------------------------------
(* claimable-broadcast: signed claims and refunds. *)

Registered(r, o) == r.funding = NULL \/ r.funding = o

\* A refund of another amount or output is sent and never recorded.
Mismatched(r, t) == t.kind = "refund" /\ (AmountOf[t.out] # r.amount \/ ~Registered(r, t.out))

Broadcast(u, t) ==
  /\ Free(u) /\ row # NULL
  /\ t.kind = "claim" => AmountOf[t.out] = row.amount /\ ~expired
  /\ t.kind = "refund" => row.version = 1
  /\ row.status \in Open \/ Mismatched(row, t)
  /\ AmountOf[t.out] >= Floor
  /\ Registered(row, t.out) \/ Mismatched(row, t)
  /\ Set(u, [Start("submit") EXCEPT !.tx = t, !.marks = ~Mismatched(row, t)])
  /\ UNCHANGED <<row, expired, paid, pending, spentBy, age, faults, dropped, lost>>

\* Mistake: the link is closed before the relay has answered.
SubmitUnheard(u) ==
  /\ At(u, "submit")
  /\ Set(u, IF call[u].marks THEN [call[u] EXCEPT !.at = "mark"] ELSE NULL)
  /\ UNCHANGED <<row, expired, paid, pending, spentBy, age, faults, dropped, lost>>

Submit(u) ==
  /\ At(u, "submit") /\ Taken(call[u].tx)
  /\ Set(u, IF call[u].marks THEN [call[u] EXCEPT !.at = "mark"] ELSE NULL)
  /\ UNCHANGED <<row, expired, paid, spentBy, age, faults, dropped, lost>>

\* Mistake: the transaction is stored in the wrong column.
EndedBySwapped(t) ==
  IF t.kind = "claim"
  THEN [row EXCEPT !.status = "claimed", !.refundTx = t, !.funding = t.out]
  ELSE [row EXCEPT !.status = "refunded", !.refundTx = t, !.funding = t.out]

\* The link as it ends with a transaction.
EndedBy(t) ==
  IF t.kind = "claim"
  THEN [row EXCEPT !.status = "claimed", !.claimTx = t, !.funding = t.out]
  ELSE [row EXCEPT !.status = "refunded", !.refundTx = t, !.funding = t.out]

Markable == row # NULL /\ row.status \notin Closed

MarkBroadcasted(u) ==
  /\ At(u, "mark")
  /\ IF Markable
     THEN WriteThen(u, EndedBy(call[u].tx), NULL)
     ELSE Set(u, NULL) /\ UNCHANGED <<row, age>>
  /\ UNCHANGED <<expired, paid, pending, spentBy, faults, dropped, lost>>

-----------------------------------------------------------------------------
(* Keyless returns, by anyone or by the worker. *)

ReturnNow(u) ==
  /\ Free(u) /\ row # NULL /\ row.version = 2
  /\ Set(u, [Start("return") EXCEPT !.snap = row])
  /\ UNCHANGED <<row, expired, paid, pending, spentBy, age, faults, dropped, lost>>

\* Mistake: links that were removed from the list are left out.
DueListed == Overdue /\ age = Recheck /\ ~row.deleted

Due == Overdue /\ age = Recheck

\* updatedAt is written first, so that another pass leaves the row alone.
Touch(w) ==
  /\ Free(w) /\ Due
  /\ WriteThen(w, row, Start("touched"))
  /\ UNCHANGED <<expired, paid, pending, spentBy, faults, dropped, lost>>

TakeRow(w) ==
  /\ At(w, "touched")
  /\ Set(w, IF row = NULL THEN NULL ELSE [Start("return") EXCEPT !.snap = row])
  /\ UNCHANGED <<row, expired, paid, pending, spentBy, age, faults, dropped, lost>>

\* The registered output first, then the planned amount, then the others.
Rank(r, o) == IF o = r.funding THEN 0 ELSE IF AmountOf[o] = r.amount THEN 1 ELSE 2
Foremost(r, os) == {o \in os : \A p \in os : Rank(r, o) <= Rank(r, p)}

\* The call c with the outputs os left to return.
Returning(c, os) ==
  IF os = {} THEN {NULL}
  ELSE {[c EXCEPT !.at = "send", !.todo = os, !.tx = RefundOf(o)] : o \in Foremost(c.snap, os)}

ListUtxos(h) ==
  /\ At(h, "return")
  /\ \E c \in Returning([call[h] EXCEPT !.marks = call[h].snap.status \notin Closed],
                        IF expired THEN Returnable ELSE {}) : Set(h, c)
  /\ UNCHANGED <<row, expired, paid, pending, spentBy, age, faults, dropped, lost>>

\* The call c once its transaction is done with.
Continued(c) == Returning([c EXCEPT !.marks = FALSE], c.todo \ {c.tx.out})

SendReturn(h) ==
  /\ At(h, "send") /\ Taken(call[h].tx)
  /\ IF call[h].marks THEN Set(h, [call[h] EXCEPT !.at = "record"])
     ELSE \E c \in Continued(call[h]) : Set(h, c)
  /\ UNCHANGED <<row, expired, paid, spentBy, age, faults, dropped, lost>>

MarkReturned(h) ==
  /\ At(h, "record")
  /\ \E c \in Continued(call[h]) :
       IF Markable
       THEN WriteThen(h, EndedBy(call[h].tx), c)
       ELSE Set(h, c) /\ UNCHANGED <<row, age>>
  /\ UNCHANGED <<expired, paid, pending, spentBy, faults, dropped, lost>>

\* Anonymous links that were never funded are deleted a week after expiry, which
\* is not told from the time before.
Stale == row # NULL /\ ~row.owned /\ row.status = "awaiting_funding" /\ row.funding = NULL

FindStale(w) ==
  /\ Free(w) /\ Stale /\ row.version = 2 /\ expired /\ Unspent = {}
  /\ Set(w, Start("cleanup"))
  /\ UNCHANGED <<row, expired, paid, pending, spentBy, age, faults, dropped, lost>>

DeleteStale(w) ==
  /\ At(w, "cleanup")
  /\ IF Stale THEN WriteThen(w, NULL, NULL) ELSE Set(w, NULL) /\ UNCHANGED <<row, age>>
  /\ UNCHANGED <<expired, paid, pending, spentBy, faults, dropped, lost>>

-----------------------------------------------------------------------------
(* The creator's list and the operator's page bring the status up to date. *)

Refresh(u) ==
  /\ Free(u) /\ row # NULL /\ row.owned /\ ~row.deleted /\ row.status \in Open
  /\ Set(u, [Start("resolve") EXCEPT !.snap = row, !.fresh = TRUE])
  /\ UNCHANGED <<row, expired, paid, pending, spentBy, age, faults, dropped, lost>>

RefreshStats(u) ==
  /\ Free(u) /\ row # NULL /\ ~row.deleted /\ row.status \in Open
  /\ Set(u, [Start("resolve_stats") EXCEPT !.snap = row])
  /\ UNCHANGED <<row, expired, paid, pending, spentBy, age, faults, dropped, lost>>

Resolve(u) ==
  /\ At(u, "resolve") \/ At(u, "resolve_stats")
  /\ LET next == IF At(u, "resolve") THEN "write" ELSE "write_stats" IN
       \/ Resolved(call[u].snap) = {} /\ Set(u, NULL)
       \/ \E x \in Resolved(call[u].snap) :
            Set(u, [call[u] EXCEPT !.at = next, !.status = x.status, !.out = x.out])
  /\ UNCHANGED <<row, expired, paid, pending, spentBy, age, faults, dropped, lost>>

WriteStatus(u) ==
  /\ At(u, "write")
  /\ IF SameRow(call[u]) THEN WriteThen(u, Updated(row, call[u]), NULL)
     ELSE Set(u, NULL) /\ UNCHANGED <<row, age>>
  /\ UNCHANGED <<expired, paid, pending, spentBy, faults, dropped, lost>>

WriteStats(u) ==
  /\ At(u, "write_stats")
  /\ IF row # NULL THEN WriteThen(u, Updated(row, call[u]), NULL)
     ELSE Set(u, NULL) /\ UNCHANGED <<row, age>>
  /\ lost' = IF lost = NULL /\ row # NULL /\ row # call[u].snap THEN row ELSE lost
  /\ UNCHANGED <<expired, paid, pending, spentBy, faults, dropped>>

-----------------------------------------------------------------------------
(* The owner adopts a payment, takes over a link, or removes it. *)

Unfunded == row # NULL /\ ~row.deleted /\ row.status = "awaiting_funding" /\ row.funding = NULL

AdoptFunding(u, o) ==
  /\ Free(u) /\ Unfunded /\ row.owned
  /\ o \in Unspent /\ AmountOf[o] >= Floor
  /\ Set(u, [Start("adopt") EXCEPT !.out = o])
  /\ UNCHANGED <<row, expired, paid, pending, spentBy, age, faults, dropped, lost>>

\* Mistake: the amount stays the planned one.
AdoptedAsPlanned(o) == [row EXCEPT !.funding = o, !.status = "funded"]

Adopted(o) == [row EXCEPT !.amount = AmountOf[o], !.funding = o, !.status = "funded"]

WriteFunding(u) ==
  /\ At(u, "adopt")
  /\ IF Unfunded THEN WriteThen(u, Adopted(call[u].out), NULL)
     ELSE Set(u, NULL) /\ UNCHANGED <<row, age>>
  /\ UNCHANGED <<expired, paid, pending, spentBy, faults, dropped, lost>>

AdoptLink(u) ==
  /\ Free(u) /\ row # NULL /\ ~row.owned /\ ~row.deleted
  /\ WriteThen(u, [row EXCEPT !.owned = TRUE], NULL)
  /\ UNCHANGED <<expired, paid, pending, spentBy, faults, dropped, lost>>

\* Removing from the list is always possible; deleting asks the chain.
Removable(x) == x \in Closed \/ (x = "awaiting_funding" /\ row.funding = NULL)
Unmoved == [status |-> row.status, out |-> NULL]
Found == IF row.status \in Closed \/ Resolved(row) = {} THEN {Unmoved} ELSE Resolved(row)

Remove(u) ==
  /\ Free(u) /\ row # NULL /\ row.owned /\ ~row.deleted
  /\ \E x \in {Unmoved} \cup {y \in Found : Unspent = {} /\ Removable(y.status)} :
       Set(u, [Start("remove") EXCEPT !.snap = row, !.fresh = TRUE,
                                      !.status = x.status, !.out = x.out])
  /\ UNCHANGED <<row, expired, paid, pending, spentBy, age, faults, dropped, lost>>

WriteRemoved(u) ==
  /\ At(u, "remove")
  /\ IF SameRow(call[u])
     THEN WriteThen(u, [Updated(row, call[u]) EXCEPT !.deleted = TRUE], NULL)
     ELSE Set(u, NULL) /\ UNCHANGED <<row, age>>
  /\ UNCHANGED <<expired, paid, pending, spentBy, faults, dropped, lost>>

-----------------------------------------------------------------------------
Environment ==
  \/ Tick \/ Age
  \/ \E o \in Outputs : Pay(o)
  \/ \E t \in Txs : SendOutside(t) \/ Accept(t) \/ Drop(t)

UserNext(u) ==
  \/ \E t \in Txs : Broadcast(u, t)
  \/ \E o \in Outputs : AdoptFunding(u, o)
  \/ ReturnNow(u) \/ Refresh(u) \/ RefreshStats(u) \/ AdoptLink(u) \/ Remove(u)
  \/ Submit(u) \/ MarkBroadcasted(u) \/ Resolve(u) \/ WriteStatus(u) \/ WriteStats(u)
  \/ WriteFunding(u) \/ WriteRemoved(u)

WorkerNext(w) == Touch(w) \/ TakeRow(w) \/ FindStale(w) \/ DeleteStale(w)

ReturnNext(h) == ListUtxos(h) \/ SendReturn(h) \/ MarkReturned(h) \/ Refuse(h)

Next ==
  \/ Environment
  \/ \E u \in Users : UserNext(u)
  \/ \E w \in Workers : WorkerNext(w)
  \/ \E h \in Handlers : ReturnNext(h) \/ LoseAnswer(h) \/ Fail(h)

Spec == Init /\ [][Next]_vars

\* The worker is called about once a minute, time goes on, and what a node keeps
\* being sent is accepted in the end.
Fairness ==
  /\ WF_vars(Age)
  /\ \A w \in Workers : WF_vars(WorkerNext(w) \/ ReturnNext(w))
  /\ WF_vars(\E t \in Txs : Accept(t))

FairSpec == Spec /\ Fairness

-----------------------------------------------------------------------------
(* What the record promises, as long as the operator's page has not written  *)
(* over it: after that Record is the row as it was before.                   *)

Record == IF lost = NULL THEN row ELSE lost

L == INSTANCE LinkLifecycle WITH
       phase <- IF Record = NULL THEN "gone" ELSE Record.status,
       claim <- IF Record = NULL THEN NULL ELSE Record.claimTx,
       refund <- IF Record = NULL THEN NULL ELSE Record.refundTx

\* Broadcasts, returns, refreshes, adoptions and removals, each deciding on what
\* it read earlier, together take a link through its life once: it is never
\* ended twice or by two transactions, and never comes back.
FollowsLifecycle == L!Spec

\* What ended the link, if it is known, spends the recorded output, and that
\* output is spent, or a node has a spend of it or had one that every node
\* forgot: a link is not closed because of a call that failed, an answer that
\* did not come or a payment not seen yet.
ClosedIsSpent ==
  Record # NULL /\ Record.status \in Closed =>
    /\ Record.funding # NULL
    /\ Record.claimTx # NULL => Record.claimTx.out = Record.funding
    /\ Record.refundTx # NULL => Record.refundTx.out = Record.funding
    /\ \/ spentBy[Record.funding] # NULL
       \/ \E u \in pending : u.out = Record.funding
       \/ Record.funding \in dropped

\* An open link knows its funding output exactly if it is funded, and the output
\* carries the amount of the link, whether it was found or adopted: a claim is
\* checked against that amount.
FundingFits ==
  Record # NULL /\ Record.status \in Open =>
    /\ Record.status = "awaiting_funding" <=> Record.funding = NULL
    /\ Record.funding # NULL => Record.funding \in paid /\ AmountOf[Record.funding] = Record.amount

Unclaimed == Overdue /\ Returnable # {}

\* A list or the operator's page writes the status it found, which makes the row
\* young again.
Rewritten ==
  /\ age' < age
  /\ \E u \in Users : (At(u, "write") \/ At(u, "write_stats")) /\ call'[u] = NULL

\* What nobody claimed of an auto-return link goes back: as long as the link is
\* open after the claim window, its outputs do not stay where they are, even if
\* the creator removed it from the list.  The worker leaves a row alone that was
\* just written, and lists write "refundable" over "refundable": they must stop.
UnclaimedReturns ==
  \/ []<><<Rewritten>>_vars
  \/ Unclaimed ~> ~Unclaimed

\* "Terminal states never change again."
ClosedIsFinal ==
  [][row # NULL /\ row.status \in Closed => row' # NULL /\ row'.status = row.status]_vars
=============================================================================
