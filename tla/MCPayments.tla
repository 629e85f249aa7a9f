----------------------------- MODULE MCPayments -----------------------------
(* Small instances of Payments for TLC. *)
EXTENDS Payments, TLC

CONSTANTS a1, a2, shop

\* A tip link whose payer chooses the amount and a fixed-amount link of the
\* same creator, paid at the same address.
MCRecipientOf == [a \in Actions |-> shop]
MCFixedAmount == [a \in Actions |-> IF a = a1 THEN 1 ELSE NULL]

\* Bounds.  Ids are used in ascending order; actions stay open; requests have
\* no notes; one expiry is under way at a time.
IdsInOrder == \A r \in Rows : \A s \in Requests : s < r => req[s] # NULL
AlwaysOpen == closed = {}
AllPlain == \A h \in Handlers : handler[h] # NULL => handler[h].plain
OneExpiry == Cardinality(expiring) + Cardinality(mockExpiring) <= 1

\* With every id in use a call that is not about to reuse a request can only
\* be given up: nothing it could still do is lost by leaving it out.
RoomForCalls ==
  (\A r \in Requests : req[r] # NULL) =>
    \A h \in Handlers : handler[h] # NULL =>
      \/ handler[h].pc = "ready" /\ Reusable(handler[h]) # {}
      \/ handler[h].pc = "inTx" /\ handler[h].reused
      \/ handler[h].pc = "audit"

Symmetric == Permutations(Clients) \cup Permutations(Handlers) \cup
             Permutations(Txs) \cup Permutations(Memos)
=============================================================================
