--------------------------- MODULE LinkLifecycle ----------------------------
(***************************************************************************)
(* What the registry of claimable links promises about one link: it is     *)
(* funded at most once, becomes refundable only after that, and ends at    *)
(* most once, with the transaction that ended it unless nobody knows it.   *)
(* A link is forgotten only before it was funded.                          *)
(***************************************************************************)
CONSTANTS ClaimTxs, RefundTxs, NULL

VARIABLES
  phase,   \* status of the link, or "gone"
  claim,   \* the recorded claim transaction
  refund   \* the recorded refund transaction

Open == {"awaiting_funding", "funded", "refundable"}

Init == phase = "awaiting_funding" /\ claim = NULL /\ refund = NULL

Fund == phase = "awaiting_funding" /\ phase' = "funded" /\ UNCHANGED <<claim, refund>>

Expire == phase = "funded" /\ phase' = "refundable" /\ UNCHANGED <<claim, refund>>

Claim(t) == phase \in Open /\ phase' = "claimed" /\ claim' = t /\ UNCHANGED refund

Refund(t) == phase \in Open /\ phase' = "refunded" /\ refund' = t /\ UNCHANGED claim

LoseTrack ==
  phase \in {"funded", "refundable"} /\ phase' = "spent_unknown" /\ UNCHANGED <<claim, refund>>

Forget == phase = "awaiting_funding" /\ phase' = "gone" /\ UNCHANGED <<claim, refund>>

Next ==
  \/ Fund \/ Expire \/ LoseTrack \/ Forget
  \/ \E t \in ClaimTxs : Claim(t)
  \/ \E t \in RefundTxs : Refund(t)

Spec == Init /\ [][Next]_<<phase, claim, refund>>
=============================================================================
