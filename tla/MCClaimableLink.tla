-------------------------- MODULE MCClaimableLink ---------------------------
(* Small instances of ClaimableLink. *)
EXTENDS ClaimableLink

CONSTANTS o1, o2

\* The planned amount and a larger payment.
TwoAmounts == [o \in Outputs |-> IF o = o1 THEN 1 ELSE 2]

\* Nothing is asked of a link once the operator's page has written over it.
NotLost == lost = NULL
=============================================================================
