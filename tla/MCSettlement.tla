----------------------------- MODULE MCSettlement -----------------------------
(* A small instance of GiveawaySettlement. *)
EXTENDS GiveawaySettlement, TLC

CONSTANT a

OneShard == {1}
One == a :> 1
===============================================================================
