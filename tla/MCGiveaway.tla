------------------------------ MODULE MCGiveaway ------------------------------
(* A small instance of GiveawayProjection. *)
EXTENDS GiveawayProjection, TLC

CONSTANT a

OneShard == {1}
One == a :> 1

\* Bound: at most three blocks of the chain accept nothing of the family.
FewEmpty == Cardinality({h \in DOMAIN chain : chain[h].tx = None}) <= 3
Symmetric == Permutations(Entries) \cup Permutations(Workers)
===============================================================================
