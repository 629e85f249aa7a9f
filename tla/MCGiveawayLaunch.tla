--------------------------- MODULE MCGiveawayLaunch ---------------------------
(* A small instance of GiveawayLaunch: both payments are for one giveaway, the *)
(* other one shares its slot.                                                  *)
EXTENDS GiveawayLaunch, TLC

CONSTANTS g1, g2, alice, bob

BothForOne == [o \in Outputs |-> g1]
OneEach == [g \in Giveaways |-> IF g = g1 THEN alice ELSE bob]

\* Bound.  Giveaways are created before the first of them is paid or looked at:
\* what follows reads nothing of a call but the row that it stored.
CreatedFirst ==
  (\E g \in Giveaways : call[g] # NoCall) => blocks = 0 /\ \A a \in Actors : actor[a] = Idle
===============================================================================
