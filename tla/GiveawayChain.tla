---------------------------- MODULE GiveawayChain ----------------------------
(***************************************************************************)
(* The chain that accepts the transactions of a Giveaway V6 family and     *)
(* reorganizes, and the page of it that a reader takes after its cursor.   *)
(*                                                                         *)
(* A block commits to its past, so the hash that the code keeps as its     *)
(* cursor is the chain up to that block.  forks numbers the branches.      *)
(* The anchor is the first block, which accepted the funding output.       *)
(***************************************************************************)
EXTENDS GiveawayFamily

CONSTANTS
  Conf,      \* confirmations that a page of the chain requires
  MaxScore,  \* bound: height of the chain
  MaxForks,  \* bound: reorganizations
  MaxDepth   \* bound: blocks dropped by one of them

VARIABLES
  chain,     \* the selected chain, a sequence of [tx, fork]
  forks,     \* reorganizations so far
  deepest    \* most blocks that one of them dropped

ASSUME ChainAssumption ==
  Conf \in Nat /\ MaxScore \in Nat \ {0} /\ MaxForks \in Nat /\ MaxDepth \in Nat

\* What the journal holds of a chain.
Transitions(past) ==
  {[at |-> <<h, past[h].fork>>, tx |-> past[h].tx] :
     h \in {n \in 1 .. Len(past) : past[n].tx # None}}

Anchor == <<[tx |-> None, fork |-> 0]>>

Extended(past, fork) ==
  {Append(past, [tx |-> t, fork |-> fork]) : t \in {None} \cup Offers(Outputs(past), past)}

Grow ==
  /\ Len(chain) < MaxScore
  /\ chain' \in Extended(chain, forks)
  /\ UNCHANGED <<forks, deepest>>

\* The last n blocks leave the selected chain for a branch that is longer: the chain
\* with the most blue work wins, and height stands for blue work and blue score alike.
\* (They part only when the difficulty changes across the branches.  Then a page may
\* remove a confirmed cursor and add no confirmed block yet, the third case of
\* PageError; here the longer branch always confirms one.)
Switch(n) ==
  /\ forks < MaxForks
  /\ n \in 1 .. Len(chain) /\ Len(chain) < MaxScore
  /\ LET grown[k \in 0 .. n + 1] ==
           IF k = 0 THEN {SubSeq(chain, 1, Len(chain) - n)}
           ELSE UNION {Extended(past, forks + 1) : past \in grown[k - 1]}
     IN \E branch \in grown[n + 1] :
          chain' = [h \in 1 .. Len(chain) + 1 |->
                      IF h <= Len(chain) - n THEN chain[h]
                      ELSE [tx |-> branch[h].tx, fork |-> forks + 1]]
  /\ forks' = forks + 1
  /\ deepest' = IF n > deepest THEN n ELSE deepest

\* The height up to which a cursor and the selected chain agree.
ForkAt(f, cursor) ==
  /\ f \in 0 .. Len(cursor) /\ f <= Len(chain)
  /\ SubSeq(cursor, 1, f) = SubSeq(chain, 1, f)
  /\ f < Len(cursor) /\ f < Len(chain) => cursor[f + 1] # chain[f + 1]

\* Mistake: a page goes up to the tip.
ReachTip(f) == IF Len(chain) > f THEN Len(chain) ELSE f

\* Height of the last block of a page: confirmed, and above the fork.
Reach(f) == IF Len(chain) - Conf > f THEN Len(chain) - Conf ELSE f

Removed(f, cursor) == {<<h, cursor[h].fork>> : h \in (f + 1) .. Len(cursor)}

\* Mistake: what removed blocks had accepted stays in the journal.
KeptAll(f, cursor, trans) == trans

Kept(f, cursor, trans) == {x \in trans : x.at \notin Removed(f, cursor)}

\* A page that starts at the cursor, applied to the journal.
Advanced(f, cursor, trans) ==
  Kept(f, cursor, trans) \cup
  {x \in Transitions(SubSeq(chain, 1, Reach(f))) : x.at[1] > f}

PageError(f, cursor, trans) ==
  CASE f = 0 -> "RESET_REQUIRED"
    [] f > 0 /\ Reconstruct(Kept(f, cursor, trans)).phase = "broken" -> "RESET_REQUIRED"
    [] f > 0 /\ Reach(f) = f /\ f < Len(cursor) -> "RESET_REQUIRED"
    [] f > 0 /\ Reconstruct(Advanced(f, cursor, trans)).phase = "broken" -> "INVALID_TRANSITION"
    [] OTHER -> "none"

=============================================================================
