--------------------------- MODULE GiveawayFamily ---------------------------
(***************************************************************************)
(* The covenant family of one Giveaway V6: the prize and its entry shards  *)
(* as the contracts move them, and the reconstruction of the same history  *)
(* by the indexer.  The two are written apart, contract by contract and    *)
(* event by event, so that they can be compared.                           *)
(*                                                                         *)
(* A transaction stands for its identifier: it names what it spends and    *)
(* what its outputs commit to.  The tip of a shard is the sequence of the  *)
(* entries that led to it, as the roots of the contract commit to that     *)
(* sequence.  A block accepts one transaction of the family at most, and   *)
(* its height is its DAA score and its blue score.                         *)
(***************************************************************************)
EXTENDS Integers, Sequences, FiniteSets, SequencesExt

CONSTANTS
  Entries,   \* payout scripts that can be registered
  Shards,    \* 1 .. shardCount
  ShardOf,   \* the shard an entry's commitment falls into
  Capacity,  \* maxEntriesPerShard
  ClosesAt,  \* closesAtDaa
  Target,    \* entropyTargetBlueScore
  ReturnAt,  \* returnAtDaa
  None

ASSUME FamilyAssumption ==
  /\ IsFiniteSet(Shards) /\ Shards = 1 .. Cardinality(Shards)
  /\ ShardOf \in [Entries -> Shards]
  /\ Capacity \in Nat \ {0}
  /\ ClosesAt \in Nat \ {0} /\ Target \in Nat /\ ReturnAt \in Nat
  /\ ClosesAt < Target /\ Target < ReturnAt

Activation == [kind |-> "activate"]
Registration(e, tip) == [kind |-> "register", entry |-> e, on |-> tip]
Freezing(tips, counted) == [kind |-> "freeze", on |-> tips, counted |-> counted]
Drawing(frozen, winner, candidate) ==
  [kind |-> "draw", frozen |-> frozen, winner |-> winner, candidate |-> candidate]
Returning(frozen) == [kind |-> "return", frozen |-> frozen]

EntryLists == [Shards -> Seq(Entries)]
Freezings == [kind : {"freeze"}, on : EntryLists, counted : EntryLists]
Txs ==
  {Activation}
  \cup [kind : {"register"}, entry : Entries, on : Seq(Entries)]
  \cup Freezings
  \cup [kind : {"draw"}, frozen : Freezings, winner : Entries, candidate : Nat]
  \cup [kind : {"return"}, frozen : Freezings]

ASSUME NoneAssumption == None \notin Entries /\ None \notin Txs

\* The ordered list of all counted entries, shard after shard.
Listed(counted) == FlattenSeq([s \in Shards |-> counted[s]])

\* The entry that the candidate block selects.  The branch the block lies on
\* stands for its sequence commitment.
Selected(counted, candidate) ==
  LET list == Listed(counted) IN list[(candidate % Len(list)) + 1]

-----------------------------------------------------------------------------
(* The contracts.  A chain is the sequence of its blocks. *)

\* The unspent outputs.  since: score of the block that created a shard's tip,
\* known to the contract only when the tip is spent.
Unfunded == [prize |-> "bootstrap", frozen |-> None,
             shard |-> [s \in Shards |-> [tip |-> <<>>, since |-> 0]]]

\* The entries of a shard that take part: the last one only if it was accepted
\* by the closing score.
Eligible(u) == IF u.tip # <<>> /\ u.since > ClosesAt THEN Front(u.tip) ELSE u.tip

Tips(f) == [s \in Shards |-> f.shard[s].tip]
Counted(f) == [s \in Shards |-> Eligible(f.shard[s])]

MayRegister(f, e) ==
  LET u == f.shard[ShardOf[e]] IN
  /\ f.prize = "open"
  /\ Len(u.tip) < Capacity
  /\ ~Contains(u.tip, e)
  /\ u.tip # <<>> => u.since <= ClosesAt

MayFreeze(f, score) == f.prize = "open" /\ score >= ClosesAt

MayDraw(f, past) ==
  /\ f.prize = "frozen" /\ Listed(f.frozen.counted) # <<>>
  /\ Len(past) >= Target

MayReturn(f, score) ==
  /\ f.prize = "frozen"
  /\ score >= IF Listed(f.frozen.counted) = <<>> THEN ClosesAt ELSE ReturnAt

\* What the next block can accept on top of a chain.  A draw names the first
\* block at or above the target, whose proof no other block has.
Offers(f, past) ==
  LET score == Len(past) + 1 IN
  {t \in {Activation} : f.prize = "bootstrap" /\ past # <<>>}
  \cup {Registration(e, f.shard[ShardOf[e]].tip) : e \in {x \in Entries : MayRegister(f, x)}}
  \cup {Freezing(Tips(f), Counted(f)) : x \in {y \in {1} : MayFreeze(f, score)}}
  \cup {Drawing(f.frozen, Selected(f.frozen.counted, past[Target].fork), past[Target].fork)
          : x \in {y \in {1} : MayDraw(f, past)}}
  \cup {Returning(f.frozen) : x \in {y \in {1} : MayReturn(f, score)}}

Spend(f, t, score) ==
  CASE t.kind = "activate" -> [f EXCEPT !.prize = "open"]
    [] t.kind = "register" ->
         [f EXCEPT !.shard[ShardOf[t.entry]] =
            [tip |-> Append(t.on, t.entry), since |-> score]]
    [] t.kind = "freeze" -> [f EXCEPT !.prize = "frozen", !.frozen = t]
    [] OTHER -> [f EXCEPT !.prize = "spent"]

\* The unspent outputs of the family after a chain.
Outputs(past) ==
  LET after[n \in 0 .. Len(past)] ==
        IF n = 0 THEN Unfunded
        ELSE IF past[n].tx = None THEN after[n - 1]
        ELSE Spend(after[n - 1], past[n].tx, n)
  IN after[Len(past)]

-----------------------------------------------------------------------------
(* The reconstruction.  A transition is an accepted transaction with the   *)
(* block, given by height and branch, that accepted it.                    *)

Blank ==
  [phase |-> "awaiting_activation", frozen |-> None, winner |-> None,
   shard |-> [s \in Shards |->
     [finalized |-> <<>>, pending |-> None, registeredAt |-> 0, late |-> None, tip |-> <<>>]]]

Broken == [Blank EXCEPT !.phase = "broken"]

Finalized(s) ==
  IF s.pending = None THEN s.finalized ELSE Append(s.finalized, s.pending)

Activated(r, t) ==
  IF r.phase # "awaiting_activation" THEN Broken ELSE [r EXCEPT !.phase = "open"]

Registered(r, t, score) ==
  LET s == r.shard[ShardOf[t.entry]] IN
  IF \/ r.phase # "open"
     \/ t.on # s.tip
     \/ Len(Finalized(s)) >= Capacity
     \/ s.pending # None /\ s.registeredAt > ClosesAt
     \/ Contains(Finalized(s), t.entry)
  THEN Broken
  ELSE [r EXCEPT !.shard[ShardOf[t.entry]] =
          [s EXCEPT !.finalized = Finalized(s), !.pending = t.entry,
                    !.registeredAt = score, !.tip = Append(t.on, t.entry)]]

\* Mistake: an entry that came after the close takes part.
ClosedLate(s) == [s EXCEPT !.finalized = Finalized(s), !.pending = None]

Closed(s) ==
  [s EXCEPT !.finalized = IF s.registeredAt <= ClosesAt THEN Finalized(s) ELSE @,
            !.late = IF s.registeredAt > ClosesAt THEN s.pending ELSE @,
            !.pending = None]

Frozen(r, t, score) ==
  LET closed == [s \in Shards |-> Closed(r.shard[s])] IN
  IF \/ r.phase # "open" \/ score < ClosesAt
     \/ t.on # [s \in Shards |-> r.shard[s].tip]
     \/ t.counted # [s \in Shards |-> closed[s].finalized]
  THEN Broken
  ELSE [r EXCEPT !.phase = "frozen", !.frozen = t, !.shard = closed]

Lists(r) == [s \in Shards |-> r.shard[s].finalized]

Drawn(r, t) ==
  IF \/ r.phase # "frozen" \/ t.frozen # r.frozen \/ Listed(Lists(r)) = <<>>
     \/ t.winner # Selected(Lists(r), t.candidate)
  THEN Broken
  ELSE [r EXCEPT !.phase = "drawn", !.winner = t.winner]

Returned(r, t, score) ==
  IF \/ r.phase # "frozen" \/ t.frozen # r.frozen
     \/ score < IF Listed(Lists(r)) = <<>> THEN ClosesAt ELSE ReturnAt
  THEN Broken
  ELSE [r EXCEPT !.phase = "returned"]

Applied(r, t, score) ==
  CASE t.kind = "activate" -> Activated(r, t)
    [] t.kind = "register" -> Registered(r, t, score)
    [] t.kind = "freeze" -> Frozen(r, t, score)
    [] t.kind = "draw" -> Drawn(r, t)
    [] OTHER -> Returned(r, t, score)

\* Replays transitions in the order of the journal: branch after branch, block
\* after block.
Before(x, y) == x.at[2] < y.at[2] \/ (x.at[2] = y.at[2] /\ x.at[1] < y.at[1])

Reconstruct(transitions) ==
  LET last == Cardinality(transitions)
      nth(n) == CHOOSE x \in transitions :
                  Cardinality({y \in transitions : Before(y, x)}) = n - 1
      replay[n \in 0 .. last] ==
        IF n = 0 THEN Blank ELSE Applied(replay[n - 1], nth(n).tx, nth(n).at[1])
  IN replay[last]

Ended == {"drawn", "returned"}
=============================================================================
