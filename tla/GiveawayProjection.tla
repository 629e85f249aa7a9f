------------------------- MODULE GiveawayProjection -------------------------
(***************************************************************************)
(* The projection of one Giveaway V6: the journal that the workers keep of *)
(* the chain, and the row of the giveaway that follows the journal.        *)
(***************************************************************************)
EXTENDS GiveawayChain

CONSTANTS
  Workers,
  Faults,         \* codes with which a read of the chain can fail
  StorageFaults,  \* codes of the database with which the write can fail
  MaxFaults       \* bound: failed reads, failed writes and crashes

VARIABLES
  proj,       \* GiveawayV6Projection: cursor and journal, nextSyncAt, lastErrorCode
  row,        \* Giveaway: status and what the projection writes beside it
  worker,     \* syncDueGiveawayV6Projections under way
  faults

vars == <<chain, forks, deepest, proj, row, worker, faults>>

ASSUME ProjectionAssumption == MaxFaults \in Nat

\* Mistake: a malformed answer ends the synchronization.
RetriedRpcOnly == {"VSPC_RPC_ERROR"}

Retried == {"VSPC_RPC_ERROR", "VSPC_PARSE_ERROR"}

Init ==
  /\ chain = Anchor /\ forks = 0 /\ deepest = 0
  /\ proj = [cursor |-> Anchor, trans |-> {}, next |-> "due", error |-> "none"]
  /\ row = [status |-> "OPEN", winner |-> None, counted |-> None]
  /\ worker = [w \in Workers |-> [pc |-> "idle", fresh |-> FALSE,
                                  cursor |-> <<>>, trans |-> {}, error |-> "none"]]
  /\ faults = 0

-----------------------------------------------------------------------------
Mine == Grow /\ UNCHANGED <<proj, row, worker, faults>>

Reorganize(n) == Switch(n) /\ UNCHANGED <<proj, row, worker, faults>>

-----------------------------------------------------------------------------
(* The workers. *)

\* The time in nextSyncAt comes: of the next look at the chain, of a retry, or
\* of the end of a lease.
Due ==
  /\ proj.next = "later"
  /\ proj' = [proj EXCEPT !.next = "due"]
  /\ UNCHANGED <<chain, forks, deepest, row, worker, faults>>

Rest(w) ==
  [worker EXCEPT ![w] = [pc |-> "idle", fresh |-> FALSE, cursor |-> <<>>,
                         trans |-> {}, error |-> "none"]]

\* A write that bumps syncRevision: nobody else's read is current any more.
Bumped(w) == [x \in Workers |-> [Rest(w)[x] EXCEPT !.fresh = FALSE]]

Find(w) ==
  /\ worker[w].pc = "idle"
  /\ proj.next = "due"
  /\ Reconstruct(proj.trans).phase \notin Ended
  /\ worker' = [worker EXCEPT ![w] = [pc |-> "found", fresh |-> TRUE, error |-> "none",
                                      cursor |-> proj.cursor, trans |-> proj.trans]]
  /\ UNCHANGED <<chain, forks, deepest, proj, row, faults>>

\* The lease of two minutes is the claim of whoever still sees the projection due.
Claim(w) ==
  /\ worker[w].pc = "found"
  /\ IF worker[w].fresh /\ proj.next = "due"
     THEN /\ proj' = [proj EXCEPT !.next = "later"]
          /\ worker' = [worker EXCEPT ![w].pc = "claimed"]
     ELSE worker' = Rest(w) /\ UNCHANGED proj
  /\ UNCHANGED <<chain, forks, deepest, row, faults>>

Read(w) ==
  /\ worker[w].pc = "claimed"
  /\ \E f \in 0 .. Len(worker[w].cursor) :
       LET cursor == worker[w].cursor
           trans == worker[w].trans
           error == PageError(f, cursor, trans)
       IN /\ ForkAt(f, cursor)
          /\ worker' = IF error = "none"
               THEN [worker EXCEPT ![w].pc = "ready",
                                   ![w].cursor = SubSeq(chain, 1, Reach(f)),
                                   ![w].trans = Advanced(f, cursor, trans)]
               ELSE [worker EXCEPT ![w].pc = "failed", ![w].error = error]
  /\ UNCHANGED <<chain, forks, deepest, proj, row, faults>>

\* The relay or its answer fails the read, or the database the transaction that
\* writes: what is thrown goes to recordFailure with its code.
CallFails(w, code) ==
  /\ \/ worker[w].pc = "claimed" /\ code \in Faults
     \/ worker[w].pc = "ready" /\ code \in StorageFaults
  /\ faults < MaxFaults
  /\ faults' = faults + 1
  /\ worker' = [worker EXCEPT ![w].pc = "failed", ![w].error = code]
  /\ UNCHANGED <<chain, forks, deepest, proj, row>>

\* Mistake: the phase is taken for the status.
RowAfterPhase(before, r) ==
  IF r.phase = "returned" THEN [row EXCEPT !.status = "RETURNED"] ELSE row

\* What one page writes to the giveaway: nothing for an open one, nor for one
\* that was frozen before.
RowAfter(before, r) ==
  CASE r.phase = "drawn" ->
         [status |-> "DRAWN", winner |-> r.winner, counted |-> r.frozen.counted]
    [] r.phase = "returned" ->
         [row EXCEPT !.status = IF Listed(r.frozen.counted) = <<>> THEN "NO_ENTRIES"
                                                                   ELSE "CANCELLED",
                     !.counted = r.frozen.counted]
    [] r.phase = "frozen" /\ before # "frozen" -> [row EXCEPT !.counted = r.frozen.counted]
    [] OTHER -> row

\* Mistake: the write does not look at syncRevision.
PersistAnyRevision(w) ==
  /\ worker[w].pc = "ready"
  /\ LET r == Reconstruct(worker[w].trans) IN
     /\ proj' = [cursor |-> worker[w].cursor, trans |-> worker[w].trans,
                 next |-> IF r.phase \in Ended THEN "never" ELSE "later", error |-> "none"]
     /\ row' = RowAfter(Reconstruct(proj.trans).phase, r)
  /\ worker' = Bumped(w)
  /\ UNCHANGED <<chain, forks, deepest, faults>>

\* The guarded write of the journal and of the giveaway, in one transaction.
Persist(w) ==
  /\ worker[w].pc = "ready"
  /\ IF worker[w].fresh
     THEN LET r == Reconstruct(worker[w].trans) IN
          /\ proj' = [cursor |-> worker[w].cursor, trans |-> worker[w].trans,
                      next |-> IF r.phase \in Ended THEN "never" ELSE "later",
                      error |-> "none"]
          /\ row' = RowAfter(Reconstruct(proj.trans).phase, r)
          /\ worker' = Bumped(w)
     ELSE worker' = Rest(w) /\ UNCHANGED <<proj, row>>
  /\ UNCHANGED <<chain, forks, deepest, faults>>

RecordFailure(w) ==
  /\ worker[w].pc = "failed"
  /\ IF worker[w].fresh
     THEN /\ proj' = [proj EXCEPT !.error = worker[w].error,
                        !.next = IF worker[w].error \in Retried THEN "later" ELSE "never"]
          /\ worker' = Bumped(w)
     ELSE worker' = Rest(w) /\ UNCHANGED proj
  /\ UNCHANGED <<chain, forks, deepest, row, faults>>

\* The process ends, or a statement fails that nothing catches: the ones of find,
\* claim and recordFailure.
Crash(w) ==
  /\ worker[w].pc # "idle"
  /\ faults < MaxFaults
  /\ faults' = faults + 1
  /\ worker' = Rest(w)
  /\ UNCHANGED <<chain, forks, deepest, proj, row>>

-----------------------------------------------------------------------------
Work(w) == Find(w) \/ Claim(w) \/ Read(w) \/ Persist(w) \/ RecordFailure(w)

Next ==
  \/ Mine
  \/ \E n \in 1 .. MaxDepth : Reorganize(n)
  \/ Due
  \/ \E w \in Workers : Work(w) \/ Crash(w) \/ \E code \in Faults \cup StorageFaults : CallFails(w, code)

Spec == Init /\ [][Next]_vars

-----------------------------------------------------------------------------
Codes == {"none", "RESET_REQUIRED", "INVALID_TRANSITION"} \cup Faults \cup StorageFaults

Blocks == [tx : {None} \cup Txs, fork : 0 .. MaxForks]

IsJournal(trans) ==
  \A x \in trans : x.at \in (1 .. MaxScore) \X (0 .. MaxForks) /\ x.tx \in Txs

\* The shape of the projection, of its row and of what a worker keeps.
TypeOK ==
  /\ chain \in Seq(Blocks) /\ Len(chain) <= MaxScore
  /\ forks \in 0 .. MaxForks /\ deepest \in 0 .. MaxDepth
  /\ proj.cursor \in Seq(Blocks) /\ IsJournal(proj.trans)
  /\ proj.next \in {"due", "later", "never"} /\ proj.error \in Codes
  /\ row.status \in {"OPEN", "DRAWN", "NO_ENTRIES", "CANCELLED"}
  /\ row.winner \in {None} \cup Entries /\ row.counted \in {None} \cup EntryLists
  /\ \A w \in Workers :
       /\ worker[w].pc \in {"idle", "found", "claimed", "ready", "failed"}
       /\ worker[w].fresh \in BOOLEAN /\ worker[w].error \in Codes
       /\ worker[w].cursor \in Seq(Blocks) /\ IsJournal(worker[w].trans)
  /\ faults \in 0 .. MaxFaults

AnchorLost == chain = <<>> \/ chain[1] # proj.cursor[1]

\* The journal holds what the chain up to the cursor accepted of the family, and
\* nothing of a branch that was left, whatever order pages, workers and
\* reorganizations come in (advanceGiveawayV6Projection).
JournalIsExact == proj.trans = Transitions(proj.cursor)

\* What the indexer makes of the accepted transactions is what the contracts
\* enforced: the phase, the tips, who takes part and who won.  In particular no
\* accepted transaction is one that the reconstruction refuses.
ReconstructionMatchesContract ==
  LET r == Reconstruct(proj.trans)
      f == Outputs(proj.cursor)
  IN /\ f.prize = "bootstrap" <=> r.phase = "awaiting_activation"
     /\ f.prize = "open" <=> r.phase = "open"
     /\ f.prize = "frozen" <=> r.phase = "frozen"
     /\ f.prize = "spent" <=> r.phase \in Ended
     /\ f.prize = "open" =>
          \A s \in Shards : /\ r.shard[s].tip = f.shard[s].tip
                            /\ Closed(r.shard[s]).finalized = Eligible(f.shard[s])
     /\ f.frozen # None => r.frozen = f.frozen /\ Lists(r) = f.frozen.counted

\* The status of the giveaway ends with the projection, in the same way and with
\* the same winner, and not before it.
RowFollowsProjection ==
  LET r == Reconstruct(proj.trans) IN
  /\ row.status = "DRAWN" <=> r.phase = "drawn"
  /\ row.status = "DRAWN" => row.winner = r.winner
  /\ row.status \in {"NO_ENTRIES", "CANCELLED"} <=> r.phase = "returned"
  /\ row.status = "NO_ENTRIES" => Listed(r.frozen.counted) = <<>>
  /\ row.status = "CANCELLED" => Listed(r.frozen.counted) # <<>>

\* As long as no reorganization was deeper than the confirmations that a page
\* requires, the cursor lies on the selected chain.  The anchor itself is taken
\* without confirmations.
CursorStandsOnChain ==
  deepest <= Conf /\ ~AnchorLost => proj.cursor = SubSeq(chain, 1, Len(proj.cursor))

RelayCodes == {"VSPC_RPC_ERROR", "VSPC_PARSE_ERROR"}

\* Whatever blocks come and go and whatever the relay answers, the worker gives up on
\* a projection that has not ended only when the block that accepted the funding left
\* the chain, or when it was told so from outside: by a code that is not of the relay's
\* failures (the configuration, another network), or by a statement of the database
\* that failed once, which recordFailure does not tell from a fault of the journal.
\* No page of a chain that the contracts accepted is refused, and a malformed answer
\* is retried.
GivenUpForCause ==
  proj.next = "never" =>
    \/ Reconstruct(proj.trans).phase \in Ended
    \/ AnchorLost
    \/ proj.error \in (Faults \cup StorageFaults) \ RelayCodes

\* A write never takes the cursor back along its own branch: a worker that was
\* overtaken does not undo what another wrote.
NeverRewinds ==
  [][Len(proj'.cursor) < Len(proj.cursor)
       => proj'.cursor # SubSeq(proj.cursor, 1, Len(proj'.cursor))]_vars
=============================================================================
