-------------------------- MODULE GiveawaySettlement --------------------------
(***************************************************************************)
(* The settlement of one Giveaway V6: the entries that the site relays,    *)
(* the executors that freeze, draw or return the prize without a key, the  *)
(* deliveries they plan and submit, and the prover they ask for a draw.    *)
(*                                                                         *)
(* The projection is taken as its cursor and advances in one step: its     *)
(* journal is what the chain up to the cursor holds (JournalIsExact).      *)
(***************************************************************************)
EXTENDS GiveawayChain

CONSTANTS
  Executors,
  MaxFaults,   \* bound: crashes, failed calls and transactions that the relay loses
  MaxRestarts  \* bound: finished proofs that the prover forgets

VARIABLES
  cursor,      \* GiveawayV6Projection: the chain up to its cursor
  sent,        \* transactions that the relay took
  exec,        \* executionNextAt, and once that is null executionLastErrorCode
  delivery,    \* GiveawayV6TransitionDelivery, by transaction
  executor,    \* executeDueGiveawayV6Settlements under way
  proof,       \* the job of the prover for the draw slot
  faults

vars == <<chain, forks, deepest, cursor, sent, exec, delivery, executor, proof, faults>>
family == <<chain, forks, deepest, cursor>>

ASSUME SettlementAssumption == MaxFaults \in Nat /\ MaxRestarts \in Nat

Opened == Append(Anchor, [tx |-> Activation, fork |-> 0])

Idle == [pc |-> "idle", fresh |-> FALSE, past |-> <<>>, plan |-> None, code |-> "none"]

Init ==
  /\ chain = Opened /\ forks = 0 /\ deepest = 0
  /\ cursor = Opened
  /\ sent = {Activation}
  /\ exec = "due"
  /\ delivery = <<>>
  /\ executor = [x \in Executors |-> Idle]
  /\ proof = [status |-> "none", candidate |-> 0, run |-> 0]
  /\ faults = 0

\* What restoreGiveawayV6Projection makes of the journal of one chain, which
\* holds the transactions in the order of their blocks.  (A set of one state:
\* TLC evaluates its element once.)
Snapshot(past) ==
  LET replay[n \in 0 .. Len(past)] ==
        IF n = 0 THEN {Blank}
        ELSE IF past[n].tx = None THEN replay[n - 1]
        ELSE {Applied(r, past[n].tx, n) : r \in replay[n - 1]}
  IN CHOOSE r \in replay[Len(past)] : TRUE

\* What the next block can accept of the transactions that the relay holds.
Ready == sent \cap Offers(Outputs(chain), chain)

-----------------------------------------------------------------------------
(* The chain, the relay and the projection. *)

Known(t) == t = None \/ t \in sent

Mine ==
  /\ UNCHANGED <<cursor, sent, exec, delivery, executor, proof, faults>>
  /\ Grow /\ Known(chain'[Len(chain')].tx)

Reorganize(n) ==
  /\ Switch(n)
  /\ \A h \in Len(chain) - n + 1 .. Len(chain') : Known(chain'[h].tx)
  /\ UNCHANGED <<cursor, sent, exec, delivery, executor, proof, faults>>

\* syncOne, whose steps are those of GiveawayProjection.  The reconstruction
\* refuses nothing that the contracts accepted (ReconstructionMatchesContract).
Sync ==
  /\ UNCHANGED <<chain, forks, deepest, sent, exec, delivery, executor, proof, faults>>
  /\ \E f \in 1 .. Len(cursor) :
       /\ ForkAt(f, cursor)
       /\ Reach(f) > f \/ f = Len(cursor)
       /\ cursor' = SubSeq(chain, 1, Reach(f))
  /\ Snapshot(cursor).phase \notin Ended

\* The relay loses a transaction that no block has accepted.
Lose(t) ==
  /\ t \in sent /\ \A h \in DOMAIN chain : chain[h].tx # t
  /\ faults < MaxFaults /\ faults' = faults + 1
  /\ sent' = sent \ {t}
  /\ UNCHANGED <<chain, forks, deepest, cursor, exec, delivery, executor, proof>>

SpendsPrize(t) == t.kind \in {"freeze", "draw", "return"}

\* Two transactions that can both be mined next, but not both.
Conflict(t, u) ==
  \/ SpendsPrize(t) \/ SpendsPrize(u)
  \/ t.kind = "register" /\ u.kind = "register" /\ ShardOf[t.entry] = ShardOf[u.entry]

\* The relay takes what the next block can accept, the first of two that conflict,
\* and answers that it took what a block has accepted.
RelayTakes(t) ==
  \/ \E h \in DOMAIN chain : chain[h].tx = t
  \/ /\ t \in Offers(Outputs(chain), chain)
     /\ \A u \in Ready : ~Conflict(t, u)

\* An entry that can follow the tip of its shard.
Joins(s, e) ==
  /\ Len(Finalized(s)) < Capacity /\ ~Contains(Finalized(s), e)
  /\ s.pending # None => s.registeredAt <= ClosesAt

\* The keyless registration that the site prepares for a participant.
Prepared(s, e) == Registration(e, s.tip)

\* registerGiveawayV6
Enter(e) ==
  LET r == Snapshot(cursor)
      s == r.shard[ShardOf[e]]
      t == Prepared(s, e)
  IN /\ r.phase = "open"
     /\ Len(chain) < ClosesAt
     /\ Joins(s, e)
     /\ RelayTakes(t)
     /\ sent' = sent \cup {t}
     /\ UNCHANGED <<family, exec, delivery, executor, proof, faults>>

-----------------------------------------------------------------------------
(* The prover: one job for the target score, kept in memory. *)

ProofDone ==
  /\ proof.status = "pending" /\ Len(chain) >= Target
  /\ proof' = [status |-> "ready", candidate |-> chain[Target].fork, run |-> proof.run + 1]
  /\ UNCHANGED <<family, sent, exec, delivery, executor, faults>>

\* A job fails, its result grows older than a day, or the prover restarts.
ProofLost ==
  /\ proof.status # "none"
  /\ proof.status = "ready" => proof.run <= MaxRestarts
  /\ proof' = [proof EXCEPT !.status = "none"]
  /\ UNCHANGED <<family, sent, exec, delivery, executor, faults>>

-----------------------------------------------------------------------------
(* The executors. *)

\* The time in executionNextAt comes.
Due ==
  /\ exec = "later"
  /\ exec' = "due"
  /\ UNCHANGED <<family, sent, delivery, executor, proof, faults>>

\* SUBMISSION_RETRY_MS pass.
Age(t) ==
  /\ t \in DOMAIN delivery /\ delivery[t].submitted = "recently"
  /\ delivery' = [delivery EXCEPT ![t].submitted = "before"]
  /\ UNCHANGED <<family, sent, exec, executor, proof, faults>>

Find(x) ==
  /\ executor[x].pc = "idle" /\ exec = "due"
  /\ Snapshot(cursor).phase \in {"open", "frozen"}
  /\ executor' = [executor EXCEPT ![x] = [Idle EXCEPT !.pc = "found", !.fresh = TRUE,
                                                      !.past = cursor]]
  /\ UNCHANGED <<family, sent, exec, delivery, proof, faults>>

\* A claim bumps executionLeaseRevision: the reads and leases of others are void.
Claim(x) ==
  /\ executor[x].pc = "found"
  /\ IF executor[x].fresh /\ exec = "due"
     THEN /\ exec' = "later"
          /\ executor' = [y \in Executors |->
               IF y = x THEN [executor[x] EXCEPT !.pc = "claimed"]
               ELSE [executor[y] EXCEPT !.fresh = FALSE]]
     ELSE executor' = [executor EXCEPT ![x] = Idle] /\ UNCHANGED exec
  /\ UNCHANGED <<family, sent, delivery, proof, faults>>

\* Mistake: the plan of the last turn is kept.
ClosingWithPlan(x, code) ==
  [executor EXCEPT ![x] = [@ EXCEPT !.pc = "closing", !.code = code, !.past = <<>>]]

ClosingWith(x, code) ==
  [executor EXCEPT ![x] = [@ EXCEPT !.pc = "closing", !.code = code,
                                    !.past = <<>>, !.plan = None]]

HeightOf(past, kind) ==
  CHOOSE h \in DOMAIN past : past[h].tx # None /\ past[h].tx.kind = kind

\* The scores of the spent outputs are part of the prepared transaction, not of
\* its identifier.
FreezeScores(past) ==
  LET r == Snapshot(past) IN
  [s \in Shards |-> IF r.shard[s].pending # None THEN r.shard[s].registeredAt
                    ELSE HeightOf(past, "activate")]

FreezePreview(r) ==
  Freezing([s \in Shards |-> r.shard[s].tip], [s \in Shards |-> Closed(r.shard[s]).finalized])

FreezePlan(past) ==
  [tx |-> FreezePreview(Snapshot(past)), scores |-> FreezeScores(past), proof |-> 0]

ReturnPlan(past) ==
  [tx |-> Returning(Snapshot(past).frozen), scores |-> HeightOf(past, "freeze"), proof |-> 0]

DrawPlan(past) ==
  LET r == Snapshot(past) IN
  [tx |-> Drawing(r.frozen, Selected(Lists(r), proof.candidate), proof.candidate),
   scores |-> HeightOf(past, "freeze"), proof |-> proof.run]

MustReturn(past) ==
  Listed(Lists(Snapshot(past))) = <<>> \/ Len(past) >= ReturnAt

\* The identifier does not cover the proof that a draw carries.
Id(t) == IF t.kind = "draw" THEN [t EXCEPT !.candidate = 0] ELSE t

\* The deliveries with one for this plan.
Stored(id, plan) ==
  [t \in DOMAIN delivery \cup {id} |->
     IF t \in DOMAIN delivery THEN delivery[t] ELSE [plan |-> plan, submitted |-> "never"]]

\* Mistake: the plan is not stored before the relay is called.
DeliverUnsaved(x, plan) ==
  /\ executor' = [executor EXCEPT ![x] = [@ EXCEPT !.pc = "planned",
                                            !.past = <<>>, !.plan = plan.tx]]
  /\ UNCHANGED delivery

\* Mistake: what was submitted once is not submitted again.
DeliverOnce(x, plan) ==
  LET id == Id(plan.tx) IN
  IF id \in DOMAIN delivery /\ delivery[id].plan # plan
  THEN /\ executor' = ClosingWith(x, "DELIVERY_PLAN_MISMATCH")
       /\ UNCHANGED delivery
  ELSE /\ delivery' = Stored(id, plan)
       /\ executor' = IF delivery'[id].submitted # "never"
                      THEN ClosingWith(x, "none")
                      ELSE [executor EXCEPT ![x] = [@ EXCEPT !.pc = "planned",
                                                     !.past = <<>>, !.plan = plan.tx]]

\* Stores the plan, or takes the stored one if it is the same.
Deliver(x, plan) ==
  LET id == Id(plan.tx) IN
  IF id \in DOMAIN delivery /\ delivery[id].plan # plan
  THEN /\ executor' = ClosingWith(x, "DELIVERY_PLAN_MISMATCH")
       /\ UNCHANGED delivery
  ELSE /\ delivery' = Stored(id, plan)
       /\ executor' = IF delivery'[id].submitted = "recently"
                      THEN ClosingWith(x, "none")
                      ELSE [executor EXCEPT ![x] = [@ EXCEPT !.pc = "planned",
                                                     !.past = <<>>, !.plan = plan.tx]]

Freeze(x) ==
  /\ executor[x].pc = "claimed"
  /\ Snapshot(executor[x].past).phase = "open"
  /\ Len(executor[x].past) >= ClosesAt
  /\ Deliver(x, FreezePlan(executor[x].past))
  /\ UNCHANGED <<family, sent, exec, proof, faults>>

Return(x) ==
  /\ executor[x].pc = "claimed"
  /\ Snapshot(executor[x].past).phase = "frozen" /\ MustReturn(executor[x].past)
  /\ Deliver(x, ReturnPlan(executor[x].past))
  /\ UNCHANGED <<family, sent, exec, proof, faults>>

MayAsk(x) ==
  /\ executor[x].pc = "claimed"
  /\ Snapshot(executor[x].past).phase = "frozen" /\ ~MustReturn(executor[x].past)
  /\ Len(executor[x].past) >= Target

Draw(x) ==
  /\ MayAsk(x) /\ proof.status = "ready"
  /\ Deliver(x, DrawPlan(executor[x].past))
  /\ UNCHANGED <<family, sent, exec, proof, faults>>

\* The prover starts the job, or has not finished it.
AskProof(x) ==
  /\ MayAsk(x) /\ proof.status # "ready"
  /\ proof' = [proof EXCEPT !.status = "pending"]
  /\ executor' = ClosingWith(x, "PROOF_PENDING")
  /\ UNCHANGED <<family, sent, exec, delivery, faults>>

\* Too early to freeze or to draw.
Wait(x) ==
  /\ executor[x].pc = "claimed"
  /\ LET past == executor[x].past IN
     \/ Snapshot(past).phase = "open" /\ Len(past) < ClosesAt
     \/ Snapshot(past).phase = "frozen" /\ ~MustReturn(past) /\ Len(past) < Target
  /\ executor' = ClosingWith(x, "none")
  /\ UNCHANGED <<family, sent, exec, delivery, proof, faults>>

\* The codes of a failed call: of the relay, of the prover, of the database.
CallCodes == {"VSPC_RPC_ERROR", "PROVER_UNAVAILABLE", "P2034"}

\* Inside the try, the executor has a write before it: of the plan, of the delivery, or
\* of the outcome of its turn.
Writes(x) ==
  \/ executor[x].pc \in {"claimed", "planned", "taken"}
  \/ executor[x].pc = "closing"
     /\ executor[x].code \in {"none", "PROOF_PENDING", "SETTLEMENT_RELAY_REJECTED"}

\* The relay answers with an error, the prover does not answer, or a statement of the
\* database fails: all are caught, and the code decides whether there is a next turn.
CallFails(x, code) ==
  /\ \/ executor[x].pc = "claimed" /\ code = "VSPC_RPC_ERROR"
     \/ MayAsk(x) /\ code = "PROVER_UNAVAILABLE"
     \/ Writes(x) /\ code = "P2034"
  /\ faults < MaxFaults /\ faults' = faults + 1
  /\ executor' = ClosingWith(x, code)
  /\ UNCHANGED <<family, sent, exec, delivery, proof>>

Submit(x) ==
  /\ executor[x].pc = "planned"
  /\ LET t == executor[x].plan IN
     IF RelayTakes(t)
     THEN sent' = sent \cup {t} /\ executor' = [executor EXCEPT ![x].pc = "taken"]
     ELSE executor' = ClosingWith(x, "SETTLEMENT_RELAY_REJECTED") /\ UNCHANGED sent
  /\ UNCHANGED <<family, exec, delivery, proof, faults>>

\* The relay takes the transaction and its answer is lost.
SubmitUnheard(x) ==
  /\ executor[x].pc = "planned" /\ RelayTakes(executor[x].plan)
  /\ faults < MaxFaults /\ faults' = faults + 1
  /\ sent' = sent \cup {executor[x].plan}
  /\ executor' = ClosingWith(x, "SETTLEMENT_RELAY_REJECTED")
  /\ UNCHANGED <<family, exec, delivery, proof>>

Record(x) ==
  /\ executor[x].pc = "taken"
  /\ delivery' = [delivery EXCEPT ![Id(executor[x].plan)].submitted = "recently"]
  /\ executor' = ClosingWith(x, "none")
  /\ UNCHANGED <<family, sent, exec, proof, faults>>

Retryable ==
  {"PROJECTION_NOT_READY", "PROVER_NOT_CONFIGURED", "PROVER_UNAVAILABLE", "PROOF_PENDING",
   "SETTLEMENT_RELAY_REJECTED", "VSPC_PARSE_ERROR", "VSPC_RPC_ERROR"}

Close(x) ==
  /\ executor[x].pc = "closing"
  /\ exec' = IF ~executor[x].fresh THEN exec
             ELSE IF executor[x].code \in {"none"} \cup Retryable THEN "later"
             ELSE executor[x].code
  /\ executor' = [executor EXCEPT ![x] = Idle]
  /\ UNCHANGED <<family, sent, delivery, proof, faults>>

Crash(x) ==
  /\ executor[x].pc # "idle"
  /\ faults < MaxFaults /\ faults' = faults + 1
  /\ executor' = [executor EXCEPT ![x] = Idle]
  /\ UNCHANGED <<family, sent, exec, delivery, proof>>

-----------------------------------------------------------------------------
Work(x) ==
  \/ Find(x) \/ Claim(x)
  \/ Freeze(x) \/ Return(x) \/ Draw(x) \/ AskProof(x) \/ Wait(x)
  \/ Submit(x) \/ Record(x) \/ Close(x)

Next ==
  \/ Mine \/ Sync \/ Due \/ ProofDone \/ ProofLost
  \/ \E n \in 1 .. MaxDepth : Reorganize(n)
  \/ \E e \in Entries : Enter(e)
  \/ \E t \in sent : Lose(t)
  \/ \E t \in DOMAIN delivery : Age(t)
  \/ \E x \in Executors :
       \/ Work(x) \/ SubmitUnheard(x) \/ Crash(x)
       \/ \E code \in CallCodes : CallFails(x, code)

Spec == Init /\ [][Next]_vars

\* The chain grows, time passes, and the workers go on: tick runs the
\* synchronization and the executor again and again.  Nothing is assumed of the
\* prover, of miners who choose transactions, or of participants.
FairSpec ==
  /\ Spec
  /\ WF_vars(Mine) /\ WF_vars(Sync) /\ WF_vars(Due)
  /\ \A x \in Executors : WF_vars(Work(x))
  /\ WF_vars(\E t \in DOMAIN delivery : Age(t))

-----------------------------------------------------------------------------
Statuses == {"none", "pending", "ready"}
Submissions == {"never", "recently", "before"}
Pcs == {"idle", "found", "claimed", "planned", "taken", "closing"}
Final == {"DELIVERY_PLAN_MISMATCH", "P2034"}
Codes == {"none"} \cup Final \cup Retryable

\* The shape of what the executors, the prover and the relay keep.
TypeOK ==
  /\ exec \in {"due", "later"} \cup Final
  /\ proof.status \in Statuses /\ proof.run \in 0 .. MaxRestarts + 1
  /\ \A t \in DOMAIN delivery : /\ SpendsPrize(t) /\ Id(delivery[t].plan.tx) = t
                               /\ delivery[t].submitted \in Submissions
  /\ \A x \in Executors :
       /\ executor[x].pc \in Pcs /\ executor[x].code \in Codes
       /\ IF executor[x].pc \in {"planned", "taken"} THEN SpendsPrize(executor[x].plan)
          ELSE executor[x].plan = None
  /\ \A t \in sent : t.kind \in {"activate", "register", "freeze", "draw", "return"}
  /\ faults \in 0 .. MaxFaults

\* The executor never gives a giveaway up for good, whatever the prover forgets:
\* "restart-safe" executor, "idempotent" proof-job service.
SurvivesProverRestart == exec \notin {"due", "later"} => deepest > Conf

\* Each settlement that the relay or the chain holds was planned before: an
\* executor that crashed between the two finds what it may have submitted.
PlannedBeforeSent ==
  \A t \in sent \cup {chain[h].tx : h \in DOMAIN chain} :
    t # None /\ SpendsPrize(t) => Id(t) \in DOMAIN delivery

\* A winner is paid or the prize returned: in the end the giveaway is settled, or
\* the relay holds a transaction that the next block can accept, unless what
\* was accepted last is not confirmed.  Late entries, lost transactions, crashes,
\* failing calls of the relay and a prover that never answers do not prevent it.
\* Three things may, as the executor then gives up for good (retryable): a
\* reorganization deeper than the confirmations, a slot that is proved again, and one
\* failed statement of the database, whose code is not among the retried ones.
SettlementIsSubmitted ==
  <>[](\/ Snapshot(cursor).phase \in Ended
       \/ Ready # {}
       \/ Outputs(cursor) # Outputs(chain)
       \/ Outputs(chain).prize = "bootstrap"
       \/ deepest > Conf \/ proof.run > 1
       \/ exec = "P2034")
=============================================================================
