---------------------- MODULE GiveawaySettlementProofs ----------------------
(***************************************************************************)
(* The settlement of a Giveaway V6 for any number of executors, entries,   *)
(* faults and reorganizations: what is submitted was planned, and what is  *)
(* planned from current outputs is what the contracts accept.              *)
(***************************************************************************)
EXTENDS GiveawaySettlement, GiveawayChainProofs

Held == {"planned", "taken"}

\* What an executor keeps has its fields.
Locals(r) ==
  r \in [pc : {r.pc}, fresh : {r.fresh}, past : {r.past}, plan : {r.plan}, code : {r.code}]

\* Executors have their fields, and the chain is a sequence of blocks.
Shape ==
  /\ IsChain(chain)
  /\ executor = [x \in Executors |-> executor[x]]
  /\ \A x \in Executors : Locals(executor[x])

\* What an executor holds to submit, it has planned.
HoldsPlanned ==
  \A x \in Executors : executor[x].pc \in Held =>
    SpendsPrize(executor[x].plan) /\ Id(executor[x].plan) \in DOMAIN delivery

IInv == Shape /\ HoldsPlanned /\ PlannedBeforeSent

\* A prize transaction whose plan is stored.
IsPlanned(t) == t # None /\ SpendsPrize(t) => Id(t) \in DOMAIN delivery

LEMMA InitInvariant ==
  ASSUME Init
  PROVE  IInv
  <1>1. Opened = Append(Anchor, [tx |-> Activation, fork |-> 0])
    BY DEF Opened
  <1>2. IsChain(Opened) /\ \A h \in DOMAIN Opened : Opened[h].tx \in {None, Activation}
    <2>1. /\ IsChain(Opened) /\ Len(Opened) = 2
          /\ Opened[1] = Anchor[1] /\ Opened[2] = [tx |-> Activation, fork |-> 0]
      <3> DEFINE second == [tx |-> Activation, fork |-> 0]
      <3>1. /\ IsChain(Append(Anchor, second)) /\ Len(Append(Anchor, second)) = 2
            /\ Append(Anchor, second)[1] = Anchor[1] /\ Append(Anchor, second)[2] = second
        <4> HIDE DEF second
        <4>1. IsChain(Anchor) /\ Len(Anchor) = 1
          BY AnchorIsChain
        <4>2. /\ IsChain(Append(Anchor, second)) /\ Len(Append(Anchor, second)) = Len(Anchor) + 1
              /\ \A h \in 1 .. Len(Anchor) : Append(Anchor, second)[h] = Anchor[h]
              /\ Append(Anchor, second)[Len(Anchor) + 1] = second
          BY <4>1, AppendIsChain, Zenon
        <4> QED
          BY <4>1, <4>2
      <3> QED
        BY <1>1, <3>1
    <2> QED
      BY <2>1, AnchorIsChain DEF IsChain
  <1>3. ~SpendsPrize(Activation)
    BY DEF SpendsPrize, Activation
  <1>4. Shape
    BY <1>2 DEF Init, Shape, Locals, Idle
  <1>5. HoldsPlanned
    BY DEF Init, HoldsPlanned, Held, Idle
  <1>6. PlannedBeforeSent
    BY <1>2, <1>3 DEF Init, PlannedBeforeSent
  <1> QED
    BY <1>4, <1>5, <1>6 DEF IInv

\* New blocks hold what the relay took.
LEMMA ChainStep ==
  ASSUME IInv, IsChain(chain'), UNCHANGED <<sent, executor, delivery>>,
         \A h \in DOMAIN chain' : Known(chain'[h].tx) \/ (h \in DOMAIN chain /\ chain'[h] = chain[h])
  PROVE  IInv'
  <1> USE DEF IInv
  <1>1. Shape' /\ HoldsPlanned'
    BY DEF Shape, HoldsPlanned, Locals
  <1>2. ASSUME NEW h \in DOMAIN chain'
        PROVE  IsPlanned(chain'[h].tx)
    BY <1>2 DEF PlannedBeforeSent, Known, IsPlanned
  <1> QED
    BY <1>1, <1>2 DEF PlannedBeforeSent, IsPlanned, Id, SpendsPrize

LEMMA MineStep ==
  ASSUME IInv, Mine
  PROVE  IInv'
  <1>1. PICK x : chain' = Append(chain, x)
    BY DEF Mine, Grow, Extended
  <1>2. IsChain(chain)
    BY DEF IInv, Shape
  <1>3. /\ IsChain(chain') /\ Len(chain') = Len(chain) + 1
        /\ \A h \in 1 .. Len(chain) : chain'[h] = chain[h]
    BY <1>1, <1>2, AppendIsChain
  <1>4. DOMAIN chain = 1 .. Len(chain) /\ DOMAIN chain' = 1 .. Len(chain') /\ Len(chain) \in Nat
    BY <1>2, <1>3 DEF IsChain
  <1>5. \A h \in DOMAIN chain' : h = Len(chain') \/ (h \in DOMAIN chain /\ chain'[h] = chain[h])
    BY <1>3, <1>4
  <1> QED
    BY <1>3, <1>5, ChainStep DEF Mine

LEMMA ReorganizeStep ==
  ASSUME IInv, NEW n \in 1 .. MaxDepth, Reorganize(n)
  PROVE  IInv'
  <1> DEFINE last == Len(chain) + 1
  <1>1. IsChain(chain) /\ Len(chain) \in Nat /\ DOMAIN chain = 1 .. Len(chain)
        /\ n \in 1 .. Len(chain)
    BY DEF IInv, Shape, IsChain, Reorganize, Switch
  <1>2. /\ chain' = [h \in 1 .. last |-> chain'[h]]
        /\ \A h \in 1 .. last : h <= Len(chain) - n => chain'[h] = chain[h]
    BY <1>1 DEF Reorganize, Switch
  <1>3. IsChain(chain') /\ Len(chain') = last
    BY <1>1, <1>2, IntervalIsChain
  <1>4. ASSUME NEW h \in 1 .. last
        PROVE  Known(chain'[h].tx) \/ (h \in DOMAIN chain /\ chain'[h] = chain[h])
    <2>1. CASE h <= Len(chain) - n
      BY <1>1, <1>2, <2>1
    <2>2. CASE h > Len(chain) - n
      BY <1>1, <1>3, <2>2 DEF Reorganize
    <2> QED
      BY <1>1, <2>1, <2>2
  <1>5. DOMAIN chain' = 1 .. last
    BY <1>2
  <1> QED
    BY <1>3, <1>4, <1>5, ChainStep DEF Reorganize

\* A step that sends nothing new but what is planned or spends no prize, and
\* drops no plan.
LEMMA SendStep ==
  ASSUME IInv, Shape', HoldsPlanned', chain' = chain,
         DOMAIN delivery \subseteq DOMAIN delivery',
         \A t \in sent' : t \in sent \/ ~SpendsPrize(t) \/ Id(t) \in DOMAIN delivery'
  PROVE  IInv'
  BY DEF IInv, PlannedBeforeSent

\* A step of the relay or the participants, who plan nothing.
LEMMA RelayStep ==
  ASSUME IInv, UNCHANGED <<chain, executor, delivery>>,
         \A t \in sent' : t \in sent \/ ~SpendsPrize(t)
  PROVE  IInv'
  <1>1. Shape' /\ HoldsPlanned'
    BY DEF IInv, Shape, HoldsPlanned, Locals
  <1> QED
    BY <1>1, SendStep

\* What an executor becomes when its turn ends.
LEMMA Closing ==
  ASSUME Shape, NEW x \in Executors, NEW code
  PROVE  LET new == ClosingWith(x, code) IN
         /\ new = [y \in Executors |-> new[y]]
         /\ \A y \in Executors : Locals(new[y])
         /\ new[x].pc = "closing"
         /\ \A y \in Executors \ {x} : new[y] = executor[y]
  BY DEF Shape, Locals, ClosingWith

\* A step that ends the turn of an executor.
LEMMA ClosingStep ==
  ASSUME IInv, NEW x \in Executors, NEW code, executor' = ClosingWith(x, code),
         UNCHANGED <<chain, sent>>, DOMAIN delivery \subseteq DOMAIN delivery'
  PROVE  IInv'
  <1>1. Shape'
    BY Closing DEF IInv, Shape
  <1>2. HoldsPlanned'
    BY Closing DEF IInv, HoldsPlanned, Held
  <1> QED
    BY <1>1, <1>2, SendStep

\* A step after which an executor holds nothing to submit.
LEMMA EmptyStep ==
  ASSUME IInv, UNCHANGED <<chain, sent, delivery>>,
         executor' = [y \in Executors |-> executor'[y]],
         \A y \in Executors : Locals(executor'[y]),
         \A y \in Executors :
           \/ executor'[y].pc \notin Held
           \/ executor'[y].pc = executor[y].pc /\ executor'[y].plan = executor[y].plan
  PROVE  IInv'
  <1>1. Shape'
    BY DEF IInv, Shape, Locals
  <1>2. HoldsPlanned'
    BY DEF IInv, HoldsPlanned
  <1> QED
    BY <1>1, <1>2, SendStep

\* A plan is stored before an executor holds it.
LEMMA DeliverStep ==
  ASSUME IInv, NEW x \in Executors, NEW plan, SpendsPrize(plan.tx),
         Deliver(x, plan), UNCHANGED <<chain, sent>>
  PROVE  IInv'
  <1> DEFINE id == Id(plan.tx)
  <1> HIDE DEF id
  <1>1. CASE executor' = ClosingWith(x, "DELIVERY_PLAN_MISMATCH") /\ UNCHANGED delivery
    BY <1>1, ClosingStep
  <1>2. CASE /\ delivery' = Stored(id, plan)
             /\ \/ executor' = ClosingWith(x, "none")
                \/ executor' = [executor EXCEPT ![x] = [@ EXCEPT !.pc = "planned",
                                                   !.past = <<>>, !.plan = plan.tx]]
    <2>1. DOMAIN delivery' = DOMAIN delivery \cup {id}
      BY <1>2 DEF Stored
    <2>2. CASE executor' = ClosingWith(x, "none")
      BY <2>1, <2>2, ClosingStep
    <2>3. CASE executor' = [executor EXCEPT ![x] = [@ EXCEPT !.pc = "planned",
                                                  !.past = <<>>, !.plan = plan.tx]]
      <3>1. /\ executor' = [y \in Executors |-> executor'[y]]
            /\ \A y \in Executors : Locals(executor'[y])
            /\ executor'[x].plan = plan.tx
            /\ \A y \in Executors \ {x} : executor'[y] = executor[y]
        BY <2>3 DEF IInv, Shape, Locals
      <3>2. Shape'
        BY <3>1 DEF IInv, Shape
      <3>3. HoldsPlanned'
        BY <2>1, <3>1 DEF IInv, HoldsPlanned, id
      <3> QED
        BY <2>1, <3>2, <3>3, SendStep
    <2> QED
      BY <1>2, <2>2, <2>3
  <1> QED
    BY <1>1, <1>2 DEF Deliver, id

LEMMA PlanStep ==
  ASSUME IInv, NEW x \in Executors, Freeze(x) \/ Return(x) \/ Draw(x)
  PROVE  IInv'
  <1> USE DEF SpendsPrize, family
  <1>1. CASE Freeze(x)
    <2>1. SpendsPrize(FreezePlan(executor[x].past).tx)
      BY DEF FreezePlan, FreezePreview, Freezing
    <2> QED
      BY <1>1, <2>1, DeliverStep DEF Freeze
  <1>2. CASE Return(x)
    <2>1. SpendsPrize(ReturnPlan(executor[x].past).tx)
      BY DEF ReturnPlan, Returning
    <2> QED
      BY <1>2, <2>1, DeliverStep DEF Return
  <1>3. CASE Draw(x)
    <2>1. SpendsPrize(DrawPlan(executor[x].past).tx)
      BY DEF DrawPlan, Drawing
    <2> QED
      BY <1>3, <2>1, DeliverStep DEF Draw
  <1> QED
    BY <1>1, <1>2, <1>3

\* The relay gets what the executor holds.
LEMMA SubmitStep ==
  ASSUME IInv, NEW x \in Executors, Submit(x) \/ SubmitUnheard(x)
  PROVE  IInv'
  <1>1. executor[x].pc = "planned" /\ UNCHANGED <<chain, delivery>>
    BY DEF Submit, SubmitUnheard, family
  <1>2. SpendsPrize(executor[x].plan) /\ Id(executor[x].plan) \in DOMAIN delivery
    BY <1>1 DEF IInv, HoldsPlanned, Held
  <1>3. \A t \in sent' : t \in sent \/ Id(t) \in DOMAIN delivery'
    BY <1>1, <1>2 DEF Submit, SubmitUnheard
  <1>4. CASE executor' = ClosingWith(x, "SETTLEMENT_RELAY_REJECTED")
    <2>1. Shape'
      BY <1>1, <1>4, Closing DEF IInv, Shape
    <2>2. HoldsPlanned'
      BY <1>1, <1>4, Closing DEF IInv, HoldsPlanned, Held
    <2> QED
      BY <1>1, <1>3, <2>1, <2>2, SendStep
  <1>5. CASE executor' = [executor EXCEPT ![x].pc = "taken"]
    <2>1. /\ executor' = [y \in Executors |-> executor'[y]]
          /\ \A y \in Executors : Locals(executor'[y])
          /\ \A y \in Executors : executor'[y].plan = executor[y].plan
          /\ \A y \in Executors : executor'[y].pc \in Held => executor[y].pc \in Held
      BY <1>1, <1>5 DEF IInv, Shape, Locals, Held
    <2>2. Shape'
      BY <1>1, <2>1 DEF IInv, Shape
    <2>3. HoldsPlanned'
      BY <1>1, <2>1 DEF IInv, HoldsPlanned
    <2> QED
      BY <1>1, <1>3, <2>2, <2>3, SendStep
  <1> QED
    BY <1>4, <1>5 DEF Submit, SubmitUnheard

\* The other steps of an executor hold nothing new and submit nothing.
LEMMA TurnStep ==
  ASSUME IInv, NEW x \in Executors,
         \/ Find(x) \/ Claim(x) \/ AskProof(x) \/ Wait(x) \/ Record(x) \/ Close(x) \/ Crash(x)
         \/ \E code \in CallCodes : CallFails(x, code)
  PROVE  IInv'
  <1> USE DEF family
  <1>1. CASE Find(x)
    <2>1. /\ executor' = [y \in Executors |-> executor'[y]]
          /\ \A y \in Executors : Locals(executor'[y])
          /\ executor'[x].pc = "found"
          /\ \A y \in Executors \ {x} : executor'[y] = executor[y]
      BY <1>1 DEF Find, IInv, Shape, Locals, Idle
    <2> QED
      BY <1>1, <2>1, EmptyStep DEF Find, Held
  <1>2. CASE Claim(x)
    <2>1. /\ executor' = [y \in Executors |-> executor'[y]]
          /\ \A y \in Executors : Locals(executor'[y])
          /\ executor'[x].pc \in {"claimed", "idle"}
          /\ \A y \in Executors \ {x} :
               executor'[y].pc = executor[y].pc /\ executor'[y].plan = executor[y].plan
      <3>1. CASE executor' = [executor EXCEPT ![x] = Idle]
        BY <3>1 DEF IInv, Shape, Locals, Idle
      <3>2. CASE executor' = [y \in Executors |->
                    IF y = x THEN [executor[x] EXCEPT !.pc = "claimed"]
                    ELSE [executor[y] EXCEPT !.fresh = FALSE]]
        BY <3>2 DEF IInv, Shape, Locals
      <3> QED
        BY <1>2, <3>1, <3>2 DEF Claim
    <2> QED
      BY <1>2, <2>1, EmptyStep DEF Claim, Held
  <1>3. CASE AskProof(x)
    BY <1>3, ClosingStep DEF AskProof
  <1>4. CASE Wait(x)
    BY <1>4, ClosingStep DEF Wait
  <1>5. CASE Record(x)
    BY <1>5, ClosingStep DEF Record
  <1>6. CASE Close(x) \/ Crash(x)
    <2>1. /\ executor' = [y \in Executors |-> executor'[y]]
          /\ \A y \in Executors : Locals(executor'[y])
          /\ executor'[x].pc = "idle"
          /\ \A y \in Executors \ {x} : executor'[y] = executor[y]
      BY <1>6 DEF Close, Crash, IInv, Shape, Locals, Idle
    <2> QED
      BY <1>6, <2>1, EmptyStep DEF Close, Crash, Held
  <1>7. ASSUME NEW code \in CallCodes, CallFails(x, code)
        PROVE  IInv'
    BY <1>7, ClosingStep DEF CallFails
  <1> QED
    BY <1>1, <1>2, <1>3, <1>4, <1>5, <1>6, <1>7

LEMMA NextStep ==
  ASSUME IInv, [Next]_vars
  PROVE  IInv'
  <1> USE DEF family
  <1>1. CASE Mine
    BY <1>1, MineStep
  <1>2. ASSUME NEW n \in 1 .. MaxDepth, Reorganize(n)
        PROVE  IInv'
    BY <1>2, ReorganizeStep
  <1>3. CASE Sync \/ Due \/ ProofDone \/ ProofLost
    BY <1>3, RelayStep DEF Sync, Due, ProofDone, ProofLost
  <1>4. ASSUME NEW e \in Entries, Enter(e)
        PROVE  IInv'
    <2>1. \A s : ~SpendsPrize(Prepared(s, e))
      BY DEF SpendsPrize, Prepared, Registration
    <2> QED
      BY <1>4, <2>1, RelayStep DEF Enter
  <1>5. ASSUME NEW t \in sent, Lose(t)
        PROVE  IInv'
    BY <1>5, RelayStep DEF Lose
  <1>6. ASSUME NEW t \in DOMAIN delivery, Age(t)
        PROVE  IInv'
    <2>1. DOMAIN delivery' = DOMAIN delivery
      BY <1>6 DEF Age
    <2>2. Shape' /\ HoldsPlanned'
      BY <1>6, <2>1 DEF Age, IInv, Shape, HoldsPlanned, Locals
    <2> QED
      BY <1>6, <2>1, <2>2, SendStep DEF Age
  <1>7. ASSUME NEW x \in Executors, Work(x) \/ SubmitUnheard(x) \/ Crash(x)
        PROVE  IInv'
    BY <1>7, PlanStep, SubmitStep, TurnStep DEF Work
  <1>8. ASSUME NEW x \in Executors, NEW code \in CallCodes,
               CallFails(x, code)
        PROVE  IInv'
    BY <1>8, TurnStep
  <1>9. CASE UNCHANGED vars
    BY <1>9, RelayStep DEF vars
  <1> QED
    BY <1>1, <1>2, <1>3, <1>4, <1>5, <1>6, <1>7, <1>8, <1>9 DEF Next

-----------------------------------------------------------------------------
(* Types. *)

\* The prover ends no job again once it may forget no more.
ProofOK ==
  /\ proof \in [status : Statuses, candidate : {proof.candidate}, run : 0 .. MaxRestarts + 1]
  /\ proof.status # "ready" => proof.run <= MaxRestarts

\* A delivery is kept under the identifier of its plan.
DeliveryOK ==
  /\ delivery = [t \in DOMAIN delivery |-> delivery[t]]
  /\ \A t \in DOMAIN delivery :
       /\ delivery[t] \in [plan : {delivery[t].plan}, submitted : Submissions]
       /\ SpendsPrize(t) /\ Id(delivery[t].plan.tx) = t

\* An executor holds a plan only between Deliver and the end of its turn.
ExecutorOK(r) ==
  r.pc \in Pcs /\ r.code \in Codes /\ (r.pc \notin Held => r.plan = None)

SentOK == \A t \in sent : t.kind \in {"activate", "register", "freeze", "draw", "return"}

Types ==
  /\ exec \in {"due", "later"} \cup Final
  /\ ProofOK /\ DeliveryOK
  /\ \A x \in Executors : ExecutorOK(executor[x])
  /\ SentOK
  /\ faults \in 0 .. MaxFaults

LEMMA InitTypes ==
  ASSUME Init
  PROVE  Types
  <1> USE DEF Init
  <1>1. ProofOK
    BY SettlementAssumption DEF ProofOK, Statuses
  <1>2. DeliveryOK
    BY DEF DeliveryOK
  <1>3. \A x \in Executors : ExecutorOK(executor[x])
    BY DEF ExecutorOK, Idle, Pcs, Codes, Final, Held
  <1>4. SentOK
    BY DEF SentOK, Activation
  <1> QED
    BY <1>1, <1>2, <1>3, <1>4, SettlementAssumption DEF Types

LEMMA ProofTypes ==
  ASSUME Types, [Next]_vars
  PROVE  ProofOK'
  <1> USE SettlementAssumption DEF family, ProofOK, Statuses
  <1>1. CASE UNCHANGED proof
    BY <1>1 DEF Types
  <1>2. CASE ProofDone
    BY <1>2 DEF Types, ProofDone
  <1>3. CASE ProofLost
    BY <1>3 DEF Types, ProofLost
  <1>4. ASSUME NEW x \in Executors, AskProof(x)
        PROVE  ProofOK'
    BY <1>4 DEF Types, AskProof
  <1> QED
    BY <1>1, <1>2, <1>3, <1>4 DEF Next, vars, Work, Mine, Sync, Due, Reorganize, Enter, Lose, Age,
       Find, Claim, Freeze, Return, Draw, Wait, Submit, Record, Close, SubmitUnheard, Crash, CallFails

\* The three plans spend the prize, and so do their identifiers.
LEMMA PlansSpend ==
  ASSUME NEW past, NEW plan \in {FreezePlan(past), ReturnPlan(past), DrawPlan(past)}
  PROVE  SpendsPrize(plan.tx) /\ SpendsPrize(Id(plan.tx))
  <1>1. CASE plan = FreezePlan(past)
    BY <1>1 DEF SpendsPrize, Id, FreezePlan, FreezePreview, Freezing
  <1>2. CASE plan = ReturnPlan(past)
    BY <1>2 DEF SpendsPrize, Id, ReturnPlan, Returning
  <1>3. CASE plan = DrawPlan(past)
    BY <1>3 DEF SpendsPrize, Id, DrawPlan, Drawing
  <1> QED
    BY <1>1, <1>2, <1>3

\* The step that an executor's plan takes.
Plans(x, plan) ==
  plan \in {FreezePlan(executor[x].past), ReturnPlan(executor[x].past), DrawPlan(executor[x].past)}

LEMMA PlanIsDelivered ==
  ASSUME NEW x \in Executors, Freeze(x) \/ Return(x) \/ Draw(x)
  PROVE  /\ \E plan : Plans(x, plan) /\ Deliver(x, plan)
         /\ UNCHANGED <<sent, exec, proof, faults>>
  BY DEF Freeze, Return, Draw, Plans

LEMMA DeliveryTypes ==
  ASSUME IInv, Types, [Next]_vars
  PROVE  DeliveryOK'
  <1> USE DEF family
  <1>1. CASE UNCHANGED delivery
    BY <1>1 DEF Types, DeliveryOK
  <1>2. ASSUME NEW t \in DOMAIN delivery, NEW age \in Submissions,
               delivery' = [delivery EXCEPT ![t].submitted = age]
        PROVE  DeliveryOK'
    BY <1>2 DEF Types, DeliveryOK
  <1>3. ASSUME NEW t \in DOMAIN delivery, Age(t)
        PROVE  DeliveryOK'
    BY <1>2, <1>3 DEF Age, Submissions
  <1>4. ASSUME NEW x \in Executors, NEW plan, Plans(x, plan), Deliver(x, plan)
        PROVE  DeliveryOK'
    <2>1. SpendsPrize(Id(plan.tx))
      BY <1>4, PlansSpend DEF Plans
    <2>2. CASE delivery' = Stored(Id(plan.tx), plan)
      BY <2>1, <2>2 DEF Types, DeliveryOK, Stored, Submissions
    <2> QED
      BY <1>1, <1>4, <2>2 DEF Deliver
  <1>5. ASSUME NEW x \in Executors, Freeze(x) \/ Return(x) \/ Draw(x)
        PROVE  DeliveryOK'
    BY <1>4, <1>5, PlanIsDelivered
  <1>6. ASSUME NEW x \in Executors, Record(x)
        PROVE  DeliveryOK'
    <2>1. Id(executor[x].plan) \in DOMAIN delivery
      BY <1>6 DEF Record, IInv, HoldsPlanned, Held
    <2> QED
      BY <1>2, <1>6, <2>1 DEF Record, Submissions
  <1> QED
    BY <1>1, <1>3, <1>5, <1>6 DEF Next, vars, Work, Mine, Sync, Due, ProofDone, ProofLost,
       Reorganize, Enter, Lose, Find, Claim, AskProof, Wait, Submit, Close, SubmitUnheard,
       Crash, CallFails

\* One executor takes a step to a record of its type.
LEMMA OneExecutor ==
  ASSUME IInv, Types, NEW x \in Executors, ExecutorOK(executor'[x]),
         \A y \in Executors \ {x} :
           /\ executor'[y].pc = executor[y].pc
           /\ executor'[y].plan = executor[y].plan
           /\ executor'[y].code = executor[y].code
  PROVE  \A y \in Executors : ExecutorOK(executor'[y])
  BY DEF Types, ExecutorOK

LEMMA ClosingTypes ==
  ASSUME IInv, Types, NEW x \in Executors, NEW code \in Codes, executor' = ClosingWith(x, code)
  PROVE  \A y \in Executors : ExecutorOK(executor'[y])
  <1>1. ExecutorOK(executor'[x]) /\ \A y \in Executors \ {x} : executor'[y] = executor[y]
    BY DEF IInv, Shape, Locals, ClosingWith, ExecutorOK, Pcs, Held
  <1> QED
    BY <1>1, OneExecutor

LEMMA PlannedTypes ==
  ASSUME IInv, Types, NEW x \in Executors, NEW pc \in Held, NEW past, NEW plan,
         \/ executor' = [executor EXCEPT ![x] = [@ EXCEPT !.pc = pc, !.past = past, !.plan = plan]]
         \/ executor' = [executor EXCEPT ![x].pc = pc]
  PROVE  \A y \in Executors : ExecutorOK(executor'[y])
  <1>1. ExecutorOK(executor'[x]) /\ \A y \in Executors \ {x} : executor'[y] = executor[y]
    BY DEF Types, IInv, Shape, Locals, ExecutorOK, Pcs, Held
  <1> QED
    BY <1>1, OneExecutor

LEMMA ExecutorTypes ==
  ASSUME IInv, Types, [Next]_vars
  PROVE  \A y \in Executors : ExecutorOK(executor'[y])
  <1> DEFINE G == \A y \in Executors : ExecutorOK(executor'[y])
  <1> USE DEF family
  <1>1. CASE UNCHANGED executor
    BY <1>1 DEF Types
  <1>2. ASSUME NEW x \in Executors, Find(x) \/ Claim(x) \/ Close(x) \/ Crash(x)
        PROVE  G
    <2>1. ASSUME NEW r, r = Idle \/ r = [Idle EXCEPT !.pc = "found", !.fresh = TRUE,
                                                    !.past = cursor],
                 executor' = [executor EXCEPT ![x] = r]
          PROVE  G
      <3>1. r.pc \in {"idle", "found"} /\ r.code = "none" /\ r.plan = None
        <4>1. CASE r = Idle
          BY <4>1 DEF Idle
        <4>2. CASE r = [Idle EXCEPT !.pc = "found", !.fresh = TRUE, !.past = cursor]
          <5>1. r = [pc |-> "found", fresh |-> TRUE, past |-> cursor, plan |-> None,
                     code |-> "none"]
            BY <4>2 DEF Idle
          <5> QED
            BY <5>1
        <4> QED
          BY <2>1, <4>1, <4>2
      <3>3. ExecutorOK(r)
        BY <3>1 DEF ExecutorOK, Pcs, Codes, Final, Held
      <3>2. executor'[x] = r /\ \A y \in Executors \ {x} : executor'[y] = executor[y]
        BY <2>1 DEF IInv, Shape
      <3> QED
        BY <3>3, <3>2, OneExecutor
    <2>2. CASE Claim(x) /\ executor' = [y \in Executors |->
                 IF y = x THEN [executor[x] EXCEPT !.pc = "claimed"]
                 ELSE [executor[y] EXCEPT !.fresh = FALSE]]
      <3>1. ExecutorOK(executor'[x])
        BY <2>2 DEF Claim, Types, ExecutorOK, IInv, Shape, Locals, Pcs, Held
      <3>2. \A y \in Executors \ {x} :
              /\ executor'[y].pc = executor[y].pc
              /\ executor'[y].plan = executor[y].plan
              /\ executor'[y].code = executor[y].code
        BY <2>2 DEF IInv, Shape, Locals
      <3> QED
        BY <3>1, <3>2, OneExecutor
    <2> QED
      BY <1>2, <2>1, <2>2 DEF Find, Claim, Close, Crash
  <1>3. ASSUME NEW x \in Executors, AskProof(x) \/ Wait(x) \/ Record(x)
        PROVE  G
    BY <1>3, ClosingTypes DEF AskProof, Wait, Record, Codes, Final, Retryable
  <1>4. ASSUME NEW x \in Executors, NEW code \in CallCodes,
               CallFails(x, code)
        PROVE  G
    BY <1>4, ClosingTypes DEF CallFails, CallCodes, Codes, Final, Retryable
  <1>5. ASSUME NEW x \in Executors, Submit(x) \/ SubmitUnheard(x)
        PROVE  G
    <2>1. CASE executor' = ClosingWith(x, "SETTLEMENT_RELAY_REJECTED")
      BY <2>1, ClosingTypes DEF Codes, Final, Retryable
    <2>2. CASE executor' = [executor EXCEPT ![x].pc = "taken"]
      BY <2>2, PlannedTypes DEF Held
    <2> QED
      BY <1>5, <2>1, <2>2 DEF Submit, SubmitUnheard
  <1>6. ASSUME NEW x \in Executors, NEW plan, Deliver(x, plan)
        PROVE  G
    <2>1. CASE executor' = ClosingWith(x, "none") \/ executor' = ClosingWith(x, "DELIVERY_PLAN_MISMATCH")
      BY <2>1, ClosingTypes DEF Codes, Final
    <2>2. CASE executor' = [executor EXCEPT ![x] = [@ EXCEPT !.pc = "planned",
                                                   !.past = <<>>, !.plan = plan.tx]]
      BY <2>2, PlannedTypes DEF Held
    <2> QED
      BY <1>6, <2>1, <2>2 DEF Deliver
  <1>7. ASSUME NEW x \in Executors, Freeze(x) \/ Return(x) \/ Draw(x)
        PROVE  G
    BY <1>6, <1>7, PlanIsDelivered
  <1> QED
    BY <1>1, <1>2, <1>3, <1>4, <1>5, <1>7 DEF Next, vars, Work, Mine, Sync, Due, ProofDone,
       ProofLost, Reorganize, Enter, Lose, Age

LEMMA SentTypes ==
  ASSUME IInv, Types, [Next]_vars
  PROVE  SentOK'
  <1> USE DEF family
  <1>1. CASE sent' \subseteq sent
    BY <1>1 DEF Types, SentOK
  <1>2. ASSUME NEW e \in Entries, Enter(e)
        PROVE  SentOK'
    BY <1>2 DEF Types, SentOK, Enter, Prepared, Registration
  <1>3. ASSUME NEW x \in Executors, Submit(x) \/ SubmitUnheard(x)
        PROVE  SentOK'
    <2>1. SpendsPrize(executor[x].plan)
      BY <1>3 DEF Submit, SubmitUnheard, IInv, HoldsPlanned, Held
    <2> QED
      BY <1>3, <2>1 DEF Submit, SubmitUnheard, Types, SentOK, SpendsPrize
  <1>4. ASSUME NEW t \in sent, Lose(t)
        PROVE  sent' \subseteq sent
    BY <1>4 DEF Lose
  <1>5. ASSUME NEW x \in Executors, Freeze(x) \/ Return(x) \/ Draw(x)
        PROVE  sent' \subseteq sent
    BY <1>5, PlanIsDelivered
  <1> QED
    BY <1>1, <1>2, <1>3, <1>4, <1>5 DEF Next, vars, Work, Mine, Sync, Due, ProofDone, ProofLost,
       Reorganize, Age, Find, Claim, AskProof, Wait, Record, Close, Crash, CallFails

\* The schedule and the number of faults.
LEMMA CountTypes ==
  ASSUME Types, [Next]_vars
  PROVE  exec' \in {"due", "later"} \cup Final /\ faults' \in 0 .. MaxFaults
  <1> USE SettlementAssumption DEF family
  <1>1. CASE UNCHANGED <<exec, faults>>
    BY <1>1 DEF Types
  <1>2. CASE faults < MaxFaults /\ faults' = faults + 1 /\ exec' = exec
    BY <1>2 DEF Types
  <1>3. CASE faults' = faults /\ exec' \in {exec, "due", "later"} \cup Final
    BY <1>3 DEF Types
  <1>4. ASSUME NEW x \in Executors, Freeze(x) \/ Return(x) \/ Draw(x)
        PROVE  UNCHANGED <<exec, faults>>
    BY <1>4, PlanIsDelivered
  <1>5. ASSUME NEW x \in Executors, Close(x)
        PROVE  faults' = faults /\ exec' \in {exec, "due", "later"} \cup Final
    <2>1. executor[x].code \in {"none"} \cup Retryable \cup Final
      BY DEF Types, ExecutorOK, Codes
    <2> QED
      BY <1>5, <2>1 DEF Close
  <1> QED
    BY <1>1, <1>2, <1>3, <1>4, <1>5 DEF Next, vars, Work, Mine, Sync, Due, ProofDone, ProofLost,
       Reorganize, Enter, Lose, Age, Find, Claim, AskProof, Wait, Submit, SubmitUnheard, Record,
       Crash, CallFails

-----------------------------------------------------------------------------
(* The projection that executors and participants read. *)

\* g holds what the journal of each of the first n blocks restores.
Snapshots(past, n, g) ==
  g = [m \in 0 .. n |-> IF m = 0 THEN {Blank}
                        ELSE IF past[m].tx = None THEN g[m - 1]
                        ELSE {Applied(r, past[m].tx, m) : r \in g[m - 1]}]

LEMMA SnapshotsExist ==
  ASSUME NEW past, NEW n \in Nat
  PROVE  \E g : Snapshots(past, n, g)
  <1> DEFINE Step(v, m) == IF past[m].tx = None THEN v ELSE {Applied(r, past[m].tx, m) : r \in v}
             Fits(m, g) == g = [k \in 0 .. m |-> IF k = 0 THEN {Blank} ELSE Step(g[k - 1], k)]
             S == {m \in Nat : \E g : Fits(m, g)}
  <1> HIDE DEF Step
  <1>1. 0 \in S
    <2>1. Fits(0, [k \in 0 .. 0 |-> {Blank}])
      OBVIOUS
    <2> QED
      BY <2>1
  <1>2. ASSUME NEW m \in Nat, m \in S
        PROVE  m + 1 \in S
    <2>1. PICK g : Fits(m, g)
      BY <1>2
    <2> DEFINE h == [k \in 0 .. m + 1 |-> IF k = m + 1 THEN Step(g[m], m + 1) ELSE g[k]]
    <2>2. ASSUME NEW k \in 0 .. m + 1
          PROVE  h[k] = IF k = 0 THEN {Blank} ELSE Step(h[k - 1], k)
      <3>1. CASE k = m + 1
        <4>1. h[k] = Step(g[m], m + 1) /\ h[k - 1] = g[m] /\ k # 0
          BY <3>1
        <4> QED
          BY <3>1, <4>1
      <3>2. CASE k # m + 1
        <4>1. k \in 0 .. m /\ h[k] = g[k] /\ (k # 0 => h[k - 1] = g[k - 1])
          BY <3>2
        <4>2. g[k] = IF k = 0 THEN {Blank} ELSE Step(g[k - 1], k)
          BY <2>1, <4>1
        <4> QED
          BY <4>1, <4>2
      <3> QED
        BY <3>1, <3>2
    <2>3. Fits(m + 1, h)
      BY <2>2
    <2> HIDE DEF h
    <2> QED
      BY <2>3
  <1> HIDE DEF S
  <1>3. Nat \subseteq S
    BY <1>1, <1>2, SetInduction
  <1>4. PICK g : Fits(n, g)
    BY <1>3 DEF S
  <1>5. Snapshots(past, n, g)
    BY <1>4 DEF Snapshots, Step
  <1> QED
    BY <1>5

\* The journal of one chain restores what its transitions reconstruct.
LEMMA SnapshotIsReconstruction ==
  ASSUME NEW c, Legal(c)
  PROVE  Snapshot(c) = Reconstruct(Transitions(c))
  <1> DEFINE p(n) == SubSeq(c, 1, n)
             r(n) == Reconstruct(Transitions(p(n)))
             g == CHOOSE x : Snapshots(c, Len(c), x)
             S == {n \in Nat : n <= Len(c) => g[n] = {r(n)}}
  <1>1. IsChain(c) /\ Len(c) \in Nat
    BY DEF Legal, IsChain
  <1>2. Snapshots(c, Len(c), g)
    BY <1>1, SnapshotsExist
  <1>3. Snapshot(c) = CHOOSE x \in g[Len(c)] : TRUE
    BY DEF Snapshot, Snapshots
  <1> HIDE DEF g
  <1>4. 0 \in S
    <2>1. p(0) = <<>>
      BY <1>1, NoBlocks
    <2> HIDE DEF p
    <2>2. r(0) = Blank
      BY <2>1, EmptyIsChain, EmptyJournal
    <2>3. g[0] = {Blank}
      BY <1>1, <1>2 DEF Snapshots
    <2> QED
      BY <2>2, <2>3
  <1>5. ASSUME NEW n \in Nat, n \in S
        PROVE  n + 1 \in S
    <2> SUFFICES ASSUME n + 1 <= Len(c)
                 PROVE  g[n + 1] = {r(n + 1)}
      <3> HIDE DEF r
      <3> QED
        OBVIOUS
    <2> DEFINE t == c[n + 1].tx
    <2>1. g[n] = {r(n)}
      <3> HIDE DEF r
      <3> QED
        BY <1>1, <1>5
    <2>2. r(n + 1) = IF t = None THEN r(n) ELSE Applied(r(n), t, n + 1)
      BY OneBlockMore
    <2> HIDE DEF r
    <2>3. g[n + 1] = IF t = None THEN g[n] ELSE {Applied(q, t, n + 1) : q \in g[n]}
      <3>1. n + 1 \in 0 .. Len(c) /\ n + 1 # 0 /\ (n + 1) - 1 = n
        BY <1>1
      <3> QED
        BY <1>2, <3>1 DEF Snapshots
    <2> QED
      BY <2>1, <2>2, <2>3
  <1>6. Nat \subseteq S
    <2> HIDE DEF S
    <2> QED
      BY <1>4, <1>5, SetInduction
  <1>7. g[Len(c)] = {r(Len(c))}
    <2> HIDE DEF r
    <2> QED
      BY <1>1, <1>6
  <1>8. p(Len(c)) = c
    BY <1>1, WholePrefix
  <1> HIDE DEF p
  <1> QED
    BY <1>3, <1>7, <1>8

\* What a reader makes of a chain agrees with the outputs of the contracts.
LEMMA SnapshotAgrees ==
  ASSUME NEW c, Legal(c)
  PROVE  Agree(Outputs(c), Snapshot(c))
  BY SnapshotIsReconstruction, ReconstructionAgrees

-----------------------------------------------------------------------------
(* What the executors plan. *)

LEMMA SamePreview ==
  ASSUME NEW f, NEW r, Agree(f, r), f.prize = "open"
  PROVE  FreezePreview(r) = Freezing(Tips(f), Counted(f))
  <1>1. ASSUME NEW s \in Shards
        PROVE  r.shard[s].tip = f.shard[s].tip /\ Closed(r.shard[s]).finalized = Eligible(f.shard[s])
    <2> DEFINE u == f.shard[s]
               q == r.shard[s]
    <2>1. /\ u \in [tip : Seq(Entries), since : Nat]
          /\ q \in [finalized : Seq(Entries), pending : {None} \cup Entries,
                    registeredAt : Nat, late : {None} \cup Entries, tip : Seq(Entries)]
          /\ SameShard(u, q)
      BY DEF Agree, Families, Projections
    <2> HIDE DEF u, q
    <2>2. q.tip = u.tip /\ Closed(q).finalized = Eligible(u)
      BY <2>1, SameShardCloses DEF SameShard
    <2> QED
      BY <2>2 DEF u, q
  <1>2. /\ [s \in Shards |-> r.shard[s].tip] = Tips(f)
        /\ [s \in Shards |-> Closed(r.shard[s]).finalized] = Counted(f)
    BY <1>1 DEF Tips, Counted
  <1> QED
    BY <1>2 DEF FreezePreview

\* What an executor plans from a chain whose outputs are still those of the family,
\* the next block can accept.
Accepted(past) ==
  LET phase == Snapshot(past).phase
      offers == Offers(Outputs(chain), chain)
  IN /\ phase = "open" /\ Len(past) >= ClosesAt => FreezePlan(past).tx \in offers
     /\ phase = "frozen" /\ MustReturn(past) => ReturnPlan(past).tx \in offers
     /\ /\ phase = "frozen" /\ ~MustReturn(past) /\ Len(past) >= Target
        /\ proof.candidate = chain[Target].fork
        => DrawPlan(past).tx \in offers

LEMMA PlansAreAccepted ==
  ASSUME Legal(chain), NEW past, Legal(past), Len(past) <= Len(chain),
         Outputs(past) = Outputs(chain)
  PROVE  Accepted(past)
  <1> DEFINE f == Outputs(chain)
             r == Snapshot(past)
             offers == Offers(f, chain)
  <1>0. Agree(f, r)
    BY SnapshotAgrees
  <1>1. Len(past) \in Nat /\ Len(chain) \in Nat /\ ClosesAt \in Nat /\ Target \in Nat /\ ReturnAt \in Nat
    BY FamilyAssumption DEF Legal, IsChain
  <1>2. ASSUME r.phase = "frozen"
        PROVE  f.prize = "frozen" /\ r.frozen = f.frozen /\ Lists(r) = f.frozen.counted
    BY <1>0, <1>2 DEF Agree, SamePhase
  <1>3. f.prize = "frozen" => Len(past) >= ClosesAt
    BY FrozenIsLate
  <1> HIDE DEF f, r
  <1>4. ASSUME r.phase = "open", Len(past) >= ClosesAt
        PROVE  FreezePlan(past).tx \in offers
    <2>1. f.prize = "open"
      BY <1>0, <1>4 DEF Agree, SamePhase
    <2>2. FreezePlan(past).tx = Freezing(Tips(f), Counted(f))
      BY <1>0, <2>1, SamePreview DEF FreezePlan, r
    <2>3. MayFreeze(f, Len(chain) + 1)
      BY <1>1, <1>4, <2>1 DEF MayFreeze
    <2> QED
      BY <2>2, <2>3 DEF Offers
  <1>5. ASSUME r.phase = "frozen", MustReturn(past)
        PROVE  ReturnPlan(past).tx \in offers
    <2>1. ReturnPlan(past).tx = Returning(f.frozen)
      BY <1>2, <1>5 DEF ReturnPlan, r
    <2>2. Listed(f.frozen.counted) = <<>> \/ Len(past) >= ReturnAt
      BY <1>2, <1>5 DEF MustReturn, r
    <2>3. MayReturn(f, Len(chain) + 1)
      BY <1>1, <1>2, <1>3, <1>5, <2>2, FamilyAssumption DEF MayReturn
    <2> QED
      BY <2>1, <2>3 DEF Offers
  <1>6. ASSUME r.phase = "frozen", ~MustReturn(past), Len(past) >= Target,
               proof.candidate = chain[Target].fork
        PROVE  DrawPlan(past).tx \in offers
    <2>1. DrawPlan(past).tx =
            Drawing(f.frozen, Selected(f.frozen.counted, chain[Target].fork), chain[Target].fork)
      BY <1>2, <1>6 DEF DrawPlan, r
    <2>2. Listed(f.frozen.counted) # <<>>
      BY <1>2, <1>6 DEF MustReturn, r
    <2>3. MayDraw(f, chain)
      BY <1>1, <1>2, <1>6, <2>2 DEF MayDraw
    <2> QED
      BY <2>1, <2>3 DEF Offers
  <1> QED
    BY <1>4, <1>5, <1>6 DEF Accepted, f, r

\* An entry is prepared exactly when the contract of its shard accepts it.
LEMMA EntriesAreAccepted ==
  ASSUME NEW f, NEW r, Agree(f, r), NEW e \in Entries
  PROVE  LET s == r.shard[ShardOf[e]] IN
         /\ (r.phase = "open" /\ Joins(s, e)) <=> MayRegister(f, e)
         /\ r.phase = "open" => Prepared(s, e) = Registration(e, f.shard[ShardOf[e]].tip)
  <1> DEFINE s == ShardOf[e]
  <1>1. s \in Shards
    BY FamilyAssumption
  <1>2. r.phase = "open" <=> f.prize = "open"
    BY DEF Agree, SamePhase
  <1>3. CASE f.prize = "open"
    <2>1. SameShard(f.shard[s], r.shard[s])
      BY <1>1, <1>3 DEF Agree
    <2> QED
      BY <1>2, <1>3, <2>1 DEF SameShard, Joins, MayRegister, Prepared
  <1>4. CASE f.prize # "open"
    BY <1>2, <1>4 DEF MayRegister
  <1> QED
    BY <1>3, <1>4

-----------------------------------------------------------------------------
(* The chain, the cursor and what executors read of it are histories that  *)
(* the contracts allow.                                                    *)

Lawful ==
  /\ forks \in 0 .. MaxForks /\ Legal(chain)
  /\ \A h \in 1 .. Len(chain) : chain[h].fork \in 0 .. forks
  /\ Legal(cursor) /\ Len(cursor) <= Len(chain)
  /\ \A x \in Executors : Legal(executor[x].past) /\ Len(executor[x].past) <= Len(chain)

LEMMA InitLawful ==
  ASSUME Init
  PROVE  Lawful
  <1> DEFINE block == [tx |-> Activation, fork |-> 0]
  <1>1. Legal(Anchor) /\ IsChain(Anchor) /\ Len(Anchor) = 1
        /\ Anchor[1] = [tx |-> None, fork |-> 0]
    BY AnchorIsLegal, AnchorIsChain
  <1>2. Outputs(Anchor).prize = "bootstrap"
    <2>1. Outputs(Anchor) = Contract(Outputs(<<>>), Anchor[1], 1)
      <3>1. /\ IsChain(<<>>) /\ Len(Anchor) = Len(<<>>) + 1
            /\ \A h \in 1 .. Len(<<>>) : Anchor[h] = <<>>[h]
        BY <1>1, EmptyIsChain
      <3>2. Outputs(Anchor) = Contract(Outputs(<<>>), Anchor[Len(Anchor)], Len(Anchor))
        BY <1>1, <3>1, OutputsGrow, Zenon
      <3> QED
        BY <1>1, <3>2
    <2>2. Outputs(Anchor) = Unfunded
      BY <1>1, <2>1, OutputsOfNothing DEF Contract
    <2> QED
      BY <2>2 DEF Unfunded
  <1>3. Activation \in Offers(Outputs(Anchor), Anchor)
    <2>1. Anchor # <<>>
      BY <1>1, EmptyIsChain
    <2> QED
      BY <1>2, <2>1 DEF Offers
  <1>4. Allowed(Anchor, block)
    BY <1>3, ChainAssumption DEF Allowed
  <1>5. block.fork = 0
    OBVIOUS
  <1> HIDE DEF block
  <1>6. \A n \in 1 .. Len(Anchor) : Anchor[n].fork <= block.fork
    BY <1>1, <1>5
  <1>7. Legal(Append(Anchor, block))
    BY <1>1, <1>4, <1>6, LegalGrows
  <1>8. /\ Len(Append(Anchor, block)) = 2 /\ Append(Anchor, block)[1] = Anchor[1]
        /\ Append(Anchor, block)[2] = block
    <2>0. IsChain(Anchor)
      BY <1>1
    <2>1. /\ IsChain(Append(Anchor, block)) /\ Len(Append(Anchor, block)) = Len(Anchor) + 1
          /\ \A h \in 1 .. Len(Anchor) : Append(Anchor, block)[h] = Anchor[h]
          /\ Append(Anchor, block)[Len(Anchor) + 1] = block
      BY <2>0, AppendIsChain
    <2> QED
      BY <1>1, <2>1
  <1>9. Opened = Append(Anchor, block)
    BY DEF Opened, block
  <1>10. Legal(Opened) /\ Len(Opened) = 2 /\ \A h \in 1 .. 2 : Opened[h].fork = 0
    BY <1>1, <1>5, <1>7, <1>8, <1>9
  <1> QED
    BY <1>10, NothingIsLegal, EmptyIsChain, ChainAssumption DEF Init, Lawful, Idle

\* The chain does not get shorter, and stays one that the contracts allow.
LEMMA ChainLawful ==
  ASSUME Lawful, Mine \/ \E n \in 1 .. MaxDepth : Reorganize(n)
  PROVE  /\ Legal(chain') /\ Len(chain) <= Len(chain') /\ forks' \in 0 .. MaxForks
         /\ \A h \in 1 .. Len(chain') : chain'[h].fork \in 0 .. forks'
  <1>0. /\ Legal(chain) /\ IsChain(chain) /\ Len(chain) \in Nat
        /\ forks \in 0 .. MaxForks /\ forks \in Nat /\ MaxForks \in Nat
        /\ \A h \in 1 .. Len(chain) : chain[h].fork \in 0 .. forks
    BY ChainAssumption DEF Lawful, Legal, IsChain
  <1>1. CASE Mine
    <2>1. chain' \in Extended(chain, forks) /\ forks' = forks
      BY <1>1 DEF Mine, Grow
    <2>2. Legal(chain')
      BY <1>0, <2>1, GrowIsLegal
    <2>3. PICK t : chain' = Append(chain, [tx |-> t, fork |-> forks])
      BY <2>1 DEF Extended
    <2> DEFINE block == [tx |-> t, fork |-> forks]
    <2>4. block.fork = forks
      OBVIOUS
    <2>5. chain' = Append(chain, block)
      BY <2>3
    <2> HIDE DEF block
    <2>6. /\ Len(chain') = Len(chain) + 1 /\ chain'[Len(chain) + 1] = block
          /\ \A h \in 1 .. Len(chain) : chain'[h] = chain[h]
      BY <1>0, <2>5, AppendIsChain
    <2>7. ASSUME NEW h \in 1 .. Len(chain')
          PROVE  chain'[h].fork \in 0 .. forks'
      BY <1>0, <2>1, <2>4, <2>6
    <2> QED
      BY <1>0, <2>1, <2>2, <2>6, <2>7
  <1>2. ASSUME NEW n \in 1 .. MaxDepth, Reorganize(n)
        PROVE  /\ Legal(chain') /\ Len(chain) <= Len(chain') /\ forks' \in 0 .. MaxForks
               /\ \A h \in 1 .. Len(chain') : chain'[h].fork \in 0 .. forks'
    <2>1. /\ Switch(n) /\ n \in Nat /\ forks' = forks + 1 /\ forks < MaxForks
      <3>1. Switch(n)
        BY <1>2 DEF Reorganize
      <3>2. n \in 1 .. Len(chain) /\ forks' = forks + 1 /\ forks < MaxForks
        BY <3>1 DEF Switch
      <3> QED
        BY <1>0, <3>1, <3>2
    <2>2. Legal(chain') /\ Len(chain') = Len(chain) + 1
      BY <1>0, <2>1, SwitchIsLegal
    <2>3. PICK branch :
            chain' = [h \in 1 .. Len(chain) + 1 |->
                        IF h <= Len(chain) - n THEN chain[h]
                        ELSE [tx |-> branch[h].tx, fork |-> forks + 1]]
      BY <2>1 DEF Switch
    <2>4. ASSUME NEW h \in 1 .. Len(chain')
          PROVE  chain'[h].fork \in 0 .. forks'
      <3>1. CASE h <= Len(chain) - n
        <4>1. chain'[h] = chain[h] /\ h \in 1 .. Len(chain)
          BY <1>0, <2>1, <2>2, <2>3, <3>1
        <4> QED
          BY <1>0, <2>1, <4>1
      <3>2. CASE ~(h <= Len(chain) - n)
        <4>1. chain'[h].fork = forks + 1
          BY <2>2, <2>3, <3>2
        <4> QED
          BY <1>0, <2>1, <4>1
      <3> QED
        BY <3>1, <3>2
    <2> QED
      BY <1>0, <2>1, <2>2, <2>4
  <1> QED
    BY <1>1, <1>2

\* Where the cursors of the next state come from.
LEMMA CursorsStep ==
  ASSUME Shape, [Next]_vars
  PROVE  /\ \/ cursor' = cursor
            \/ chain' = chain /\ \E f \in Nat : f <= Len(chain) /\ cursor' = SubSeq(chain, 1, Reach(f))
         /\ \A x \in Executors : executor'[x].past \in {<<>>, cursor, executor[x].past}
  <1> DEFINE Reads(x) == executor'[x].past \in {<<>>, cursor, executor[x].past}
  <1> USE DEF family
  <1>0. ASSUME NEW x \in Executors, NEW code, executor' = ClosingWith(x, code)
        PROVE  \A y \in Executors : Reads(y)
    <2>1. /\ executor'[x].past = <<>>
          /\ \A y \in Executors \ {x} : executor'[y] = executor[y]
      BY <1>0 DEF ClosingWith, Shape, Locals
    <2> QED
      BY <2>1
  <1>1. CASE UNCHANGED <<cursor, executor>>
    BY <1>1
  <1>2. CASE Sync
    <2>1. PICK f \in 1 .. Len(cursor) : ForkAt(f, cursor) /\ cursor' = SubSeq(chain, 1, Reach(f))
      BY <1>2 DEF Sync
    <2>2. f \in Nat /\ f <= Len(chain)
      BY <2>1 DEF ForkAt
    <2> QED
      BY <1>2, <2>1, <2>2 DEF Sync
  <1>3. ASSUME NEW x \in Executors, NEW plan, Deliver(x, plan)
        PROVE  \A y \in Executors : Reads(y)
    <2>1. CASE executor' = [executor EXCEPT ![x] = [@ EXCEPT !.pc = "planned",
                                                     !.past = <<>>, !.plan = plan.tx]]
      <3>1. /\ executor'[x].past = <<>>
            /\ \A y \in Executors \ {x} : executor'[y] = executor[y]
        BY <2>1 DEF Shape, Locals
      <3> QED
        BY <3>1
    <2> QED
      BY <1>0, <1>3, <2>1 DEF Deliver
  <1>4. ASSUME NEW x \in Executors, Find(x) \/ Claim(x)
        PROVE  cursor' = cursor /\ \A y \in Executors : Reads(y)
    <2>1. CASE Find(x)
      <3>1. executor'[x].past = cursor /\ \A y \in Executors \ {x} : executor'[y] = executor[y]
        BY <2>1 DEF Find, Shape, Locals, Idle
      <3> QED
        BY <2>1, <3>1 DEF Find
    <2>2. CASE Claim(x)
      <3>1. CASE executor' = [executor EXCEPT ![x] = Idle]
        <4>1. executor'[x].past = <<>> /\ \A y \in Executors \ {x} : executor'[y] = executor[y]
          BY <3>1 DEF Shape, Idle
        <4> QED
          BY <2>2, <4>1 DEF Claim
      <3>2. CASE executor' = [y \in Executors |->
                    IF y = x THEN [executor[x] EXCEPT !.pc = "claimed"]
                    ELSE [executor[y] EXCEPT !.fresh = FALSE]]
        <4>1. ASSUME NEW y \in Executors
              PROVE  executor'[y].past = executor[y].past
          <5>1. Locals(executor[y]) /\ Locals(executor[x])
            BY DEF Shape
          <5> QED
            BY <3>2, <5>1 DEF Locals
        <4> QED
          BY <2>2, <4>1 DEF Claim
      <3> QED
        BY <2>2, <3>1, <3>2 DEF Claim
    <2> QED
      BY <1>4, <2>1, <2>2
  <1>5. ASSUME NEW x \in Executors, Submit(x) \/ SubmitUnheard(x)
        PROVE  cursor' = cursor /\ \A y \in Executors : Reads(y)
    <2>1. CASE executor' = [executor EXCEPT ![x].pc = "taken"]
      BY <1>5, <2>1 DEF Submit, SubmitUnheard, Shape, Locals
    <2> QED
      BY <1>0, <1>5, <2>1 DEF Submit, SubmitUnheard
  <1>6. ASSUME NEW x \in Executors, Close(x) \/ Crash(x)
        PROVE  cursor' = cursor /\ \A y \in Executors : Reads(y)
    <2>1. executor' = [executor EXCEPT ![x] = Idle] /\ cursor' = cursor
      BY <1>6 DEF Close, Crash
    <2> QED
      BY <2>1 DEF Shape, Locals, Idle
  <1>7. ASSUME NEW x \in Executors, Freeze(x) \/ Return(x) \/ Draw(x)
        PROVE  cursor' = cursor /\ \A y \in Executors : Reads(y)
    BY <1>3, <1>7 DEF Freeze, Return, Draw
  <1>8. ASSUME NEW x \in Executors,
               \/ AskProof(x) \/ Wait(x) \/ Record(x)
               \/ \E code \in CallCodes : CallFails(x, code)
        PROVE  cursor' = cursor /\ \A y \in Executors : Reads(y)
    BY <1>0, <1>8 DEF AskProof, Wait, Record, CallFails
  <1>9. ASSUME NEW e \in Entries, Enter(e)
        PROVE  UNCHANGED <<cursor, executor>>
    BY <1>9 DEF Enter
  <1>10. CASE \/ Mine \/ Due \/ ProofDone \/ ProofLost
              \/ \E n \in 1 .. MaxDepth : Reorganize(n)
              \/ \E t \in sent : Lose(t)
              \/ \E t \in DOMAIN delivery : Age(t)
              \/ UNCHANGED vars
    BY <1>1, <1>10 DEF Mine, Due, ProofDone, ProofLost, Reorganize, Lose, Age, vars
  <1> QED
    BY <1>1, <1>2, <1>4, <1>5, <1>6, <1>7, <1>8, <1>9, <1>10 DEF Next, Work

\* Only miners change the chain.
LEMMA OnlyMiners ==
  ASSUME [Next]_vars
  PROVE  Mine \/ (\E n \in 1 .. MaxDepth : Reorganize(n)) \/ UNCHANGED <<chain, forks>>
  <1> USE DEF family
  <1>1. ASSUME NEW x \in Executors, Work(x)
        PROVE  UNCHANGED <<chain, forks>>
    BY <1>1 DEF Work, Find, Claim, Freeze, Return, Draw, AskProof, Wait, Submit, Record, Close
  <1>2. ASSUME NEW e \in Entries, Enter(e)
        PROVE  UNCHANGED <<chain, forks>>
    BY <1>2 DEF Enter
  <1> QED
    BY <1>1, <1>2 DEF Next, vars, Sync, Due, ProofDone, ProofLost, Lose, Age, SubmitUnheard,
       Crash, CallFails

LEMMA LawfulStep ==
  ASSUME Shape, Lawful, [Next]_vars
  PROVE  Lawful'
  <1>1. /\ Legal(chain') /\ Len(chain) <= Len(chain') /\ forks' \in 0 .. MaxForks
        /\ \A h \in 1 .. Len(chain') : chain'[h].fork \in 0 .. forks'
    <2>1. CASE UNCHANGED <<chain, forks>>
      <3>1. Len(chain) \in Nat
        BY DEF Lawful, Legal, IsChain
      <3> QED
        BY <2>1, <3>1 DEF Lawful
    <2> QED
      BY <2>1, OnlyMiners, ChainLawful
  <1> DEFINE Fits(c) == Legal(c) /\ Len(c) <= Len(chain')
  <1>2. ASSUME NEW c, Legal(c), Len(c) <= Len(chain)
        PROVE  Fits(c)
    <2>1. Len(c) \in Nat /\ Len(chain) \in Nat /\ Len(chain') \in Nat
      BY <1>1, <1>2 DEF Lawful, Legal, IsChain
    <2> QED
      BY <1>1, <1>2, <2>1
  <1>3. Fits(<<>>)
    BY <1>1, NothingIsLegal, EmptyIsChain DEF Legal, IsChain
  <1>4. Fits(cursor')
    <2>1. ASSUME chain' = chain, NEW f \in Nat, f <= Len(chain), cursor' = SubSeq(chain, 1, Reach(f))
          PROVE  Fits(cursor')
      <3>1. IsChain(chain) /\ Legal(chain) /\ Len(chain) \in Nat
        BY DEF Lawful, Legal, IsChain
      <3>2. Reach(f) \in f .. Len(chain)
        BY <2>1, <3>1, ReachBounds
      <3>3. Reach(f) \in 0 .. Len(chain)
        BY <3>1, <3>2
      <3>4. Legal(cursor') /\ Len(cursor') = Reach(f)
        BY <2>1, <3>1, <3>3, PrefixIsLegal, PrefixIsChain
      <3> QED
        BY <2>1, <3>2, <3>4
    <2> QED
      BY <1>2, <2>1, CursorsStep DEF Lawful
  <1>5. ASSUME NEW x \in Executors
        PROVE  Fits(executor'[x].past)
    <2>1. executor'[x].past \in {<<>>, cursor, executor[x].past}
      BY CursorsStep
    <2>2. Fits(cursor) /\ Fits(executor[x].past)
      BY <1>2 DEF Lawful
    <2> HIDE DEF Fits
    <2> QED
      BY <1>3, <2>1, <2>2
  <1> QED
    BY <1>1, <1>4, <1>5 DEF Lawful

-----------------------------------------------------------------------------
(* The theorems. *)

\* The invariant holds in every reachable state.
THEOREM Invariance == Spec => []IInv
  <1>1. Init => IInv
    BY InitInvariant
  <1>2. IInv /\ [Next]_vars => IInv'
    BY NextStep
  <1> QED
    BY <1>1, <1>2, PTL DEF Spec

\* No settlement reaches the relay or the chain that no delivery tells of
\* (persistDeliveryPlan before submitSignedTransaction).
THEOREM SettlementsArePlanned == Spec => []PlannedBeforeSent
  <1>1. IInv => PlannedBeforeSent
    BY DEF IInv
  <1> QED
    BY <1>1, Invariance, PTL

\* Whatever the executors, the prover and the relay keep has its shape: a plan
\* is kept under its identifier, and held only while it is delivered.
THEOREM TypeCorrect == Spec => []TypeOK
  <1>1. Init => IInv /\ Types
    BY InitInvariant, InitTypes
  <1>2. IInv /\ Types /\ [Next]_vars => IInv' /\ Types'
    BY NextStep, ProofTypes, DeliveryTypes, ExecutorTypes, SentTypes, CountTypes DEF Types
  <1>3. IInv /\ Types => TypeOK
    <2> SUFFICES ASSUME IInv, Types
                 PROVE  TypeOK
      OBVIOUS
    <2>1. \A x \in Executors :
            IF executor[x].pc \in Held THEN SpendsPrize(executor[x].plan)
            ELSE executor[x].plan = None
      BY DEF IInv, HoldsPlanned, Types, ExecutorOK
    <2> QED
      BY <2>1 DEF TypeOK, Types, ProofOK, DeliveryOK, ExecutorOK, SentOK, Held
  <1> QED
    BY <1>1, <1>2, <1>3, PTL DEF Spec

\* The cursor of the projection and the chains that executors have read are
\* histories that the contracts allow.
THEOREM CursorsAreLawful == Spec => []Lawful
  <1>1. Init => IInv /\ Lawful
    BY InitInvariant, InitLawful
  <1>2. IInv /\ Lawful /\ [Next]_vars => IInv' /\ Lawful'
    BY NextStep, LawfulStep DEF IInv
  <1> QED
    BY <1>1, <1>2, PTL DEF Spec

\* The journal of the cursor restores what its transitions reconstruct, which is
\* never refused: Sync leaves nothing out (restoreGiveawayV6Projection).
RestoredInFull ==
  /\ Snapshot(cursor) = Reconstruct(Transitions(cursor))
  /\ Snapshot(cursor).phase # "broken"

THEOREM ProjectionIsRestored == Spec => []RestoredInFull
  <1>1. Lawful => RestoredInFull
    BY SnapshotIsReconstruction, NeverBroken DEF Lawful, RestoredInFull
  <1> QED
    BY <1>1, CursorsAreLawful, PTL

\* What an executor would plan from outputs that are still those of the family, the
\* contracts accept: the freeze with the tips and the lists that they count, the
\* return when it is due, and the draw of the winner that the candidate block
\* selects (executeDueGiveawayV6Settlements against giveaway_prize_shards_v6.sil).
PlansFit ==
  \A x \in Executors :
    LET past == executor[x].past IN
    executor[x].pc = "claimed" /\ Outputs(past) = Outputs(chain) => Accepted(past)

THEOREM PlansAreAcceptable == Spec => []PlansFit
  <1>1. Lawful => PlansFit
    BY PlansAreAccepted DEF Lawful, PlansFit
  <1> QED
    BY <1>1, CursorsAreLawful, PTL

\* A participant is offered an entry exactly when the contract of the shard
\* accepts the registration, while the projection has seen what the family holds
\* (prepareGiveawayV6RegistrationProof against the entry shards).
EntriesFit ==
  Outputs(cursor) = Outputs(chain) =>
    \A e \in Entries :
      LET r == Snapshot(cursor)
          s == r.shard[ShardOf[e]]
      IN /\ (r.phase = "open" /\ Joins(s, e)) <=> MayRegister(Outputs(chain), e)
         /\ r.phase = "open" /\ Joins(s, e) => Prepared(s, e) \in Offers(Outputs(chain), chain)

THEOREM EntriesAreAcceptable == Spec => []EntriesFit
  <1>1. ASSUME Lawful, Outputs(cursor) = Outputs(chain), NEW e \in Entries
        PROVE  LET r == Snapshot(cursor)
                   s == r.shard[ShardOf[e]]
               IN /\ (r.phase = "open" /\ Joins(s, e)) <=> MayRegister(Outputs(chain), e)
                  /\ r.phase = "open" /\ Joins(s, e) => Prepared(s, e) \in Offers(Outputs(chain), chain)
    <2> DEFINE f == Outputs(chain)
               r == Snapshot(cursor)
               s == r.shard[ShardOf[e]]
    <2>1. Agree(f, r)
      BY <1>1, SnapshotAgrees DEF Lawful
    <2> HIDE DEF f, r
    <2>2. /\ (r.phase = "open" /\ Joins(s, e)) <=> MayRegister(f, e)
          /\ r.phase = "open" => Prepared(s, e) = Registration(e, f.shard[ShardOf[e]].tip)
      BY <2>1, EntriesAreAccepted
    <2>3. r.phase = "open" /\ Joins(s, e) => Prepared(s, e) \in Offers(f, chain)
      BY <2>2 DEF Offers
    <2> QED
      BY <2>2, <2>3 DEF f, r
  <1>2. Lawful => EntriesFit
    BY <1>1 DEF EntriesFit
  <1> QED
    BY <1>2, CursorsAreLawful, PTL

===============================================================================
