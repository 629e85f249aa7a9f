---------------------------- MODULE GiveawayLaunch ----------------------------
(***************************************************************************)
(* From the wish for a Giveaway V6 to its first entry: the draw slot whose *)
(* terms all its giveaways commit, their creation, the payment that funds  *)
(* one of them, its binding to a family of contracts, and the keyless      *)
(* activation.  The pages of the creator and the passes of the worker take *)
(* the same steps, without a lock.                                         *)
(*                                                                         *)
(* One draw slot is modelled; slots do not share anything.                 *)
(***************************************************************************)
EXTENDS Integers, FiniteSets

CONSTANTS
  Giveaways,
  Outputs,      \* payments of the exact total to the address of a giveaway
  For,          \* For[o]: the giveaway that output o pays
  Passes,       \* processUnattendedGiveawayV6Advances
  Studios,      \* the funding and activation routes, called by the creator
  Creators, CreatorOf,  \* who opens a giveaway
  MaxUnfunded,  \* GIVEAWAY_V6_MAX_UNFUNDED_PER_CREATOR
  Cutoff,       \* GIVEAWAY_V6_SLOT_CUTOFF_MINUTES
  Horizon,      \* how far ahead the slot is at first
  MaxLead,      \* bound: how far blocks run ahead of the clock
  MaxFaults,    \* bound: failed calls, lost answers and transactions, reorganizations
  None

\* A giveaway, with its bootstrap and its projection.
Row ==
  [closes : Nat, status : {"awaiting", "bound"}, output : Outputs \cup {None}, anchor : Nat,
   plan : Outputs \cup {None}, submitted : BOOLEAN, open : BOOLEAN, old : BOOLEAN]

ASSUME LaunchAssumption ==
  /\ For \in [Outputs -> Giveaways] /\ CreatorOf \in [Giveaways -> Creators]
  /\ Passes \cap Studios = {}
  /\ None \notin Giveaways \cup Outputs \cup Nat \cup Row
  /\ MaxUnfunded \in Nat /\ Cutoff \in Nat /\ Horizon \in Nat
  /\ MaxLead \in Nat /\ MaxFaults \in Nat

VARIABLES
  left,     \* the time until the slot
  daa,      \* the score of the chain
  slot,     \* GiveawayDrawSlot: the closing score of its giveaways
  call,     \* POST /creator/giveaways/v6 under way, by the giveaway it creates
  row,      \* Giveaway, its GiveawayV6Bootstrap and its projection
  host,     \* the block that accepted an output, 0 if none on the chain has
  blocks,   \* blocks so far that accepted an output
  act,      \* the activation that spends an output
  taken,    \* outputs whose activation the relay took once
  actor,    \* passes and routes under way
  faults

clock == <<left, daa>>
creation == <<slot, call>>
chain == <<host, blocks, act, taken>>
vars == <<left, daa, slot, call, row, host, blocks, act, taken, actor, faults>>

NoCall == [step |-> "none", daa |-> 0, left |-> 0, closes |-> 0]
Idle == [step |-> "idle", giveaway |-> None, output |-> None, block |-> 0,
         submitted |-> FALSE]
Actors == Passes \cup Studios

Init ==
  /\ left = Horizon /\ daa = 0
  /\ slot = None
  /\ call = [g \in Giveaways |-> NoCall]
  /\ row = [g \in Giveaways |-> None]
  /\ host = [o \in Outputs |-> 0] /\ blocks = 0
  /\ act = [o \in Outputs |-> "none"] /\ taken = {}
  /\ actor = [a \in Actors |-> Idle]
  /\ faults = 0

Fault == faults < MaxFaults /\ faults' = faults + 1

Awaiting(g) == row[g] # None /\ row[g].status = "awaiting"
Bound(g) == row[g] # None /\ row[g].status = "bound"

-----------------------------------------------------------------------------
(* Time and the chain. *)

\* Ten blocks a second, on average.
Tick ==
  /\ left > 0
  /\ left' = left - 1 /\ daa' = daa + 1
  /\ UNCHANGED <<creation, row, chain, actor, faults>>

RunAhead ==
  /\ daa + left < Horizon + MaxLead
  /\ daa' = daa + 1
  /\ UNCHANGED <<left, creation, row, chain, actor, faults>>

\* A payment to the address of a giveaway is accepted, also once more after a
\* reorganization.
AcceptFunding(o) ==
  /\ row[For[o]] # None /\ host[o] = 0
  /\ blocks' = blocks + 1 /\ host' = [host EXCEPT ![o] = blocks']
  /\ UNCHANGED <<clock, creation, row, act, taken, actor, faults>>

AcceptActivation(o) ==
  /\ act[o] = "pool" /\ host[o] > 0
  /\ act' = [act EXCEPT ![o] = "accepted"]
  /\ UNCHANGED <<clock, creation, row, host, blocks, taken, actor, faults>>

\* The activation is as deep as a page of the projection requires.
Confirm(o) ==
  /\ act[o] = "accepted"
  /\ act' = [act EXCEPT ![o] = "confirmed"]
  /\ UNCHANGED <<clock, creation, row, host, blocks, taken, actor, faults>>

\* The blocks from number n on leave the chain; what they accepted is pending again.
Reorganize(n) ==
  /\ Fault
  /\ \A o \in Outputs : host[o] >= n => act[o] # "confirmed"
  /\ \E kept \in SUBSET {o \in Outputs : host[o] < n} :
       act' = [o \in Outputs |->
                 IF act[o] = "accepted" /\ o \notin kept THEN "pool" ELSE act[o]]
  /\ host' = [o \in Outputs |-> IF host[o] >= n THEN 0 ELSE host[o]]
  /\ UNCHANGED <<clock, creation, row, blocks, taken, actor>>

LoseActivation(o) ==
  /\ Fault
  /\ act[o] = "pool"
  /\ act' = [act EXCEPT ![o] = "none"]
  /\ UNCHANGED <<clock, creation, row, host, blocks, taken, actor>>

\* The projection finds the activation when it reads the chain from its anchor on.
Follow(g) ==
  /\ Bound(g) /\ ~row[g].open
  /\ act[row[g].output] = "confirmed"
  /\ row[g].anchor = host[row[g].output]
  /\ row' = [row EXCEPT ![g].open = TRUE]
  /\ UNCHANGED <<clock, creation, chain, actor, faults>>

-----------------------------------------------------------------------------
(* POST /creator/giveaways/v6. *)

\* The unfunded giveaways of a creator whose draw is still ahead.
Unfunded(c) == {g \in Giveaways : CreatorOf[g] = c /\ Awaiting(g) /\ left > 0}

Under(g, step) == call[g].step = step

CreationUnchanged == UNCHANGED <<clock, chain, actor>>

Begin(g) ==
  /\ Under(g, "none") /\ row[g] = None
  /\ Cardinality(Unfunded(CreatorOf[g])) < MaxUnfunded
  /\ left >= Cutoff
  /\ call' = [call EXCEPT ![g].step = "chain"]
  /\ UNCHANGED <<slot, row, faults>> /\ CreationUnchanged

\* readCurrentMainnetChainPosition
ReadChain(g) ==
  /\ Under(g, "chain")
  /\ call' = [call EXCEPT ![g] = [step |-> "look", daa |-> daa, left |-> left, closes |-> 0]]
  /\ UNCHANGED <<slot, row, faults>> /\ CreationUnchanged

\* deriveGiveawayV6SlotTerms
Derived(c) == c.daa + c.left

\* The terms a call goes on with, unless the slot is too close on the chain.
Resolved(c, closes) ==
  IF closes - c.daa >= Cutoff THEN [c EXCEPT !.step = "save", !.closes = closes] ELSE NoCall

Look(g) ==
  /\ Under(g, "look")
  /\ \/ /\ slot = None /\ call[g].left > 0
        /\ call' = [call EXCEPT ![g].step = "insert"]
     \/ /\ slot = None /\ call[g].left = 0
        /\ call' = [call EXCEPT ![g] = NoCall]
     \/ /\ slot # None
        /\ call' = [call EXCEPT ![g] = Resolved(@, slot)]
  /\ UNCHANGED <<slot, row, faults>> /\ CreationUnchanged

\* Mistake: an upsert, with which the loser of the race writes its own terms.
InsertedOwn(c) == Derived(c)

\* create, or on a conflict findUnique
Inserted(c) == IF slot = None THEN Derived(c) ELSE slot

Insert(g) ==
  /\ Under(g, "insert")
  /\ slot' = Inserted(call[g])
  /\ call' = [call EXCEPT ![g] = Resolved(@, slot')]
  /\ UNCHANGED <<row, faults>> /\ CreationUnchanged

\* buildGiveawayV6BootstrapCreateData and the transaction that stores it
Created(closes) ==
  [closes |-> closes, status |-> "awaiting", output |-> None, anchor |-> 0,
   plan |-> None, submitted |-> FALSE, open |-> FALSE, old |-> FALSE]

Save(g) ==
  /\ Under(g, "save")
  /\ row' = [row EXCEPT ![g] = Created(call[g].closes)]
  /\ call' = [call EXCEPT ![g] = NoCall]
  /\ UNCHANGED <<slot, faults>> /\ CreationUnchanged

FailCreation(g) ==
  /\ Fault /\ ~Under(g, "none")
  /\ call' = [call EXCEPT ![g] = NoCall]
  /\ UNCHANGED <<slot, row>> /\ CreationUnchanged

\* MAX_AGE_MS: a slot is at most a day ahead.
Age(g) ==
  /\ Awaiting(g) /\ ~row[g].old /\ left = 0
  /\ row' = [row EXCEPT ![g].old = TRUE]
  /\ UNCHANGED <<clock, creation, chain, actor, faults>>

-----------------------------------------------------------------------------
(* Funding, binding and activation: the passes and the routes. *)

Goes(a, step) == actor' = [actor EXCEPT ![a].step = step]
Stops(a) == actor' = [actor EXCEPT ![a] = Idle]
Starts(a, g, step) == actor' = [actor EXCEPT ![a] = [Idle EXCEPT !.step = step, !.giveaway = g]]
At(a, step) == actor[a].step = step

ActorUnchanged == UNCHANGED <<clock, creation, host, blocks>>

\* Mistake: a pass that has bound a bootstrap need not come back to it.
DueUnbound(g) == Awaiting(g) /\ ~row[g].old

\* The bootstraps that a pass looks at.
Due(g) ==
  \/ Awaiting(g) /\ ~row[g].old
  \/ Bound(g) /\ ~row[g].submitted /\ ~row[g].open

Claim(a, g) ==
  /\ a \in Passes /\ At(a, "idle")
  /\ Due(g)
  /\ Starts(a, g, "load")
  /\ UNCHANGED <<row, act, taken, faults>> /\ ActorUnchanged

\* loadBootstrap, and activate unless its status, activationSubmittedAt or the
\* phase say no.
Load(a) ==
  LET g == actor[a].giveaway IN
  /\ At(a, "load")
  /\ \/ Awaiting(g) /\ Goes(a, "utxos")
     \/ /\ Bound(g) /\ ~row[g].submitted /\ ~row[g].open
        /\ actor' = [actor EXCEPT ![a].step = "plan", ![a].output = row[g].output]
     \/ /\ Bound(g) /\ (row[g].submitted \/ row[g].open)
        /\ Stops(a)
  /\ UNCHANGED <<row, act, taken, faults>> /\ ActorUnchanged

\* POST /funding of a giveaway that is not bound
AskFunding(a, g) ==
  /\ a \in Studios /\ At(a, "idle")
  /\ Awaiting(g)
  /\ Starts(a, g, "utxos")
  /\ UNCHANGED <<row, act, taken, faults>> /\ ActorUnchanged

\* POST /activation
AskActivation(a, g) ==
  /\ a \in Studios /\ At(a, "idle")
  /\ Bound(g) /\ ~row[g].open
  /\ actor' = [actor EXCEPT ![a] = [Idle EXCEPT !.step = "plan", !.giveaway = g,
                                                !.output = row[g].output,
                                                !.submitted = row[g].submitted]]
  /\ UNCHANGED <<row, act, taken, faults>> /\ ActorUnchanged

\* Mistake: the address of an output is not compared.
UnspentAnywhere(g) == {o \in Outputs : host[o] > 0 /\ act[o] \notin {"accepted", "confirmed"}}

\* What the indexer lists at the address.
Unspent(g) ==
  {o \in Outputs : For[o] = g /\ host[o] > 0 /\ act[o] \notin {"accepted", "confirmed"}}

\* readGiveawayV6ConfirmedFunding: none, more than one, or the one to look up.
ReadUtxos(a) ==
  LET found == Unspent(actor[a].giveaway) IN
  /\ At(a, "utxos")
  /\ \/ \E o \in found :
          /\ found = {o}
          /\ actor' = [actor EXCEPT ![a].step = "tx", ![a].output = o]
     \/ /\ \A o \in found : found # {o}
        /\ Stops(a)
  /\ UNCHANGED <<row, act, taken, faults>> /\ ActorUnchanged

\* The transaction of the output, which may have left the chain since.
ReadTx(a) ==
  LET block == host[actor[a].output] IN
  /\ At(a, "tx")
  /\ \/ block > 0 /\ actor' = [actor EXCEPT ![a].step = "bind", ![a].block = block]
     \/ block = 0 /\ Stops(a)
  /\ UNCHANGED <<row, act, taken, faults>> /\ ActorUnchanged

\* Mistake: the update names the bootstrap only.
BindableAlways(g) == row[g] # None

\* The condition of the update in persistGiveawayV6BootstrapBinding.
Bindable(g) == Awaiting(g)

\* persistGiveawayV6BootstrapBinding, which creates the projection too.  A pass
\* goes on to the activation.
Bind(a) ==
  LET g == actor[a].giveaway IN
  /\ At(a, "bind")
  /\ \/ /\ Bindable(g)
        /\ row' = [row EXCEPT ![g].status = "bound", ![g].output = actor[a].output,
                              ![g].anchor = actor[a].block]
        /\ IF a \in Passes THEN Starts(a, g, "load") ELSE Stops(a)
     \/ /\ ~Bindable(g)
        /\ Stops(a) /\ UNCHANGED row
  /\ UNCHANGED <<act, taken, faults>> /\ ActorUnchanged

\* persistGiveawayV6ActivationPlan; the route answers here if the activation was
\* submitted.
Plan(a) ==
  LET g == actor[a].giveaway IN
  /\ At(a, "plan")
  /\ \/ /\ Bound(g) /\ row[g].plan \in {None, actor[a].output}
        /\ row' = [row EXCEPT ![g].plan = actor[a].output]
        /\ IF actor[a].submitted THEN Stops(a) ELSE Goes(a, "send")
     \/ /\ ~(Bound(g) /\ row[g].plan \in {None, actor[a].output})
        /\ Stops(a) /\ UNCHANGED row
  /\ UNCHANGED <<act, taken, faults>> /\ ActorUnchanged

\* broadcastToccataGiveawayV6ActivationTransaction: the relay takes the activation,
\* or says that it has it already.
Send(a) ==
  LET o == actor[a].output IN
  /\ At(a, "send")
  /\ act' = [act EXCEPT ![o] = IF @ = "none" THEN "pool" ELSE @]
  /\ taken' = taken \cup {o}
  /\ Goes(a, "record")
  /\ UNCHANGED <<row, faults>> /\ ActorUnchanged

\* The relay takes it, and the answer does not arrive.
SendUnheard(a) ==
  LET o == actor[a].output IN
  /\ Fault
  /\ At(a, "send")
  /\ act' = [act EXCEPT ![o] = IF @ = "none" THEN "pool" ELSE @]
  /\ taken' = taken \cup {o}
  /\ Stops(a)
  /\ UNCHANGED row /\ ActorUnchanged

\* The relay does not know the output that the activation spends;
\* persistGiveawayV6ActivationFailure keeps the code of the error only.
SendRefused(a) ==
  /\ At(a, "send")
  /\ host[actor[a].output] = 0 /\ act[actor[a].output] = "none"
  /\ Stops(a)
  /\ UNCHANGED <<row, act, taken, faults>> /\ ActorUnchanged

\* persistGiveawayV6ActivationSubmitted
Record(a) ==
  LET g == actor[a].giveaway IN
  /\ At(a, "record")
  /\ row' = IF Bound(g) /\ row[g].plan = actor[a].output
              THEN [row EXCEPT ![g].submitted = TRUE] ELSE row
  /\ Stops(a)
  /\ UNCHANGED <<act, taken, faults>> /\ ActorUnchanged

\* An await fails, or the process ends.
Fail(a) ==
  /\ Fault
  /\ ~At(a, "idle")
  /\ Stops(a)
  /\ UNCHANGED <<row, act, taken>> /\ ActorUnchanged

-----------------------------------------------------------------------------
Create(g) == Begin(g) \/ ReadChain(g) \/ Look(g) \/ Insert(g) \/ Save(g)

Work(a) ==
  \/ Load(a) \/ ReadUtxos(a) \/ ReadTx(a) \/ Bind(a)
  \/ Plan(a) \/ Send(a) \/ SendRefused(a) \/ Record(a)

Next ==
  \/ Tick \/ RunAhead
  \/ \E o \in Outputs : \/ AcceptFunding(o) \/ AcceptActivation(o) \/ Confirm(o)
                        \/ LoseActivation(o)
  \/ \E n \in 1 .. blocks + 1 : Reorganize(n)
  \/ \E g \in Giveaways : Create(g) \/ FailCreation(g) \/ Follow(g) \/ Age(g)
  \/ \E a \in Actors : Work(a) \/ SendUnheard(a) \/ Fail(a)
  \/ \E a \in Actors, g \in Giveaways : Claim(a, g) \/ AskFunding(a, g) \/ AskActivation(a, g)

Spec == Init /\ [][Next]_vars

\* The worker calls the tick again and again, and a pass takes the bootstraps that
\* were looked at longest ago first; its calls return or fail.  Blocks take what
\* the relay holds, and the projection is synchronized.  Nothing is assumed of
\* the creator.
Fairness ==
  /\ \A g \in Giveaways : SF_vars(\E a \in Passes : Claim(a, g)) /\ WF_vars(Follow(g))
  /\ \A a \in Passes : WF_vars(Work(a))
  /\ \A o \in Outputs : WF_vars(AcceptActivation(o)) /\ WF_vars(Confirm(o))

FairSpec == Spec /\ Fairness

(***************************************************************************)
(* Properties.                                                             *)
(***************************************************************************)

Call == [step : {"none", "chain", "look", "insert", "save"}, daa : Nat, left : Nat, closes : Nat]

Actor ==
  [step : {"idle", "load", "utxos", "tx", "bind", "plan", "send", "record"},
   giveaway : Giveaways \cup {None}, output : Outputs \cup {None}, block : Nat,
   submitted : BOOLEAN]

\* What a pass or a route has at hand.
Sound(x) ==
  /\ x.step # "idle" => x.giveaway # None /\ row[x.giveaway] # None
  /\ x.step \in {"tx", "bind", "plan", "send", "record"} =>
       x.output # None /\ For[x.output] = x.giveaway

\* The rows, calls and activations have their types; a pass or a route is at work
\* on a stored giveaway and on an output that pays it.
TypeOK ==
  /\ left \in 0 .. Horizon /\ daa \in Nat
  /\ slot \in Nat \cup {None}
  /\ call \in [Giveaways -> Call]
  /\ row \in [Giveaways -> Row \cup {None}]
  /\ host \in [Outputs -> Nat] /\ blocks \in Nat
  /\ act \in [Outputs -> {"none", "pool", "accepted", "confirmed"}]
  /\ taken \subseteq Outputs
  /\ actor \in [Actors -> Actor] /\ \A a \in Actors : Sound(actor[a])
  /\ faults \in 0 .. MaxFaults

\* All giveaways of a slot commit the closing score that is stored with it,
\* whatever chain position their creators read, so that one entropy proof serves
\* them all (resolveGiveawayV6DrawSlot).
SharedTerms == \A g \in Giveaways : row[g] # None => row[g].closes = slot

\* What the relay or the chain has of a giveaway is the activation of the output
\* it is bound to, planned before it was sent: two binders or two activators
\* never make two families.  A giveaway counts as submitted only if the relay
\* took its activation (persistGiveawayV6BootstrapBinding, activate).
OneFamily ==
  /\ \A o \in Outputs : act[o] # "none" =>
       Bound(For[o]) /\ row[For[o]].output = o /\ row[For[o]].plan = o
  /\ \A g \in Giveaways : row[g] # None /\ row[g].submitted => row[g].output \in taken

\* One payment of the exact total is on the chain.
Funded(g) == Cardinality({o \in Outputs : For[o] = g /\ host[o] > 0}) = 1

\* It arrived when the passes had stopped to look.
Forgotten(g) == Awaiting(g) /\ row[g].old

\* The block from which the projection reads has left the chain.
AnchorLost(g) == Bound(g) /\ host[row[g].output] # row[g].anchor

\* The relay lost the activation after it was recorded.
ActivationLost(g) ==
  Bound(g) /\ row[g].submitted /\ act[row[g].output] = "none"

\* Once bound, a giveaway keeps its output, its anchor and its planned activation,
\* and it is not bound to another by a call that looked before.
BindingIsFinal ==
  [][\A g \in Giveaways : Bound(g) =>
       /\ row'[g] # None
       /\ row'[g].status = "bound" /\ row'[g].output = row[g].output
       /\ row'[g].anchor = row[g].anchor
       /\ row[g].plan # None => row'[g].plan = row[g].plan]_vars

\* A giveaway that stays funded goes live although nobody keeps the studio open
\* (advance.ts), whatever fails or is called twice, except in the three cases
\* above, in which nothing submits an activation again or follows it.
FundedGoesLive ==
  \A g \in Giveaways :
    <>[]Funded(g) =>
      <>(\/ row[g] # None /\ row[g].open
         \/ Forgotten(g) \/ AnchorLost(g) \/ ActivationLost(g))
=============================================================================
