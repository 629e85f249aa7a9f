------------------------ MODULE GiveawayLaunchProofs ------------------------
(***************************************************************************)
(* Proofs about GiveawayLaunch, for any number of giveaways, payments,     *)
(* passes, calls and faults.  A call that creates a giveaway goes on with  *)
(* the terms of the slot (Calls); what a row is bound to, plans and has    *)
(* submitted fits (Rows); and a pass or a route that plans, sends or       *)
(* records does so for the output of its row (Hands).                      *)
(***************************************************************************)
EXTENDS GiveawayLaunch, TLAPS

Calls ==
  \A g \in Giveaways :
    /\ call[g].step # "none" => row[g] = None
    /\ call[g].step = "save" => slot # None /\ call[g].closes = slot

Fits(g) ==
  row[g] # None =>
    /\ row[g].status = "bound" => row[g].output # None /\ For[row[g].output] = g
    /\ row[g].status = "awaiting" => row[g].plan = None /\ ~row[g].submitted
    /\ row[g].plan # None => row[g].plan = row[g].output

Holds(x) ==
  /\ x.step \in {"plan", "send", "record"} =>
       Bound(x.giveaway) /\ row[x.giveaway].output = x.output
  /\ x.step \in {"send", "record"} => row[x.giveaway].plan = x.output
  /\ x.step = "record" => x.output \in taken

Rows == \A g \in Giveaways : Fits(g)
Hands == \A a \in Actors : Holds(actor[a])

Inv == TypeOK /\ Calls /\ SharedTerms /\ Rows /\ Hands /\ OneFamily

\* A row stays, and what it is bound to and plans does not change.
Steady ==
  \A g \in Giveaways : row[g] # None =>
    /\ row'[g] # None
    /\ row[g].status = "bound" =>
         /\ row'[g].status = "bound" /\ row'[g].output = row[g].output
         /\ row'[g].anchor = row[g].anchor
         /\ row[g].plan # None => row'[g].plan = row[g].plan

-----------------------------------------------------------------------------
USE LaunchAssumption

LEMMA Begins == Init => Inv
  BY DEF Init, Inv, TypeOK, Calls, SharedTerms, Rows, Fits, Hands, Holds, OneFamily, Sound,
         Call, Row, Actor, NoCall, Idle, Actors, Bound

\* What a pass or a route has at hand stays right while rows are steady.
LEMMA InHand ==
  ASSUME TypeOK, Steady, taken \subseteq taken', NEW x \in Actor, Sound(x), Holds(x)
  PROVE  Sound(x)' /\ Holds(x)'
<1>1. x.step # "idle" => x.giveaway \in Giveaways /\ row[x.giveaway] # None
  BY DEF Sound, Actor
<1>2. Sound(x)'
  BY <1>1 DEF Sound, Steady
<1>3. Holds(x)'
  BY <1>1 DEF Holds, Sound, Bound, Steady
<1>4. QED  BY <1>2, <1>3

\* The other passes and routes.
LEMMA OthersAtWork ==
  ASSUME TypeOK, Hands, Steady, taken \subseteq taken',
         NEW a \in Actors, NEW x \in Actor, actor' = [actor EXCEPT ![a] = x],
         Sound(x)', Holds(x)'
  PROVE  /\ actor' \in [Actors -> Actor]
         /\ \A b \in Actors : Sound(actor[b])'
         /\ Hands'
<1>1. actor' \in [Actors -> Actor] /\ actor'[a] = x
  BY DEF TypeOK
<1>2. ASSUME NEW b \in Actors, b # a  PROVE Sound(actor[b])' /\ Holds(actor[b])'
  <2>1. PICK y \in Actor : y = actor[b] /\ y = actor'[b]
    BY <1>2 DEF TypeOK
  <2>2. Sound(y) /\ Holds(y)
    BY <2>1, <1>2 DEF TypeOK, Hands, Sound, Holds, Bound
  <2>3. Sound(y)' /\ Holds(y)'
    BY <2>2, InHand
  <2>4. QED  BY <2>1, <2>3 DEF Sound, Holds, Bound
<1>3. Sound(actor[a])' /\ Holds(actor[a])'
  BY <1>1 DEF Sound, Holds, Bound
<1>4. QED  BY <1>1, <1>2, <1>3 DEF Hands

\* A pass or a route does something that only it knows of.
LEMMA ActorMoves ==
  ASSUME Inv, NEW a \in Actors, NEW x \in Actor, actor' = [actor EXCEPT ![a] = x],
         Sound(x), Holds(x), UNCHANGED <<clock, creation, row, chain>>, faults' \in 0 .. MaxFaults
  PROVE  Inv'
<1>1. Steady /\ taken \subseteq taken'
  BY DEF Steady, chain
<1>2. Sound(x)' /\ Holds(x)'
  BY <1>1, InHand DEF Inv
<1>3. actor' \in [Actors -> Actor] /\ (\A b \in Actors : Sound(actor[b])') /\ Hands'
  BY <1>1, <1>2, OthersAtWork DEF Inv
<1>4. TypeOK'
  BY <1>3 DEF Inv, TypeOK, clock, creation, chain
<1>5. Calls' /\ SharedTerms' /\ Rows' /\ OneFamily'
  BY DEF Inv, Calls, SharedTerms, Rows, Fits, OneFamily, Bound, creation, chain
<1>6. QED  BY <1>3, <1>4, <1>5 DEF Inv

\* Time passes, and the chain takes or loses what it holds of an activation, but
\* never makes one.
LEMMA ChainMoves ==
  ASSUME Inv, UNCHANGED <<creation, row, taken, actor>>,
         left' \in 0 .. Horizon, daa' \in Nat, faults' \in 0 .. MaxFaults,
         host' \in [Outputs -> Nat], blocks' \in Nat,
         act' \in [Outputs -> {"none", "pool", "accepted", "confirmed"}],
         \A o \in Outputs : act[o] = "none" => act'[o] = "none"
  PROVE  Inv'
<1>1. TypeOK'
  BY DEF Inv, TypeOK, Sound, creation
<1>2. Calls' /\ SharedTerms' /\ Rows' /\ Hands'
  BY DEF Inv, Calls, SharedTerms, Rows, Fits, Hands, Holds, Bound, creation
<1>3. OneFamily'
  BY DEF Inv, OneFamily, Bound, TypeOK
<1>4. QED  BY <1>1, <1>2, <1>3 DEF Inv

LEMMA ChainKeeps ==
  ASSUME Inv,
         \/ Tick \/ RunAhead
         \/ \E o \in Outputs : AcceptFunding(o) \/ AcceptActivation(o) \/ Confirm(o) \/ LoseActivation(o)
         \/ \E n \in 1 .. blocks + 1 : Reorganize(n)
  PROVE  Inv'
<1> USE DEF Inv, TypeOK, clock, creation
<1>1. CASE Tick
  BY <1>1, ChainMoves DEF Tick, chain
<1>2. CASE RunAhead
  BY <1>2, ChainMoves DEF RunAhead, chain
<1>3. ASSUME NEW o \in Outputs, AcceptFunding(o)  PROVE Inv'
  <2>1. blocks' \in Nat /\ host' \in [Outputs -> Nat]
    BY <1>3 DEF AcceptFunding
  <2>2. QED  BY <1>3, <2>1, ChainMoves DEF AcceptFunding
<1>4. ASSUME NEW o \in Outputs, AcceptActivation(o)  PROVE Inv'
  BY <1>4, ChainMoves DEF AcceptActivation
<1>5. ASSUME NEW o \in Outputs, Confirm(o)  PROVE Inv'
  BY <1>5, ChainMoves DEF Confirm
<1>6. ASSUME NEW o \in Outputs, LoseActivation(o)  PROVE Inv'
  BY <1>6, ChainMoves DEF LoseActivation, Fault
<1>7. ASSUME NEW n \in 1 .. blocks + 1, Reorganize(n)  PROVE Inv'
  <2>1. host' \in [Outputs -> Nat]
    BY <1>7 DEF Reorganize
  <2>2. PICK kept \in SUBSET {o \in Outputs : host[o] < n} :
          act' = [o \in Outputs |->
                    IF act[o] = "accepted" /\ o \notin kept THEN "pool" ELSE act[o]]
    BY <1>7 DEF Reorganize
  <2>3. /\ act' \in [Outputs -> {"none", "pool", "accepted", "confirmed"}]
        /\ \A o \in Outputs : act[o] = "none" => act'[o] = "none"
    BY <2>2
  <2>4. QED  BY <1>7, <2>1, <2>3, ChainMoves DEF Reorganize, Fault
<1>8. QED  BY <1>1, <1>2, <1>3, <1>4, <1>5, <1>6, <1>7

\* A call that creates a giveaway takes a step before it is saved.
LEMMA CallMoves ==
  ASSUME Inv, NEW g \in Giveaways, NEW c \in Call, row[g] = None,
         call' = [call EXCEPT ![g] = c], slot' \in Nat \cup {None},
         slot # None => slot' = slot,
         c.step = "save" => slot' # None /\ c.closes = slot',
         UNCHANGED <<row, clock, chain, actor>>, faults' \in 0 .. MaxFaults
  PROVE  Inv'
<1>1. TypeOK'
  BY DEF Inv, TypeOK, Sound, clock, chain
<1>2. Calls'
  BY DEF Inv, TypeOK, Calls
<1>3. SharedTerms'
  <2>1. ASSUME NEW h \in Giveaways, row[h] # None  PROVE slot # None
    BY <2>1 DEF Inv, TypeOK, SharedTerms, Row
  <2>2. QED  BY <2>1 DEF Inv, SharedTerms
<1>4. Rows' /\ Hands' /\ OneFamily'
  BY DEF Inv, Rows, Fits, Hands, Holds, OneFamily, Bound, chain
<1>5. QED  BY <1>1, <1>2, <1>3, <1>4 DEF Inv

LEMMA ResolvedTerms ==
  ASSUME NEW c \in Call, NEW closes \in Nat
  PROVE  /\ Resolved(c, closes) \in Call
         /\ Resolved(c, closes).step = "save" => Resolved(c, closes).closes = closes
  BY DEF Resolved, Call, NoCall

LEMMA CallsKeep ==
  ASSUME Inv, NEW g \in Giveaways,
         Begin(g) \/ ReadChain(g) \/ Look(g) \/ Insert(g) \/ FailCreation(g)
  PROVE  Inv'
<1> USE DEF CreationUnchanged
<1>1. call[g] \in Call /\ call \in [Giveaways -> Call] /\ slot \in Nat \cup {None}
      /\ faults \in 0 .. MaxFaults
  BY DEF Inv, TypeOK
<1>2. call[g].step # "none" => row[g] = None
  BY DEF Inv, Calls
<1>a. NoCall \in Call /\ NoCall.step = "none"
  BY DEF NoCall, Call
<1>n. PICK none \in Call : none = NoCall /\ none.step = "none"
  BY <1>a
<1>3. CASE Begin(g)
  <2>1. PICK c \in Call : c = [call[g] EXCEPT !.step = "chain"]
    BY <1>1 DEF Call
  <2>2. call' = [call EXCEPT ![g] = c] /\ c.step # "save"
    BY <1>1, <1>3, <2>1 DEF Begin, Call
  <2>3. QED  BY <1>1, <1>3, <2>2, CallMoves DEF Begin
<1>4. CASE ReadChain(g)
  <2>1. [step |-> "look", daa |-> daa, left |-> left, closes |-> 0] \in Call
    BY DEF Inv, TypeOK, Call
  <2>2. PICK c \in Call : c = [step |-> "look", daa |-> daa, left |-> left, closes |-> 0]
    BY <2>1
  <2>3. QED  BY <1>1, <1>2, <1>4, <2>2, CallMoves DEF ReadChain, Under
<1>5. CASE Look(g)
  <2>1. PICK c \in Call : /\ call' = [call EXCEPT ![g] = c]
                          /\ c.step = "save" => slot # None /\ c.closes = slot
    <3>1. CASE slot = None /\ call[g].left > 0 /\ call' = [call EXCEPT ![g].step = "insert"]
      <4>1. [call[g] EXCEPT !.step = "insert"] \in Call
        BY <1>1 DEF Call
      <4>2. QED  BY <1>1, <3>1, <4>1 DEF Call
    <3>2. CASE call' = [call EXCEPT ![g] = NoCall]
      BY <3>2, <1>n
    <3>3. CASE slot # None /\ call' = [call EXCEPT ![g] = Resolved(@, slot)]
      BY <1>1, <3>3, ResolvedTerms
    <3>4. QED  BY <1>5, <3>1, <3>2, <3>3 DEF Look
  <2>2. QED  BY <1>1, <1>2, <1>5, <2>1, CallMoves DEF Look, Under
<1>6. CASE Insert(g)
  <2>1. slot' \in Nat /\ slot' # None /\ (slot # None => slot' = slot)
    BY <1>1, <1>6 DEF Insert, Inserted, Derived, Call
  <2>2. PICK c \in Call : /\ call' = [call EXCEPT ![g] = c]
                          /\ c.step = "save" => c.closes = slot'
    BY <1>1, <1>6, <2>1, ResolvedTerms DEF Insert
  <2>3. QED  BY <1>1, <1>2, <1>6, <2>1, <2>2, CallMoves DEF Insert, Under
<1>7. CASE FailCreation(g)
  <2>1. faults' \in 0 .. MaxFaults
    BY <1>1, <1>7 DEF FailCreation, Fault
  <2>2. QED  BY <1>1, <1>2, <1>n, <1>7, <2>1, CallMoves DEF FailCreation, Under
<1>8. QED  BY <1>3, <1>4, <1>5, <1>6, <1>7

LEMMA SaveKeeps ==
  ASSUME Inv, NEW g \in Giveaways, Save(g)
  PROVE  Inv' /\ Steady
<1>1. row[g] = None /\ slot \in Nat /\ call[g].closes = slot
  BY DEF Save, Under, Inv, Calls, TypeOK, Call
<1>2. Created(slot) \in Row /\ row' = [row EXCEPT ![g] = Created(slot)] /\ row'[g] = Created(slot)
  BY <1>1 DEF Save, Created, Row, Inv, TypeOK
<1>3. \A h \in Giveaways : h # g => row'[h] = row[h]
  BY DEF Save, Inv, TypeOK
<1>4. Steady
  BY <1>1, <1>3 DEF Steady
<1>5. TypeOK'
  <2>1. \A a \in Actors : Sound(actor[a])'
    BY <1>4 DEF Save, CreationUnchanged, Sound, Steady, Inv, TypeOK, Actor
  <2>2. NoCall \in Call
    BY DEF NoCall, Call
  <2>3. QED  BY <1>2, <2>1, <2>2 DEF Save, CreationUnchanged, Inv, TypeOK, clock, chain
<1>6. Calls' /\ SharedTerms'
  BY <1>1, <1>2, <1>3 DEF Save, Inv, TypeOK, Calls, SharedTerms, NoCall, Created
<1>7. Rows'
  BY <1>2, <1>3 DEF Inv, Rows, Fits, Created
<1>8. Hands'
  <2>1. ASSUME NEW a \in Actors  PROVE Holds(actor[a])'
    <3>1. PICK x \in Actor : x = actor[a] /\ x = actor'[a]
      BY DEF Save, CreationUnchanged, Inv, TypeOK
    <3>2. Sound(x) /\ Holds(x)
      BY <3>1 DEF Inv, TypeOK, Hands, Sound, Holds, Bound
    <3>3. Holds(x)'
      BY <1>4, <3>2, InHand DEF Inv, Save, CreationUnchanged, chain
    <3>4. QED  BY <3>1, <3>3 DEF Holds, Bound
  <2>2. QED  BY <2>1 DEF Hands
<1>9. OneFamily'
  BY <1>1, <1>2, <1>3 DEF Save, CreationUnchanged, chain, Inv, TypeOK, OneFamily, Bound, Created
<1>10. QED  BY <1>4, <1>5, <1>6, <1>7, <1>8, <1>9 DEF Inv

\* Two states of a row that differ in its phase and its age only.
Alike(r, s) ==
  /\ r.closes = s.closes /\ r.status = s.status /\ r.output = s.output
  /\ r.anchor = s.anchor /\ r.plan = s.plan /\ r.submitted = s.submitted

\* The projection follows, or the bootstrap grows old: nothing that others read.
LEMMA RowMoves ==
  ASSUME Inv, NEW g \in Giveaways, row[g] # None, NEW r \in Row,
         row' = [row EXCEPT ![g] = r],
         Alike(r, row[g]),
         UNCHANGED <<clock, creation, chain, actor, faults>>
  PROVE  Inv' /\ Steady
<1>1. /\ row' \in [Giveaways -> Row \cup {None}] /\ row'[g] = r /\ r # None
      /\ \A h \in Giveaways : h # g => row'[h] = row[h]
  BY DEF Inv, TypeOK
<1>2. Steady
  BY <1>1 DEF Steady, Alike
<1>3. TypeOK'
  <2>1. \A a \in Actors : Sound(actor[a])'
    BY <1>2 DEF Sound, Steady, Inv, TypeOK, Actor
  <2>2. QED  BY <1>1, <2>1 DEF Inv, TypeOK, clock, creation, chain
<1>4. Calls' /\ SharedTerms' /\ Rows'
  BY <1>1 DEF Inv, Calls, SharedTerms, Rows, Fits, creation, Alike
<1>5. Hands'
  <2>1. ASSUME NEW a \in Actors  PROVE Holds(actor[a])'
    <3>1. PICK x \in Actor : x = actor[a] /\ x = actor'[a]
      BY DEF Inv, TypeOK
    <3>2. Sound(x) /\ Holds(x)
      BY <3>1 DEF Inv, TypeOK, Hands, Sound, Holds, Bound
    <3>3. Holds(x)'
      BY <1>2, <3>2, InHand DEF Inv, chain
    <3>4. QED  BY <3>1, <3>3 DEF Holds, Bound
  <2>2. QED  BY <2>1 DEF Hands
<1>6. OneFamily'
  BY <1>1 DEF chain, Inv, TypeOK, OneFamily, Bound, Alike
<1>7. QED  BY <1>2, <1>3, <1>4, <1>5, <1>6 DEF Inv

LEMMA RowsKeep ==
  ASSUME Inv, NEW g \in Giveaways, Follow(g) \/ Age(g)
  PROVE  Inv' /\ Steady
<1>1. row[g] # None /\ row[g] \in Row /\ row \in [Giveaways -> Row \cup {None}]
  BY DEF Inv, TypeOK, Follow, Age, Awaiting, Bound
<1>2. CASE Follow(g)
  <2>1. PICK r \in Row : r = [row[g] EXCEPT !.open = TRUE]
    BY <1>1 DEF Row
  <2>2. row' = [row EXCEPT ![g] = r]
    BY <1>1, <1>2, <2>1 DEF Follow
  <2>3. Alike(r, row[g])
    BY <1>1, <2>1 DEF Row, Alike
  <2>4. QED  BY <1>1, <1>2, <2>2, <2>3, RowMoves DEF Follow
<1>3. CASE Age(g)
  <2>1. PICK r \in Row : r = [row[g] EXCEPT !.old = TRUE]
    BY <1>1 DEF Row
  <2>2. row' = [row EXCEPT ![g] = r]
    BY <1>1, <1>3, <2>1 DEF Age
  <2>3. Alike(r, row[g])
    BY <1>1, <2>1 DEF Row, Alike
  <2>4. QED  BY <1>1, <1>3, <2>2, <2>3, RowMoves DEF Age
<1>4. QED  BY <1>2, <1>3

-----------------------------------------------------------------------------
(* Passes and routes. *)

\* Steps that only change what the pass or the route has at hand.
LEMMA LooksKeep ==
  ASSUME Inv, NEW a \in Actors,
         \/ \E g \in Giveaways : Claim(a, g) \/ AskFunding(a, g) \/ AskActivation(a, g)
         \/ Load(a) \/ ReadUtxos(a) \/ ReadTx(a) \/ SendRefused(a) \/ Fail(a)
  PROVE  Inv'
<1> USE DEF ActorUnchanged
<1>1. /\ actor \in [Actors -> Actor] /\ actor[a] \in Actor /\ Sound(actor[a]) /\ Holds(actor[a])
      /\ row \in [Giveaways -> Row \cup {None}] /\ host \in [Outputs -> Nat] /\ Rows
      /\ faults \in 0 .. MaxFaults
  BY DEF Inv, TypeOK, Hands
<1>2. SUFFICES \E x \in Actor : /\ actor' = [actor EXCEPT ![a] = x] /\ Sound(x) /\ Holds(x)
                                /\ UNCHANGED <<clock, creation, row, chain>>
                                /\ faults' \in 0 .. MaxFaults
  BY ActorMoves
<1>3. Idle \in Actor /\ Idle.step = "idle" /\ Sound(Idle) /\ Holds(Idle)
  BY DEF Idle, Actor, Sound, Holds
<1>4. ASSUME NEW g \in Giveaways, Claim(a, g)
      PROVE  \E x \in Actor : /\ actor' = [actor EXCEPT ![a] = x] /\ Sound(x) /\ Holds(x)
  <2>1. [Idle EXCEPT !.step = "load", !.giveaway = g] \in Actor
    BY DEF Idle, Actor
  <2>2. QED  BY <1>4, <2>1 DEF Claim, Starts, Due, Awaiting, Bound, Sound, Holds, Idle
<1>5. ASSUME NEW g \in Giveaways, AskFunding(a, g)
      PROVE  \E x \in Actor : /\ actor' = [actor EXCEPT ![a] = x] /\ Sound(x) /\ Holds(x)
  <2>1. [Idle EXCEPT !.step = "utxos", !.giveaway = g] \in Actor
    BY DEF Idle, Actor
  <2>2. QED  BY <1>5, <2>1 DEF AskFunding, Starts, Awaiting, Sound, Holds, Idle
<1>6. ASSUME NEW g \in Giveaways, AskActivation(a, g)
      PROVE  \E x \in Actor : /\ actor' = [actor EXCEPT ![a] = x] /\ Sound(x) /\ Holds(x)
  <2>1. PICK x \in Actor : x = [Idle EXCEPT !.step = "plan", !.giveaway = g,
                                            !.output = row[g].output,
                                            !.submitted = row[g].submitted]
    BY <1>1, <1>6 DEF AskActivation, Bound, Idle, Actor, Row
  <2>2. QED  BY <1>1, <1>6, <2>1 DEF AskActivation, Bound, Sound, Holds, Idle, Actor, Rows, Fits
<1>7. CASE Load(a)
  <2> DEFINE g == actor[a].giveaway
  <2>1. g \in Giveaways /\ row[g] # None /\ row[g] \in Row
    BY <1>1, <1>7 DEF Load, At, Sound, Actor
  <2>2. CASE actor' = [actor EXCEPT ![a].step = "utxos"]
    <3>1. PICK x \in Actor : x = [actor[a] EXCEPT !.step = "utxos"]
      BY <1>1 DEF Actor
    <3>2. QED  BY <1>1, <1>7, <2>1, <2>2, <3>1 DEF Load, Sound, Holds, Actor, chain
  <2>3. CASE Bound(g) /\ actor' = [actor EXCEPT ![a].step = "plan", ![a].output = row[g].output]
    <3>1. PICK x \in Actor : x = [actor[a] EXCEPT !.step = "plan", !.output = row[g].output]
      BY <1>1, <2>1 DEF Actor, Row
    <3>2. actor' = [actor EXCEPT ![a] = x]
      BY <1>1, <2>3, <3>1
    <3>3. Sound(x) /\ Holds(x)
      BY <1>1, <2>1, <2>3, <3>1 DEF Sound, Holds, Actor, Bound, Rows, Fits
    <3>4. QED  BY <1>1, <1>7, <3>2, <3>3 DEF Load, chain
  <2>4. CASE Stops(a)
    BY <1>1, <1>3, <1>7, <2>4 DEF Load, Stops, chain
  <2>5. QED  BY <1>7, <2>2, <2>3, <2>4 DEF Load, Goes
<1>8. CASE ReadUtxos(a)
  <2>1. CASE \E o \in Unspent(actor[a].giveaway) :
               actor' = [actor EXCEPT ![a].step = "tx", ![a].output = o]
    <3>1. PICK o \in Outputs : /\ actor' = [actor EXCEPT ![a].step = "tx", ![a].output = o]
                               /\ For[o] = actor[a].giveaway
      BY <2>1 DEF Unspent
    <3>2. PICK x \in Actor : x = [actor[a] EXCEPT !.step = "tx", !.output = o]
      BY <1>1 DEF Actor
    <3>3. actor' = [actor EXCEPT ![a] = x]
      BY <1>1, <3>1, <3>2
    <3>4. Sound(x) /\ Holds(x)
      BY <1>1, <1>8, <3>1, <3>2 DEF ReadUtxos, At, Sound, Holds, Actor
    <3>5. QED  BY <1>1, <1>8, <3>3, <3>4 DEF ReadUtxos, chain
  <2>2. CASE Stops(a)
    BY <1>1, <1>3, <1>8, <2>2 DEF ReadUtxos, Stops, chain
  <2>3. QED  BY <1>8, <2>1, <2>2 DEF ReadUtxos
<1>9. CASE ReadTx(a)
  <2>1. CASE actor' = [actor EXCEPT ![a].step = "bind", ![a].block = host[actor[a].output]]
    <3>1. host[actor[a].output] \in Nat
      BY <1>1, <1>9 DEF ReadTx, At, Sound, Actor
    <3>2. PICK x \in Actor : x = [actor[a] EXCEPT !.step = "bind", !.block = host[actor[a].output]]
      BY <1>1, <3>1 DEF Actor
    <3>3. actor' = [actor EXCEPT ![a] = x]
      BY <1>1, <2>1, <3>2
    <3>4. Sound(x) /\ Holds(x)
      BY <1>1, <1>9, <3>2 DEF ReadTx, At, Sound, Holds, Actor
    <3>5. QED  BY <1>1, <1>9, <3>3, <3>4 DEF ReadTx, chain
  <2>2. CASE Stops(a)
    BY <1>1, <1>3, <1>9, <2>2 DEF ReadTx, Stops, chain
  <2>3. QED  BY <1>9, <2>1, <2>2 DEF ReadTx
<1>10. CASE SendRefused(a)
  BY <1>1, <1>3, <1>10 DEF SendRefused, Stops, chain
<1>11. CASE Fail(a)
  <2>1. faults' \in 0 .. MaxFaults
    BY <1>1, <1>11 DEF Fail, Fault
  <2>2. QED  BY <1>3, <1>11, <2>1 DEF Fail, Stops, chain
<1>12. QED  BY <1>1, <1>4, <1>5, <1>6, <1>7, <1>8, <1>9, <1>10, <1>11
            DEF Claim, AskFunding, AskActivation, chain

\* A pass or a route writes a row in hand, steadily.
LEMMA WritesKeep ==
  ASSUME Inv, NEW a \in Actors, NEW g \in Giveaways, row[g] # None, NEW r \in Row,
         row' = [row EXCEPT ![g] = r], Steady,
         NEW x \in Actor, actor' = [actor EXCEPT ![a] = x], Sound(x)', Holds(x)',
         r.closes = row[g].closes, Fits(g)', r.submitted => r.output \in taken,
         UNCHANGED <<clock, creation, chain, faults>>
  PROVE  Inv'
<1>1. /\ row' \in [Giveaways -> Row \cup {None}] /\ row'[g] = r
      /\ \A h \in Giveaways : h # g => row'[h] = row[h]
  BY DEF Inv, TypeOK
<1>2. actor' \in [Actors -> Actor] /\ (\A b \in Actors : Sound(actor[b])') /\ Hands'
  BY OthersAtWork DEF Inv, chain
<1>3. TypeOK'
  BY <1>1, <1>2 DEF Inv, TypeOK, clock, creation, chain
<1>4. Calls' /\ SharedTerms'
  BY <1>1 DEF Inv, Calls, SharedTerms, creation
<1>5. Rows'
  BY <1>1 DEF Inv, Rows, Fits
<1>6. OneFamily'
  <2>1. ASSUME NEW o \in Outputs, act'[o] # "none"
        PROVE  row'[For[o]] # None /\ row'[For[o]].status = "bound" /\ row'[For[o]].output = o
               /\ row'[For[o]].plan = o
    <3>1. /\ For[o] \in Giveaways /\ row[For[o]] # None /\ row[For[o]].status = "bound"
          /\ row[For[o]].output = o /\ row[For[o]].plan = o
      BY <2>1 DEF Inv, OneFamily, Bound, chain
    <3>2. QED  BY <3>1 DEF Steady
  <2>2. QED  BY <1>1, <2>1 DEF Inv, OneFamily, Bound, chain
<1>7. QED  BY <1>2, <1>3, <1>4, <1>5, <1>6 DEF Inv

LEMMA BindKeeps ==
  ASSUME Inv, NEW a \in Actors, Bind(a)
  PROVE  Inv' /\ Steady
<1> USE DEF ActorUnchanged
<1>1. /\ actor \in [Actors -> Actor] /\ actor[a] \in Actor /\ actor[a].step = "bind"
      /\ row \in [Giveaways -> Row \cup {None}] /\ faults \in 0 .. MaxFaults
      /\ Sound(actor[a])
  BY DEF Inv, TypeOK, Bind, At
<1>2. PICK g \in Giveaways :
      /\ g = actor[a].giveaway /\ row[g] # None /\ row[g] \in Row
      /\ actor[a].output \in Outputs /\ For[actor[a].output] = g /\ actor[a].block \in Nat
  BY <1>1 DEF Sound, Actor
<1>3. Idle \in Actor /\ Idle.step = "idle" /\ Sound(Idle) /\ Holds(Idle)
  BY DEF Idle, Actor, Sound, Holds
<1>4. CASE /\ Awaiting(g)
           /\ row' = [row EXCEPT ![g].status = "bound", ![g].output = actor[a].output,
                                 ![g].anchor = actor[a].block]
           /\ IF a \in Passes THEN Starts(a, g, "load") ELSE Stops(a)
  <2>1. PICK r \in Row : r = [row[g] EXCEPT !.status = "bound", !.output = actor[a].output,
                                            !.anchor = actor[a].block]
    BY <1>2 DEF Row
  <2>2. row' = [row EXCEPT ![g] = r]
    BY <1>1, <1>2, <1>4, <2>1
  <2>3. /\ row'[g] = r /\ r # None /\ r.closes = row[g].closes /\ r.output = actor[a].output
        /\ r.status = "bound" /\ r.plan = row[g].plan /\ (r.submitted <=> row[g].submitted)
    BY <1>1, <1>2, <2>1, <2>2 DEF Row
  <2>4. row[g].plan = None /\ ~row[g].submitted /\ row[g].status = "awaiting"
    BY <1>2, <1>4 DEF Inv, Rows, Fits, Awaiting
  <2>5. Steady
    BY <1>1, <1>2, <2>2, <2>3, <2>4 DEF Steady
  <2>6. Fits(g)'
    BY <1>2, <2>3, <2>4 DEF Fits
  <2>7. PICK x \in Actor : /\ actor' = [actor EXCEPT ![a] = x] /\ x.step \in {"idle", "load"}
                           /\ x.step = "load" => x.giveaway = g
    <3>1. [Idle EXCEPT !.step = "load", !.giveaway = g] \in Actor
      BY <1>2 DEF Idle, Actor
    <3>2. QED  BY <1>3, <1>4, <3>1 DEF Starts, Stops, Idle
  <2>8. Sound(x)' /\ Holds(x)'
    BY <1>2, <2>3, <2>7 DEF Sound, Holds
  <2>9. UNCHANGED <<clock, creation, chain, faults>>
    BY DEF Bind, chain
  <2>10. QED  BY <1>2, <2>2, <2>3, <2>4, <2>5, <2>6, <2>7, <2>8, <2>9, WritesKeep
<1>5. CASE Stops(a) /\ UNCHANGED row
  BY <1>1, <1>3, <1>5, ActorMoves DEF Bind, Stops, chain, Steady
<1>6. QED  BY <1>2, <1>4, <1>5 DEF Bind, Bindable

LEMMA PlanKeeps ==
  ASSUME Inv, NEW a \in Actors, Plan(a)
  PROVE  Inv' /\ Steady
<1> USE DEF ActorUnchanged
<1>1. /\ actor \in [Actors -> Actor] /\ actor[a] \in Actor /\ actor[a].step = "plan"
      /\ row \in [Giveaways -> Row \cup {None}] /\ faults \in 0 .. MaxFaults
      /\ Sound(actor[a]) /\ Holds(actor[a])
  BY DEF Inv, TypeOK, Plan, At, Hands
<1>2. PICK g \in Giveaways :
      /\ g = actor[a].giveaway /\ row[g] # None /\ row[g] \in Row
      /\ actor[a].output \in Outputs /\ For[actor[a].output] = g
      /\ row[g].status = "bound" /\ row[g].output = actor[a].output
  BY <1>1 DEF Sound, Holds, Bound, Actor
<1>3. Idle \in Actor /\ Idle.step = "idle" /\ Sound(Idle) /\ Holds(Idle)
  BY DEF Idle, Actor, Sound, Holds
<1>4. CASE /\ row' = [row EXCEPT ![g].plan = actor[a].output]
           /\ IF actor[a].submitted THEN Stops(a) ELSE Goes(a, "send")
           /\ row[g].plan \in {None, actor[a].output}
  <2>1. PICK r \in Row : r = [row[g] EXCEPT !.plan = actor[a].output]
    BY <1>2 DEF Row
  <2>2. row' = [row EXCEPT ![g] = r]
    BY <1>1, <1>2, <1>4, <2>1
  <2>3. /\ row'[g] = r /\ r # None /\ r.closes = row[g].closes /\ r.output = actor[a].output
        /\ r.status = "bound" /\ r.plan = actor[a].output /\ (r.submitted <=> row[g].submitted)
        /\ r.anchor = row[g].anchor
    BY <1>1, <1>2, <2>1, <2>2 DEF Row
  <2>4. Steady
    BY <1>1, <1>2, <1>4, <2>2, <2>3 DEF Steady
  <2>5. Fits(g)'
    BY <1>2, <2>3 DEF Fits
  <2>6. PICK x \in Actor : /\ actor' = [actor EXCEPT ![a] = x] /\ x.step \in {"idle", "send"}
                           /\ x.step = "send" => x.giveaway = g /\ x.output = actor[a].output
    <3>1. [actor[a] EXCEPT !.step = "send"] \in Actor
      BY <1>1 DEF Actor
    <3>2. PICK y \in Actor : y = [actor[a] EXCEPT !.step = "send"]
      BY <3>1
    <3>3. y.step = "send" /\ y.giveaway = g /\ y.output = actor[a].output
      BY <1>1, <1>2, <3>2 DEF Actor
    <3>4. QED  BY <1>1, <1>3, <1>4, <3>2, <3>3 DEF Goes, Stops
  <2>7. Sound(x)' /\ Holds(x)'
    BY <1>2, <2>3, <2>6 DEF Sound, Holds, Bound
  <2>8. UNCHANGED <<clock, creation, chain, faults>>
    BY DEF Plan, chain
  <2>9. r.submitted => r.output \in taken
    BY <1>2, <2>3 DEF Inv, OneFamily
  <2>10. QED  BY <1>2, <2>2, <2>3, <2>4, <2>5, <2>6, <2>7, <2>8, <2>9, WritesKeep
<1>5. CASE Stops(a) /\ UNCHANGED row
  BY <1>1, <1>3, <1>5, ActorMoves DEF Plan, Stops, chain, Steady
<1>6. QED  BY <1>2, <1>4, <1>5 DEF Plan

LEMMA RecordKeeps ==
  ASSUME Inv, NEW a \in Actors, Record(a)
  PROVE  Inv' /\ Steady
<1> USE DEF ActorUnchanged
<1>1. /\ actor \in [Actors -> Actor] /\ actor[a] \in Actor /\ actor[a].step = "record"
      /\ row \in [Giveaways -> Row \cup {None}] /\ faults \in 0 .. MaxFaults
      /\ Sound(actor[a]) /\ Holds(actor[a])
  BY DEF Inv, TypeOK, Record, At, Hands
<1>2. PICK g \in Giveaways :
      /\ g = actor[a].giveaway /\ row[g] # None /\ row[g] \in Row
      /\ row[g].status = "bound" /\ row[g].output = actor[a].output /\ actor[a].output \in taken
  BY <1>1 DEF Sound, Holds, Bound, Actor
<1>3. Idle \in Actor /\ Idle.step = "idle"
  BY DEF Idle, Actor
<1>4. CASE row' = [row EXCEPT ![g].submitted = TRUE]
  <2>1. PICK r \in Row : r = [row[g] EXCEPT !.submitted = TRUE]
    BY <1>2 DEF Row
  <2>2. row' = [row EXCEPT ![g] = r]
    BY <1>1, <1>2, <1>4, <2>1
  <2>3. /\ row'[g] = r /\ r # None /\ r.closes = row[g].closes /\ r.output = row[g].output
        /\ r.status = "bound" /\ r.plan = row[g].plan /\ r.anchor = row[g].anchor
    BY <1>1, <1>2, <2>1, <2>2 DEF Row
  <2>4. Steady
    BY <1>1, <1>2, <2>2, <2>3 DEF Steady
  <2>5. Fits(g)'
    BY <1>2, <2>3 DEF Fits, Inv, Rows
  <2>6. PICK x \in Actor : x = Idle
    BY <1>3
  <2>7. Sound(x)' /\ Holds(x)' /\ actor' = [actor EXCEPT ![a] = x]
    BY <1>3, <2>6 DEF Sound, Holds, Record, Stops
  <2>8. UNCHANGED <<clock, creation, chain, faults>>
    BY DEF Record, chain
  <2>9. QED  BY <1>2, <2>2, <2>3, <2>4, <2>5, <2>7, <2>8, WritesKeep
<1>5. CASE UNCHANGED row
  <2>1. Sound(Idle) /\ Holds(Idle)
    BY <1>3 DEF Sound, Holds
  <2>2. QED  BY <1>1, <1>3, <1>5, <2>1, ActorMoves DEF Record, Stops, chain, Steady
<1>6. QED  BY <1>2, <1>4, <1>5 DEF Record

LEMMA SendKeeps ==
  ASSUME Inv, NEW a \in Actors, Send(a) \/ SendUnheard(a)
  PROVE  Inv'
<1> DEFINE o == actor[a].output
<1> USE DEF ActorUnchanged
<1>1. /\ actor \in [Actors -> Actor] /\ actor[a] \in Actor /\ actor[a].step = "send"
      /\ faults \in 0 .. MaxFaults
      /\ Sound(actor[a]) /\ Holds(actor[a])
  BY DEF Inv, TypeOK, Send, SendUnheard, At, Hands
<1>2. /\ o \in Outputs /\ For[o] = actor[a].giveaway /\ Bound(For[o])
      /\ row[For[o]].output = o /\ row[For[o]].plan = o
  BY <1>1 DEF Sound, Holds, Actor
<1>3. /\ act' \in [Outputs -> {"none", "pool", "accepted", "confirmed"}]
      /\ \A p \in Outputs : p # o => act'[p] = act[p]
      /\ taken' = taken \cup {o} /\ faults' \in 0 .. MaxFaults
      /\ UNCHANGED <<clock, creation, row, host, blocks>>
  BY <1>1, <1>2 DEF Send, SendUnheard, Fault, Inv, TypeOK
<1>4. Steady /\ taken \subseteq taken'
  BY <1>3 DEF Steady
<1>5. PICK x \in Actor : /\ actor' = [actor EXCEPT ![a] = x] /\ x.step \in {"idle", "record"}
                         /\ x.step = "record" => x.giveaway = For[o] /\ x.output = o
  <2>0. Idle \in Actor /\ Idle.step = "idle"
    BY DEF Idle, Actor
  <2>1. PICK y \in Actor : y = Idle /\ y.step = "idle"
    BY <2>0
  <2>2. PICK z \in Actor : z = [actor[a] EXCEPT !.step = "record"]
    BY <1>1 DEF Actor
  <2>3. z.step = "record" /\ z.giveaway = For[o] /\ z.output = o
    BY <1>1, <1>2, <2>2 DEF Actor
  <2>4. CASE Send(a)
    <3>1. actor' = [actor EXCEPT ![a] = z]
      BY <1>1, <2>2, <2>4 DEF Send, Goes
    <3>2. QED  BY <2>3, <3>1
  <2>5. CASE SendUnheard(a)
    BY <2>1, <2>5 DEF SendUnheard, Stops
  <2>6. QED  BY <2>4, <2>5
<1>6. Sound(x)' /\ Holds(x)'
  BY <1>2, <1>3, <1>5 DEF Sound, Holds, Bound
<1>7. actor' \in [Actors -> Actor] /\ (\A b \in Actors : Sound(actor[b])') /\ Hands'
  BY <1>4, <1>5, <1>6, OthersAtWork DEF Inv
<1>8. TypeOK'
  BY <1>2, <1>3, <1>7 DEF Inv, TypeOK, clock, creation
<1>9. Calls' /\ SharedTerms' /\ Rows'
  BY <1>3 DEF Inv, Calls, SharedTerms, Rows, Fits, creation
<1>10. OneFamily'
  BY <1>2, <1>3 DEF Inv, OneFamily, Bound
<1>11. QED  BY <1>7, <1>8, <1>9, <1>10 DEF Inv

-----------------------------------------------------------------------------
(* The invariant, and that every step is steady. *)

LEMMA StepKeeps ==
  ASSUME Inv, [Next]_vars
  PROVE  Inv'
<1>1. CASE \/ Tick \/ RunAhead
           \/ \E o \in Outputs : \/ AcceptFunding(o) \/ AcceptActivation(o) \/ Confirm(o)
                                 \/ LoseActivation(o)
           \/ \E n \in 1 .. blocks + 1 : Reorganize(n)
  BY <1>1, ChainKeeps
<1>2. ASSUME NEW g \in Giveaways, Create(g) \/ FailCreation(g) \/ Follow(g) \/ Age(g)
      PROVE  Inv'
  BY <1>2, CallsKeep, SaveKeeps, RowsKeep DEF Create
<1>3. ASSUME NEW a \in Actors, Work(a) \/ SendUnheard(a) \/ Fail(a)
      PROVE  Inv'
  BY <1>3, LooksKeep, BindKeeps, PlanKeeps, SendKeeps, RecordKeeps DEF Work
<1>4. ASSUME NEW a \in Actors, NEW g \in Giveaways,
             Claim(a, g) \/ AskFunding(a, g) \/ AskActivation(a, g)
      PROVE  Inv'
  BY <1>4, LooksKeep
<1>5. CASE UNCHANGED vars
  BY <1>5 DEF vars, Inv, TypeOK, Sound, Calls, SharedTerms, Rows, Fits, Hands, Holds,
              OneFamily, Bound
<1>6. QED  BY <1>1, <1>2, <1>3, <1>4, <1>5 DEF Next

LEMMA StepSteady ==
  ASSUME Inv, [Next]_vars
  PROVE  Steady
<1>1. ASSUME UNCHANGED row  PROVE Steady
  BY <1>1 DEF Steady
<1>2. CASE \/ Tick \/ RunAhead
           \/ \E o \in Outputs : \/ AcceptFunding(o) \/ AcceptActivation(o) \/ Confirm(o)
                                 \/ LoseActivation(o)
           \/ \E n \in 1 .. blocks + 1 : Reorganize(n)
  BY <1>1, <1>2 DEF Tick, RunAhead, AcceptFunding, AcceptActivation, Confirm, LoseActivation,
                    Reorganize
<1>3. ASSUME NEW g \in Giveaways, Create(g) \/ FailCreation(g) \/ Follow(g) \/ Age(g)
      PROVE  Steady
  BY <1>1, <1>3, SaveKeeps, RowsKeep DEF Create, Begin, ReadChain, Look, Insert, FailCreation
<1>4. ASSUME NEW a \in Actors, Work(a) \/ SendUnheard(a) \/ Fail(a)
      PROVE  Steady
  BY <1>1, <1>4, BindKeeps, PlanKeeps, RecordKeeps
     DEF Work, Load, ReadUtxos, ReadTx, Send, SendUnheard, SendRefused, Fail
<1>5. ASSUME NEW a \in Actors, NEW g \in Giveaways,
             Claim(a, g) \/ AskFunding(a, g) \/ AskActivation(a, g)
      PROVE  Steady
  BY <1>1, <1>5 DEF Claim, AskFunding, AskActivation
<1>6. CASE UNCHANGED vars
  BY <1>1, <1>6 DEF vars
<1>7. QED  BY <1>2, <1>3, <1>4, <1>5, <1>6 DEF Next

\* The inductive invariant holds in every state, however many creators, passes
\* and routes are at work.
THEOREM Invariance == Spec => []Inv
<1>1. Init => Inv
  BY Begins
<1>2. Inv /\ [Next]_vars => Inv'
  BY StepKeeps
<1>3. QED  BY <1>1, <1>2, PTL DEF Spec

\* Rows and calls have their types, and a pass or a route is at work on a stored
\* giveaway and on an output that pays it (readGiveawayV6ConfirmedFunding).
THEOREM TypeCorrect == Spec => []TypeOK
<1>1. Inv => TypeOK
  BY DEF Inv
<1>2. QED  BY <1>1, Invariance, PTL

\* All giveaways of a draw slot commit the terms that are stored with it, whatever
\* their creators read of the chain and however their calls interleave
\* (resolveGiveawayV6DrawSlot).
THEOREM TermsShared == Spec => []SharedTerms
<1>1. Inv => SharedTerms
  BY DEF Inv
<1>2. QED  BY <1>1, Invariance, PTL

\* The relay and the chain never have an activation of a giveaway other than the
\* one of the output it is bound to, whoever binds and activates it
\* (persistGiveawayV6BootstrapBinding, persistGiveawayV6ActivationPlan).
THEOREM OneFamilyOnly == Spec => []OneFamily
<1>1. Inv => OneFamily
  BY DEF Inv
<1>2. QED  BY <1>1, Invariance, PTL

\* A bound giveaway keeps its output, its anchor and its plan, whatever a call
\* that looked before it was bound still writes.
THEOREM BindingStays == Spec => BindingIsFinal
<1>1. Steady => (\A g \in Giveaways : Bound(g) =>
        /\ row'[g] # None
        /\ row'[g].status = "bound" /\ row'[g].output = row[g].output
        /\ row'[g].anchor = row[g].anchor
        /\ row[g].plan # None => row'[g].plan = row[g].plan)
  BY DEF Steady, Bound
<1>2. Inv /\ [Next]_vars =>
        [\A g \in Giveaways : Bound(g) =>
           /\ row'[g] # None
           /\ row'[g].status = "bound" /\ row'[g].output = row[g].output
           /\ row'[g].anchor = row[g].anchor
           /\ row[g].plan # None => row'[g].plan = row[g].plan]_vars
  BY <1>1, StepSteady
<1>3. QED  BY <1>2, Invariance, PTL DEF Spec, BindingIsFinal
=============================================================================
