---------------------- MODULE GiveawayProjectionProofs ----------------------
(***************************************************************************)
(* The journal of a Giveaway V6 for any number of workers, entries, shards *)
(* reorganizations and faults, and what the reconstruction makes of it.    *)
(***************************************************************************)
EXTENDS GiveawayProjection, GiveawayChainProofs

-----------------------------------------------------------------------------
(* The inductive invariant. *)

\* What a worker keeps has its fields, and its cursor is a chain.
Locals(r) ==
  /\ r \in [pc : {r.pc}, fresh : BOOLEAN, cursor : {r.cursor},
             trans : {r.trans}, error : {r.error}]
  /\ IsChain(r.cursor)

Workings(f) == f = [w \in Workers |-> f[w]] /\ \A w \in Workers : Locals(f[w])

\* The records have their fields, and cursors are chains.
Shape ==
  /\ IsChain(chain) /\ forks \in Nat /\ deepest \in Nat
  /\ proj \in [cursor : {proj.cursor}, trans : {proj.trans},
               next : {proj.next}, error : {proj.error}]
  /\ IsChain(proj.cursor)
  /\ row \in [status : {row.status}, winner : {row.winner}, counted : {row.counted}]
  /\ Workings(worker)

\* Every journal, stored or in the hands of a worker, is the one of its cursor.
Exact ==
  /\ proj.trans = Transitions(proj.cursor)
  /\ \A w \in Workers : worker[w].trans = Transitions(worker[w].cursor)

Behind(c, d) == Len(c) < Len(d) => c # SubSeq(d, 1, Len(c))

\* What the revision guards: a worker that still may write has read the stored
\* cursor, and what it is about to write does not lie behind it.
Guarded ==
  \A w \in Workers : worker[w].fresh =>
    /\ Reconstruct(proj.trans).phase \notin Ended
    /\ worker[w].pc \in {"found", "claimed"} => worker[w].cursor = proj.cursor
    /\ worker[w].pc = "ready" => Behind(worker[w].cursor, proj.cursor)

\* A giveaway that is not over is open.
Following ==
  /\ row.status \in {"OPEN", "DRAWN", "NO_ENTRIES", "CANCELLED"}
  /\ RowFollowsProjection

Rooted(c) == Len(c) >= 1 /\ c[1] = [tx |-> None, fork |-> 0]

\* The blocks of a cursor are on a chain, confirmed but for the anchor.
StandingOn(c, d) ==
  /\ Len(c) <= Len(d) /\ c = SubSeq(d, 1, Len(c))
  /\ Len(c) = 1 \/ Len(c) + Conf <= Len(d)

\* What is known of a cursor when the deepest reorganization dropped deep blocks.
Sound(c, d, deep) ==
  Rooted(c) /\ (deep <= Conf /\ d[1] = [tx |-> None, fork |-> 0] => StandingOn(c, d))

Stands ==
  /\ Len(chain) >= 1 /\ \A h \in 1 .. Len(chain) : chain[h].fork \in 0 .. forks
  /\ Sound(proj.cursor, chain, deepest)
  /\ \A w \in Workers : worker[w].pc # "idle" => Sound(worker[w].cursor, chain, deepest)

LEMMA InitInvariant ==
  ASSUME Init
  PROVE  Shape /\ Exact /\ Guarded /\ Following /\ Stands
  <1> USE DEF Init
  <1>1. Shape
    BY AnchorIsChain, EmptyIsChain DEF Shape, Workings, Locals
  <1>2. Exact
    BY AnchorIsChain, EmptyIsChain DEF Exact
  <1>3. Guarded
    BY DEF Guarded
  <1>4. Following
    BY EmptyJournal DEF Following, RowFollowsProjection, Blank
  <1>5. Stands
    <2>1. Sound(Anchor, Anchor, 0)
      <3> DEFINE c == SubSeq(Anchor, 1, 1)
      <3>1. c = Anchor
        <4>1. IsChain(c) /\ Len(c) = 1 /\ \A h \in 1 .. 1 : c[h] = Anchor[h]
          BY AnchorIsChain, PrefixIsChain
        <4> HIDE DEF c
        <4> QED
          BY <4>1, AnchorIsChain, SameBlocks
      <3> QED
        BY <3>1, AnchorIsChain DEF Sound, Rooted, StandingOn
    <2>2. \A h \in 1 .. Len(Anchor) : Anchor[h].fork \in 0 .. 0
      BY AnchorIsChain
    <2>3. /\ chain = Anchor /\ proj.cursor = Anchor /\ forks = 0 /\ deepest = 0
          /\ \A w \in Workers : worker[w].pc = "idle"
      OBVIOUS
    <2> QED
      BY <2>1, <2>2, <2>3, AnchorIsChain DEF Stands
  <1> QED
    BY <1>1, <1>2, <1>3, <1>4, <1>5

\* What becomes of the workers when one of them takes a step.
LEMMA Resting ==
  ASSUME Workings(worker), NEW w \in Workers
  PROVE  /\ Workings(Rest(w))
         /\ Rest(w)[w] = [pc |-> "idle", fresh |-> FALSE, cursor |-> <<>>,
                          trans |-> {}, error |-> "none"]
         /\ \A x \in Workers \ {w} : Rest(w)[x] = worker[x]
  <1> DEFINE r == [pc |-> "idle", fresh |-> FALSE, cursor |-> <<>>,
                   trans |-> {}, error |-> "none"]
  <1>1. Locals(r)
    BY EmptyIsChain DEF Locals
  <1>2. Rest(w) = [worker EXCEPT ![w] = r]
    BY DEF Rest
  <1> HIDE DEF r
  <1>3. Workings(Rest(w)) /\ Rest(w)[w] = r /\ \A x \in Workers \ {w} : Rest(w)[x] = worker[x]
    BY <1>1, <1>2 DEF Workings
  <1> QED
    BY <1>3 DEF r

LEMMA Bumping ==
  ASSUME Workings(worker), NEW w \in Workers
  PROVE  /\ Workings(Bumped(w))
         /\ Bumped(w)[w] = Rest(w)[w]
         /\ \A x \in Workers \ {w} :
              /\ Bumped(w)[x].pc = worker[x].pc
              /\ Bumped(w)[x].cursor = worker[x].cursor
              /\ Bumped(w)[x].trans = worker[x].trans
              /\ Bumped(w)[x].error = worker[x].error
         /\ \A x \in Workers : Bumped(w)[x].fresh = FALSE
  <1>1. \A x \in Workers : Locals(Rest(w)[x])
    BY Resting DEF Workings
  <1>2. \A x \in Workers : Bumped(w)[x] = [Rest(w)[x] EXCEPT !.fresh = FALSE]
    BY DEF Bumped
  <1>3. \A x \in Workers :
          /\ Locals(Bumped(w)[x]) /\ Bumped(w)[x].fresh = FALSE
          /\ Bumped(w)[x].pc = Rest(w)[x].pc
          /\ Bumped(w)[x].cursor = Rest(w)[x].cursor
          /\ Bumped(w)[x].trans = Rest(w)[x].trans
          /\ Bumped(w)[x].error = Rest(w)[x].error
    <2> SUFFICES ASSUME NEW x \in Workers
                 PROVE  LET r == Rest(w)[x]
                            q == Bumped(w)[x]
                        IN /\ Locals(q) /\ q.fresh = FALSE /\ q.pc = r.pc
                           /\ q.cursor = r.cursor /\ q.trans = r.trans /\ q.error = r.error
      OBVIOUS
    <2> DEFINE r == Rest(w)[x]
    <2>1. Locals(r)
      BY <1>1
    <2>2. Bumped(w)[x] = [r EXCEPT !.fresh = FALSE]
      BY <1>2
    <2> HIDE DEF r
    <2>3. [r EXCEPT !.fresh = FALSE] \in
            [pc : {r.pc}, fresh : {FALSE}, cursor : {r.cursor},
             trans : {r.trans}, error : {r.error}]
      BY <2>1 DEF Locals
    <2>4. Locals(Bumped(w)[x])
      BY <2>1, <2>2, <2>3 DEF Locals
    <2> QED
      BY <2>2, <2>3, <2>4 DEF r
  <1>4. Bumped(w)[w] = Rest(w)[w]
    BY <1>2, Resting
  <1>5. Workings(Bumped(w))
    BY <1>3 DEF Workings, Bumped
  <1> QED
    BY <1>3, <1>4, <1>5, Resting

LEMMA RowKeepsFields ==
  ASSUME row \in [status : {row.status}, winner : {row.winner}, counted : {row.counted}],
         NEW before, NEW r
  PROVE  LET q == RowAfter(before, r) IN
         q \in [status : {q.status}, winner : {q.winner}, counted : {q.counted}]
  <1>1. CASE r.phase = "drawn"
    BY <1>1 DEF RowAfter
  <1>2. CASE r.phase = "returned"
    BY <1>2 DEF RowAfter
  <1>3. CASE r.phase = "frozen" /\ before # "frozen"
    BY <1>3 DEF RowAfter
  <1>4. CASE r.phase \notin {"drawn", "returned"} /\ ~(r.phase = "frozen" /\ before # "frozen")
    BY <1>4 DEF RowAfter
  <1> QED
    BY <1>1, <1>2, <1>3, <1>4

LEMMA ShapeStep ==
  ASSUME Shape, [Next]_vars
  PROVE  Shape'
  <1>0. Workings(worker) /\ \A w \in Workers : Locals(worker[w])
    BY DEF Shape, Workings
  <1>1. CASE Mine
    <2>1. IsChain(chain')
      <3>1. PICK block : chain' = Append(chain, block)
        BY <1>1 DEF Mine, Grow, Extended
      <3>2. IsChain(chain)
        BY DEF Shape
      <3> QED
        BY <3>1, <3>2, AppendIsChain
    <2> QED
      BY <1>1, <2>1 DEF Mine, Grow, Shape
  <1>2. ASSUME NEW n \in 1 .. MaxDepth, Reorganize(n)
        PROVE  Shape'
    <2>1. Len(chain) + 1 \in Nat
      BY DEF IsChain, Shape
    <2>2. chain' = [h \in 1 .. Len(chain) + 1 |-> chain'[h]]
      BY <1>2 DEF Reorganize, Switch
    <2>3. IsChain(chain')
      BY <2>1, <2>2, IntervalIsChain
    <2>4. deepest' \in Nat /\ forks' \in Nat
      BY <1>2, ChainAssumption DEF Reorganize, Switch, Shape
    <2> QED
      BY <1>2, <2>3, <2>4 DEF Reorganize, Switch, Shape
  <1>3. CASE Due
    BY <1>3 DEF Due, Shape
  <1>4. ASSUME NEW w \in Workers, Find(w)
        PROVE  Shape'
    <2> DEFINE r == [pc |-> "found", fresh |-> TRUE, error |-> "none",
                     cursor |-> proj.cursor, trans |-> proj.trans]
    <2>1. Locals(r)
      BY DEF Locals, Shape
    <2>2. worker' = [worker EXCEPT ![w] = r]
      BY <1>4 DEF Find
    <2>3. Workings(worker')
      <3> HIDE DEF r
      <3> QED
        BY <1>0, <2>1, <2>2 DEF Workings
    <2> QED
      BY <1>4, <2>3 DEF Find, Shape
  <1>5. ASSUME NEW w \in Workers, Claim(w)
        PROVE  Shape'
    <2>1. Workings([worker EXCEPT ![w].pc = "claimed"])
      BY <1>0 DEF Workings, Locals
    <2> QED
      BY <1>0, <1>5, <2>1, Resting DEF Claim, Shape
  <1>6. ASSUME NEW w \in Workers, Read(w)
        PROVE  Shape'
    <2>1. PICK f \in 0 .. Len(worker[w].cursor) :
            /\ ForkAt(f, worker[w].cursor)
            /\ \/ worker' = [worker EXCEPT
                     ![w].pc = "ready", ![w].cursor = SubSeq(chain, 1, Reach(f)),
                     ![w].trans = Advanced(f, worker[w].cursor, worker[w].trans)]
               \/ worker' = [worker EXCEPT ![w].pc = "failed",
                     ![w].error = PageError(f, worker[w].cursor, worker[w].trans)]
      BY <1>6 DEF Read
    <2>2. Reach(f) \in 0 .. Len(chain)
      <3>1. IsChain(chain) /\ f \in Nat /\ f <= Len(chain)
        BY <2>1 DEF ForkAt, Shape
      <3> QED
        BY <3>1, ReachBounds
    <2>3. IsChain(SubSeq(chain, 1, Reach(f)))
      BY <2>2, PrefixIsChain DEF Shape
    <2>4. Workings(worker')
      BY <1>0, <2>1, <2>3 DEF Workings, Locals
    <2> QED
      BY <1>6, <2>4 DEF Read, Shape
  <1>7. ASSUME NEW w \in Workers, Persist(w)
        PROVE  Shape'
    <2>1. Workings(worker')
      BY <1>0, <1>7, Resting, Bumping DEF Persist
    <2>2. /\ IsChain(proj'.cursor)
          /\ proj' \in [cursor : {proj'.cursor}, trans : {proj'.trans},
                        next : {proj'.next}, error : {proj'.error}]
      BY <1>0, <1>7 DEF Persist, Shape, Locals
    <2>3. row' \in [status : {row'.status}, winner : {row'.winner}, counted : {row'.counted}]
      BY <1>7, RowKeepsFields DEF Persist, Shape
    <2> QED
      BY <1>7, <2>1, <2>2, <2>3 DEF Persist, Shape
  <1>8. ASSUME NEW w \in Workers, RecordFailure(w)
        PROVE  Shape'
    <2>1. Workings(worker')
      BY <1>0, <1>8, Resting, Bumping DEF RecordFailure
    <2>2. /\ proj'.cursor = proj.cursor
          /\ proj' \in [cursor : {proj'.cursor}, trans : {proj'.trans},
                        next : {proj'.next}, error : {proj'.error}]
      BY <1>8 DEF RecordFailure, Shape
    <2> QED
      BY <1>8, <2>1, <2>2 DEF RecordFailure, Shape
  <1>9. ASSUME NEW w \in Workers, Crash(w)
        PROVE  Shape'
    BY <1>0, <1>9, Resting DEF Crash, Shape
  <1>10. ASSUME NEW w \in Workers, NEW code \in Faults \cup StorageFaults, CallFails(w, code)
         PROVE  Shape'
    <2>1. Workings(worker')
      BY <1>0, <1>10 DEF CallFails, Workings, Locals
    <2> QED
      BY <1>10, <2>1 DEF CallFails, Shape
  <1>11. CASE UNCHANGED vars
    BY <1>11 DEF vars, Shape
  <1> QED
    BY <1>1, <1>2, <1>3, <1>4, <1>5, <1>6, <1>7, <1>8, <1>9, <1>10, <1>11 DEF Next, Work

LEMMA RestIsExact ==
  ASSUME Workings(worker), Exact, NEW w \in Workers, NEW x \in Workers
  PROVE  /\ Rest(w)[x].trans = Transitions(Rest(w)[x].cursor)
         /\ Bumped(w)[x].trans = Transitions(Bumped(w)[x].cursor)
  <1>1. CASE x = w
    <2>1. Rest(w)[w].trans = {} /\ Rest(w)[w].cursor = <<>>
      BY Resting
    <2>2. Bumped(w)[w] = Rest(w)[w]
      BY Bumping
    <2> QED
      BY <1>1, <2>1, <2>2, EmptyIsChain
  <1>2. CASE x # w
    <2>1. Rest(w)[x] = worker[x]
      BY <1>2, Resting
    <2>2. Bumped(w)[x].trans = worker[x].trans /\ Bumped(w)[x].cursor = worker[x].cursor
      BY <1>2, Bumping
    <2> QED
      BY <2>1, <2>2 DEF Exact
  <1> QED
    BY <1>1, <1>2

LEMMA ExactStep ==
  ASSUME Shape, Exact, [Next]_vars
  PROVE  Exact'
  <1>0. Workings(worker) /\ \A w \in Workers : Locals(worker[w])
    BY DEF Shape, Workings
  <1>1. CASE Mine
    BY <1>1 DEF Mine, Grow, Exact
  <1>2. ASSUME NEW n \in 1 .. MaxDepth, Reorganize(n)
        PROVE  Exact'
    BY <1>2 DEF Reorganize, Switch, Exact
  <1>3. CASE Due
    BY <1>3 DEF Due, Exact, Shape
  <1>4. ASSUME NEW w \in Workers, Find(w)
        PROVE  Exact'
    <2>1. /\ worker'[w].cursor = proj.cursor /\ worker'[w].trans = proj.trans
          /\ \A x \in Workers \ {w} : worker'[x] = worker[x]
      BY <1>0, <1>4 DEF Find, Workings
    <2> QED
      BY <1>4, <2>1 DEF Find, Exact
  <1>5. ASSUME NEW w \in Workers, Claim(w)
        PROVE  Exact'
    <2>1. proj'.cursor = proj.cursor /\ proj'.trans = proj.trans
      BY <1>5 DEF Claim, Shape
    <2>2. CASE worker' = [worker EXCEPT ![w].pc = "claimed"]
      <3>1. \A x \in Workers : /\ worker'[x].cursor = worker[x].cursor
                               /\ worker'[x].trans = worker[x].trans
        BY <1>0, <2>2 DEF Workings, Locals
      <3> QED
        BY <2>1, <3>1 DEF Exact
    <2>3. CASE worker' = Rest(w)
      BY <1>0, <2>1, <2>3, RestIsExact DEF Exact
    <2> QED
      BY <1>5, <2>2, <2>3 DEF Claim
  <1>6. ASSUME NEW w \in Workers, Read(w)
        PROVE  Exact'
    <2> DEFINE c == worker[w].cursor
    <2>1. PICK f \in 0 .. Len(c) :
            /\ ForkAt(f, c)
            /\ \/ worker' = [worker EXCEPT
                     ![w].pc = "ready", ![w].cursor = SubSeq(chain, 1, Reach(f)),
                     ![w].trans = Advanced(f, c, worker[w].trans)]
               \/ worker' = [worker EXCEPT ![w].pc = "failed",
                     ![w].error = PageError(f, c, worker[w].trans)]
      BY <1>6 DEF Read
    <2>2. Advanced(f, c, worker[w].trans) = Transitions(SubSeq(chain, 1, Reach(f)))
      <3>1. IsChain(chain) /\ IsChain(c) /\ worker[w].trans = Transitions(c)
        BY <1>0 DEF Shape, Exact, Locals
      <3> QED
        BY <2>1, <3>1, PageIsExact
    <2>3. worker'[w].trans = Transitions(worker'[w].cursor)
      BY <1>0, <2>1, <2>2 DEF Workings, Locals, Exact
    <2>4. \A x \in Workers \ {w} : worker'[x] = worker[x]
      BY <1>0, <2>1 DEF Workings
    <2> QED
      BY <1>6, <2>3, <2>4 DEF Read, Exact
  <1>7. ASSUME NEW w \in Workers, Persist(w)
        PROVE  Exact'
    <2>1. proj'.trans = Transitions(proj'.cursor)
      BY <1>7 DEF Persist, Exact
    <2>2. \A x \in Workers : worker'[x].trans = Transitions(worker'[x].cursor)
      BY <1>0, <1>7, RestIsExact DEF Persist
    <2> QED
      BY <2>1, <2>2 DEF Exact
  <1>8. ASSUME NEW w \in Workers, RecordFailure(w)
        PROVE  Exact'
    <2>1. proj'.cursor = proj.cursor /\ proj'.trans = proj.trans
      BY <1>8 DEF RecordFailure, Shape
    <2>2. \A x \in Workers : worker'[x].trans = Transitions(worker'[x].cursor)
      BY <1>0, <1>8, RestIsExact DEF RecordFailure
    <2> QED
      BY <2>1, <2>2 DEF Exact
  <1>9. ASSUME NEW w \in Workers, Crash(w)
        PROVE  Exact'
    BY <1>0, <1>9, RestIsExact DEF Crash, Exact
  <1>10. ASSUME NEW w \in Workers, NEW code \in Faults \cup StorageFaults, CallFails(w, code)
         PROVE  Exact'
    <2>1. \A x \in Workers : /\ worker'[x].cursor = worker[x].cursor
                             /\ worker'[x].trans = worker[x].trans
      BY <1>0, <1>10 DEF CallFails, Workings, Locals
    <2> QED
      BY <1>10, <2>1 DEF CallFails, Exact
  <1>11. CASE UNCHANGED vars
    BY <1>11 DEF vars, Exact
  <1> QED
    BY <1>1, <1>2, <1>3, <1>4, <1>5, <1>6, <1>7, <1>8, <1>9, <1>10, <1>11 DEF Next, Work

\* A page never ends behind the cursor it started from.
LEMMA PageGoesOn ==
  ASSUME IsChain(chain), NEW c, IsChain(c), NEW f \in 0 .. Len(c), ForkAt(f, c),
         f = Len(c) \/ Reach(f) # f
  PROVE  Behind(SubSeq(chain, 1, Reach(f)), c)
  <1> DEFINE d == SubSeq(chain, 1, Reach(f))
  <1>1. /\ f \in Nat /\ f <= Len(chain) /\ Len(chain) \in Nat /\ Len(c) \in Nat
        /\ f < Len(c) /\ f < Len(chain) => c[f + 1] # chain[f + 1]
    BY DEF ForkAt, IsChain
  <1>2. Reach(f) \in f .. Len(chain)
    BY <1>1, ReachBounds
  <1>3. Len(d) = Reach(f) /\ \A h \in 1 .. Reach(f) : d[h] = chain[h]
    BY <1>1, <1>2, PrefixIsChain
  <1> HIDE DEF d
  <1> SUFFICES ASSUME Len(d) < Len(c)
               PROVE  d # SubSeq(c, 1, Len(d))
    BY DEF Behind, d
  <1>4. f + 1 \in 1 .. Len(d) /\ f < Len(c) /\ f < Len(chain)
    BY <1>1, <1>2, <1>3
  <1>5. SubSeq(c, 1, Len(d))[f + 1] = c[f + 1]
    BY <1>1, <1>2, <1>3, <1>4, PrefixIsChain
  <1> QED
    BY <1>1, <1>3, <1>4, <1>5

LEMMA GuardedStep ==
  ASSUME Shape, Guarded, [Next]_vars
  PROVE  Guarded'
  <1>0. Workings(worker) /\ \A w \in Workers : Locals(worker[w])
    BY DEF Shape, Workings
  <1>1. CASE Mine
    BY <1>1 DEF Mine, Grow, Guarded, Behind
  <1>2. ASSUME NEW n \in 1 .. MaxDepth, Reorganize(n)
        PROVE  Guarded'
    BY <1>2 DEF Reorganize, Switch, Guarded, Behind
  <1>3. CASE Due
    <2>1. proj'.cursor = proj.cursor /\ proj'.trans = proj.trans
      BY <1>3 DEF Due, Shape
    <2> QED
      BY <1>3, <2>1 DEF Due, Guarded, Behind
  <1>4. ASSUME NEW w \in Workers, Find(w)
        PROVE  Guarded'
    <2>1. /\ worker'[w].cursor = proj.cursor /\ worker'[w].pc = "found"
          /\ \A x \in Workers \ {w} : worker'[x] = worker[x]
      BY <1>0, <1>4 DEF Find, Workings
    <2> QED
      BY <1>4, <2>1 DEF Find, Guarded, Behind
  <1>5. ASSUME NEW w \in Workers, Claim(w)
        PROVE  Guarded'
    <2>1. proj'.cursor = proj.cursor /\ proj'.trans = proj.trans
      BY <1>5 DEF Claim, Shape
    <2>2. CASE worker' = [worker EXCEPT ![w].pc = "claimed"]
      <3>1. /\ worker'[w].cursor = worker[w].cursor /\ worker'[w].fresh = worker[w].fresh
            /\ worker'[w].pc = "claimed" /\ worker[w].pc = "found"
            /\ \A x \in Workers \ {w} : worker'[x] = worker[x]
        BY <1>0, <1>5, <2>2 DEF Workings, Locals, Claim
      <3> QED
        BY <2>1, <3>1 DEF Guarded, Behind
    <2>3. CASE worker' = Rest(w)
      BY <1>0, <2>1, <2>3, Resting DEF Guarded, Behind
    <2> QED
      BY <1>5, <2>2, <2>3 DEF Claim
  <1>6. ASSUME NEW w \in Workers, Read(w)
        PROVE  Guarded'
    <2> DEFINE c == worker[w].cursor
               e(f) == PageError(f, c, worker[w].trans)
    <2>1. PICK f \in 0 .. Len(c) :
            /\ ForkAt(f, c)
            /\ worker' = IF e(f) = "none"
                 THEN [worker EXCEPT
                     ![w].pc = "ready", ![w].cursor = SubSeq(chain, 1, Reach(f)),
                     ![w].trans = Advanced(f, c, worker[w].trans)]
                 ELSE [worker EXCEPT ![w].pc = "failed", ![w].error = e(f)]
      BY <1>6 DEF Read
    <2>2. /\ worker[w].pc = "claimed" /\ worker'[w].fresh = worker[w].fresh
          /\ \A x \in Workers \ {w} : worker'[x] = worker[x]
          /\ worker'[w].pc = IF e(f) = "none" THEN "ready" ELSE "failed"
          /\ e(f) = "none" => worker'[w].cursor = SubSeq(chain, 1, Reach(f))
      BY <1>0, <1>6, <2>1 DEF Read, Workings, Locals
    <2>3. e(f) = "none" => f = Len(c) \/ Reach(f) # f
      BY <2>1 DEF PageError, ForkAt
    <2>4. e(f) = "none" => Behind(worker'[w].cursor, c)
      <3>1. IsChain(chain) /\ IsChain(c)
        BY <1>0 DEF Shape, Locals
      <3> QED
        BY <2>1, <2>2, <2>3, <3>1, PageGoesOn
    <2>5. worker[w].fresh => c = proj.cursor
      BY <2>2 DEF Guarded
    <2> QED
      BY <1>6, <2>2, <2>4, <2>5 DEF Read, Guarded, Behind
  <1>7. ASSUME NEW w \in Workers, Persist(w)
        PROVE  Guarded'
    <2>1. CASE worker[w].fresh
      BY <1>0, <1>7, <2>1, Bumping DEF Persist, Guarded
    <2>2. CASE ~worker[w].fresh
      BY <1>0, <1>7, <2>2, Resting DEF Persist, Guarded, Behind
    <2> QED
      BY <2>1, <2>2
  <1>8. ASSUME NEW w \in Workers, RecordFailure(w)
        PROVE  Guarded'
    <2>1. CASE worker[w].fresh
      BY <1>0, <1>8, <2>1, Bumping DEF RecordFailure, Guarded
    <2>2. CASE ~worker[w].fresh
      BY <1>0, <1>8, <2>2, Resting DEF RecordFailure, Guarded, Behind
    <2> QED
      BY <2>1, <2>2
  <1>9. ASSUME NEW w \in Workers, Crash(w)
        PROVE  Guarded'
    BY <1>0, <1>9, Resting DEF Crash, Guarded, Behind
  <1>10. ASSUME NEW w \in Workers, NEW code \in Faults \cup StorageFaults, CallFails(w, code)
         PROVE  Guarded'
    <2>1. /\ worker'[w].fresh = worker[w].fresh /\ worker'[w].pc = "failed"
          /\ \A x \in Workers \ {w} : worker'[x] = worker[x]
      BY <1>0, <1>10 DEF CallFails, Workings, Locals
    <2> QED
      BY <1>10, <2>1 DEF CallFails, Guarded, Behind
  <1>11. CASE UNCHANGED vars
    BY <1>11 DEF vars, Guarded, Behind
  <1> QED
    BY <1>1, <1>2, <1>3, <1>4, <1>5, <1>6, <1>7, <1>8, <1>9, <1>10, <1>11 DEF Next, Work

LEMMA FollowingStep ==
  ASSUME Shape, Guarded, Following, [Next]_vars
  PROVE  Following'
  <1>1. CASE proj'.trans = proj.trans /\ row' = row
    BY <1>1 DEF Following, RowFollowsProjection
  <1>2. ASSUME NEW w \in Workers, Persist(w), worker[w].fresh
        PROVE  Following'
    <2> DEFINE before == Reconstruct(proj.trans)
               r == Reconstruct(worker[w].trans)
    <2>1. /\ proj'.trans = worker[w].trans
          /\ row' = RowAfter(before.phase, r)
      BY <1>2 DEF Persist
    <2>2. row.status = "OPEN"
      BY <1>2 DEF Guarded, Following, RowFollowsProjection, Ended
    <2> HIDE DEF before, r
    <2>3. Reconstruct(proj'.trans) = r
      BY <2>1 DEF r
    <2>4. CASE r.phase = "drawn"
      <3>1. row' = [status |-> "DRAWN", winner |-> r.winner, counted |-> r.frozen.counted]
        BY <2>1, <2>4 DEF RowAfter
      <3> QED
        BY <2>3, <2>4, <3>1 DEF Following, RowFollowsProjection
    <2>5. CASE r.phase = "returned"
      <3>1. row'.status = IF Listed(r.frozen.counted) = <<>> THEN "NO_ENTRIES"
                                                             ELSE "CANCELLED"
        BY <2>1, <2>5 DEF RowAfter, Shape
      <3> QED
        BY <2>3, <2>5, <3>1 DEF Following, RowFollowsProjection
    <2>6. CASE r.phase \notin {"drawn", "returned"}
      <3>1. row'.status = "OPEN"
        BY <2>1, <2>2, <2>6 DEF RowAfter, Shape
      <3> QED
        BY <2>3, <2>6, <3>1 DEF Following, RowFollowsProjection
    <2> QED
      BY <2>4, <2>5, <2>6
  <1>3. ASSUME NEW w \in Workers, Work(w), ~(Persist(w) /\ worker[w].fresh)
        PROVE  proj'.trans = proj.trans /\ row' = row
    BY <1>3 DEF Work, Find, Claim, Read, Persist, RecordFailure, Shape
  <1>4. CASE Mine \/ Due \/ UNCHANGED vars
    BY <1>1, <1>4 DEF Mine, Grow, Due, vars, Shape
  <1>5. ASSUME NEW n \in 1 .. MaxDepth, Reorganize(n)
        PROVE  Following'
    BY <1>1, <1>5 DEF Reorganize, Switch
  <1>6. ASSUME NEW w \in Workers, Crash(w) \/ \E code \in Faults \cup StorageFaults : CallFails(w, code)
        PROVE  Following'
    BY <1>1, <1>6 DEF Crash, CallFails
  <1> QED
    BY <1>1, <1>2, <1>3, <1>4, <1>5, <1>6 DEF Next

\* A cursor goes on standing on a chain that keeps its blocks.
LEMMA StandingCarries ==
  ASSUME NEW c, NEW d, NEW e, IsChain(c), IsChain(d), IsChain(e),
         StandingOn(c, d), Len(d) <= Len(e), \A h \in 1 .. Len(c) : e[h] = d[h]
  PROVE  StandingOn(c, e)
  <1>1. Len(c) \in 0 .. Len(d) /\ Len(c) \in 0 .. Len(e) /\ Len(d) \in Nat /\ Len(e) \in Nat
    BY DEF StandingOn, IsChain
  <1>2. \A h \in 1 .. Len(c) : c[h] = d[h]
    BY <1>1, PrefixIsChain DEF StandingOn
  <1> DEFINE g == SubSeq(e, 1, Len(c))
  <1>3. g = c
    <2>1. IsChain(g) /\ Len(g) = Len(c) /\ \A h \in 1 .. Len(c) : g[h] = e[h]
      BY <1>1, PrefixIsChain
    <2> HIDE DEF g
    <2> QED
      BY <1>2, <2>1, SameBlocks
  <1> QED
    BY <1>1, <1>3, ChainAssumption DEF StandingOn

\* A page from a sound cursor ends in a sound cursor.
LEMMA PageIsSound ==
  ASSUME IsChain(chain), NEW c, IsChain(c), Sound(c, chain, deepest),
         NEW f \in 1 .. Len(c), ForkAt(f, c)
  PROVE  Sound(SubSeq(chain, 1, Reach(f)), chain, deepest)
  <1> DEFINE d == SubSeq(chain, 1, Reach(f))
  <1>1. /\ f \in Nat /\ f <= Len(chain) /\ Len(chain) \in Nat /\ Len(c) \in Nat
        /\ f < Len(c) /\ f < Len(chain) => c[f + 1] # chain[f + 1]
    BY DEF ForkAt, IsChain
  <1>2. Reach(f) \in f .. Len(chain)
    BY <1>1, ReachBounds
  <1>3. Len(d) = Reach(f) /\ \A h \in 1 .. Reach(f) : d[h] = chain[h]
    BY <1>1, <1>2, PrefixIsChain
  <1>4. SubSeq(c, 1, f)[1] = c[1] /\ SubSeq(chain, 1, f)[1] = chain[1]
    BY <1>1, PrefixIsChain
  <1>5. d[1] = c[1] /\ Len(d) >= 1
    BY <1>1, <1>2, <1>3, <1>4 DEF ForkAt
  <1>6. ASSUME StandingOn(c, chain)
        PROVE  StandingOn(d, chain)
    <2>1. f = Len(c)
      <3> SUFFICES ASSUME f < Len(c)
                   PROVE  FALSE
        BY <1>1
      <3>1. Len(c) \in 0 .. Len(chain) /\ f < Len(chain) /\ f + 1 \in 1 .. Len(c)
        BY <1>1, <1>6 DEF StandingOn
      <3>2. c[f + 1] = chain[f + 1]
        BY <1>6, <3>1, PrefixIsChain DEF StandingOn
      <3> QED
        BY <1>1, <3>1, <3>2
    <2>2. CASE Reach(f) = f
      BY <1>6, <2>1, <2>2 DEF StandingOn
    <2>3. CASE Reach(f) # f
      <3>1. Reach(f) + Conf = Len(chain)
        BY <1>1, <2>3, ChainAssumption DEF Reach
      <3> HIDE DEF d
      <3>2. Len(d) <= Len(chain) /\ Len(d) + Conf <= Len(chain) /\ d = SubSeq(chain, 1, Len(d))
        BY <1>1, <1>2, <1>3, <3>1, ChainAssumption DEF d
      <3> QED
        BY <3>2 DEF StandingOn
    <2> QED
      BY <2>2, <2>3
  <1> HIDE DEF d
  <1>7. Sound(d, chain, deepest)
    BY <1>5, <1>6 DEF Sound, Rooted
  <1> QED
    BY <1>7 DEF d

LEMMA StandsStep ==
  ASSUME Shape, Stands, [Next]_vars
  PROVE  Stands'
  <1>0. /\ Workings(worker) /\ \A w \in Workers : Locals(worker[w])
        /\ IsChain(chain) /\ IsChain(proj.cursor) /\ Len(chain) \in Nat
        /\ forks \in Nat /\ deepest \in Nat
    BY DEF Shape, Workings, IsChain
  <1>1. CASE Mine
    <2>1. PICK t : chain' = Append(chain, [tx |-> t, fork |-> forks])
      BY <1>1 DEF Mine, Grow, Extended
    <2>2. /\ IsChain(chain') /\ Len(chain') = Len(chain) + 1
          /\ \A h \in 1 .. Len(chain) : chain'[h] = chain[h]
          /\ chain'[Len(chain) + 1].fork = forks
      BY <1>0, <2>1, AppendIsChain
    <2>3. ASSUME NEW c, IsChain(c), Sound(c, chain, deepest)
          PROVE  Sound(c, chain', deepest')
      <3>1. StandingOn(c, chain) => StandingOn(c, chain')
        <4>1. StandingOn(c, chain) => Len(c) \in 0 .. Len(chain)
          BY <2>3 DEF StandingOn, IsChain
        <4> QED
          BY <1>0, <2>2, <2>3, <4>1, StandingCarries
      <3> QED
        BY <1>0, <1>1, <2>2, <2>3, <3>1 DEF Mine, Grow, Sound, Stands
    <2>4. \A h \in 1 .. Len(chain') : chain'[h].fork \in 0 .. forks'
      BY <1>0, <1>1, <2>2 DEF Mine, Grow, Stands
    <2> QED
      BY <1>0, <1>1, <2>2, <2>3, <2>4 DEF Mine, Grow, Stands, Locals
  <1>2. ASSUME NEW n \in 1 .. MaxDepth, Reorganize(n)
        PROVE  Stands'
    <2>1. PICK branch :
            chain' = [h \in 1 .. Len(chain) + 1 |->
                        IF h <= Len(chain) - n THEN chain[h]
                        ELSE [tx |-> branch[h].tx, fork |-> forks + 1]]
      BY <1>2 DEF Reorganize, Switch
    <2>2. IsChain(chain') /\ Len(chain') = Len(chain) + 1
      BY <1>0, <2>1, IntervalIsChain
    <2>3. n \in 1 .. Len(chain)
      BY <1>2 DEF Reorganize, Switch
    <2>4. /\ \A h \in 1 .. Len(chain) - n : chain'[h] = chain[h]
          /\ \A h \in Len(chain) - n + 1 .. Len(chain) + 1 : chain'[h].fork = forks + 1
          /\ forks' = forks + 1
      BY <1>0, <1>2, <2>1, <2>3 DEF Reorganize, Switch
    <2>5. deepest' <= Conf => n <= Conf /\ deepest <= Conf
      BY <1>0, <1>2, <2>3, ChainAssumption DEF Reorganize, Switch
    <2>6. chain'[1] = [tx |-> None, fork |-> 0] => n < Len(chain) /\ chain'[1] = chain[1]
      BY <1>0, <2>3, <2>4
    <2>7. ASSUME NEW c, IsChain(c), Sound(c, chain, deepest)
          PROVE  Sound(c, chain', deepest')
      <3> SUFFICES ASSUME deepest' <= Conf, chain'[1] = [tx |-> None, fork |-> 0]
                   PROVE  StandingOn(c, chain')
        BY <2>7 DEF Sound
      <3>1. StandingOn(c, chain) /\ Len(c) \in Nat
        BY <2>5, <2>6, <2>7 DEF Sound, IsChain
      <3>2. Len(c) <= Len(chain) - n
        BY <1>0, <2>3, <2>5, <2>6, <3>1, ChainAssumption DEF StandingOn
      <3>3. \A h \in 1 .. Len(c) : chain'[h] = chain[h]
        BY <1>0, <2>3, <2>4, <3>1, <3>2
      <3> QED
        BY <1>0, <2>2, <2>7, <3>1, <3>3, StandingCarries
    <2>8. \A h \in 1 .. Len(chain') : chain'[h].fork \in 0 .. forks'
      <3> SUFFICES ASSUME NEW h \in 1 .. Len(chain')
                   PROVE  chain'[h].fork \in 0 .. forks'
        OBVIOUS
      <3>1. CASE h <= Len(chain) - n
        <4>1. h \in 1 .. Len(chain) /\ chain'[h] = chain[h]
          BY <1>0, <2>3, <2>4, <3>1
        <4>2. chain[h].fork \in 0 .. forks
          BY <4>1 DEF Stands
        <4> QED
          BY <1>0, <2>4, <4>1, <4>2
      <3>2. CASE ~(h <= Len(chain) - n)
        <4>1. h \in Len(chain) - n + 1 .. Len(chain) + 1
          BY <1>0, <2>2, <2>3, <3>2
        <4>2. chain'[h].fork = forks + 1
          BY <2>4, <4>1
        <4> QED
          BY <1>0, <2>4, <4>2
      <3> QED
        BY <3>1, <3>2
    <2>9. UNCHANGED <<proj, worker>>
      BY <1>2 DEF Reorganize
    <2> QED
      BY <1>0, <2>2, <2>7, <2>8, <2>9 DEF Stands, Locals
  <1>3. CASE Due
    BY <1>3 DEF Due, Stands, Shape
  <1>4. ASSUME NEW w \in Workers, Find(w)
        PROVE  Stands'
    <2>1. /\ worker'[w].cursor = proj.cursor
          /\ \A x \in Workers \ {w} : worker'[x] = worker[x]
      BY <1>0, <1>4 DEF Find, Workings
    <2> QED
      BY <1>4, <2>1 DEF Find, Stands
  <1>5. ASSUME NEW w \in Workers, Claim(w)
        PROVE  Stands'
    <2>1. proj'.cursor = proj.cursor
      BY <1>5 DEF Claim, Shape
    <2>2. CASE worker' = [worker EXCEPT ![w].pc = "claimed"]
      <3>1. /\ worker[w].pc = "found"
            /\ \A x \in Workers : /\ worker'[x].cursor = worker[x].cursor
                                  /\ x # w => worker'[x].pc = worker[x].pc
        BY <1>0, <1>5, <2>2 DEF Workings, Locals, Claim
      <3> QED
        BY <1>5, <2>1, <3>1 DEF Claim, Stands
    <2>3. CASE worker' = Rest(w)
      BY <1>0, <1>5, <2>1, <2>3, Resting DEF Claim, Stands
    <2> QED
      BY <1>5, <2>2, <2>3 DEF Claim
  <1>6. ASSUME NEW w \in Workers, Read(w)
        PROVE  Stands'
    <2> DEFINE c == worker[w].cursor
               e(f) == PageError(f, c, worker[w].trans)
    <2>1. PICK f \in 0 .. Len(c) :
            /\ ForkAt(f, c)
            /\ worker' = IF e(f) = "none"
                 THEN [worker EXCEPT
                     ![w].pc = "ready", ![w].cursor = SubSeq(chain, 1, Reach(f)),
                     ![w].trans = Advanced(f, c, worker[w].trans)]
                 ELSE [worker EXCEPT ![w].pc = "failed", ![w].error = e(f)]
      BY <1>6 DEF Read
    <2>2. /\ worker[w].pc = "claimed"
          /\ \A x \in Workers \ {w} : worker'[x] = worker[x]
          /\ worker'[w].cursor = IF e(f) = "none" THEN SubSeq(chain, 1, Reach(f)) ELSE c
      BY <1>0, <1>6, <2>1 DEF Read, Workings, Locals
    <2>3. Sound(c, chain, deepest)
      BY <2>2 DEF Stands
    <2>4. e(f) = "none" => f # 0
      BY DEF PageError
    <2>5. Sound(worker'[w].cursor, chain, deepest)
      <3>1. CASE e(f) = "none"
        <4>1. IsChain(c) /\ f \in 1 .. Len(c) /\ ForkAt(f, c)
          <5>0. IsChain(c)
            BY <1>0 DEF Locals
          <5>1. IsChain(c) /\ Len(c) \in Nat
            <6> HIDE DEF c
            <6> QED
              BY <5>0 DEF IsChain
          <5>2. f # 0
            BY <2>4, <3>1
          <5> QED
            BY <2>1, <5>1, <5>2
        <4> QED
          BY <1>0, <2>2, <2>3, <3>1, <4>1, PageIsSound
      <3>2. CASE e(f) # "none"
        BY <2>2, <2>3, <3>2
      <3> QED
        BY <3>1, <3>2
    <2> QED
      BY <1>6, <2>2, <2>5 DEF Read, Stands
  <1>7. ASSUME NEW w \in Workers, Persist(w)
        PROVE  Stands'
    <2>1. CASE worker[w].fresh
      <3>1. proj'.cursor = worker[w].cursor /\ worker[w].pc # "idle"
        BY <1>7, <2>1 DEF Persist
      <3>2. /\ worker' = Bumped(w) /\ Bumped(w)[w].pc = "idle"
            /\ \A x \in Workers \ {w} : /\ Bumped(w)[x].pc = worker[x].pc
                                        /\ Bumped(w)[x].cursor = worker[x].cursor
        <4>1. worker' = Bumped(w)
          BY <1>7, <2>1 DEF Persist
        <4>2. Rest(w)[w].pc = "idle"
          BY <1>0, Resting
        <4>3. Bumped(w)[w].pc = "idle"
          BY <1>0, <4>2, Bumping
        <4> QED
          BY <1>0, <4>1, <4>3, Bumping
      <3> QED
        BY <1>7, <3>1, <3>2 DEF Persist, Stands
    <2>2. CASE ~worker[w].fresh
      BY <1>0, <1>7, <2>2, Resting DEF Persist, Stands
    <2> QED
      BY <2>1, <2>2
  <1>8. ASSUME NEW w \in Workers, RecordFailure(w)
        PROVE  Stands'
    <2>1. proj'.cursor = proj.cursor
      BY <1>8 DEF RecordFailure, Shape
    <2>2. CASE worker[w].fresh
      <3>1. /\ worker' = Bumped(w) /\ Bumped(w)[w].pc = "idle"
            /\ \A x \in Workers \ {w} : /\ Bumped(w)[x].pc = worker[x].pc
                                        /\ Bumped(w)[x].cursor = worker[x].cursor
        <4>1. worker' = Bumped(w)
          BY <1>8, <2>2 DEF RecordFailure
        <4>2. Rest(w)[w].pc = "idle"
          BY <1>0, Resting
        <4>3. Bumped(w)[w].pc = "idle"
          BY <1>0, <4>2, Bumping
        <4> QED
          BY <1>0, <4>1, <4>3, Bumping
      <3> QED
        BY <1>8, <2>1, <3>1 DEF RecordFailure, Stands
    <2>3. CASE ~worker[w].fresh
      BY <1>0, <1>8, <2>1, <2>3, Resting DEF RecordFailure, Stands
    <2> QED
      BY <2>2, <2>3
  <1>9. ASSUME NEW w \in Workers, Crash(w)
        PROVE  Stands'
    BY <1>0, <1>9, Resting DEF Crash, Stands
  <1>10. ASSUME NEW w \in Workers, NEW code \in Faults \cup StorageFaults, CallFails(w, code)
         PROVE  Stands'
    <2>1. /\ worker[w].pc # "idle"
          /\ \A x \in Workers : /\ worker'[x].cursor = worker[x].cursor
                                /\ x # w => worker'[x].pc = worker[x].pc
      BY <1>0, <1>10 DEF CallFails, Workings, Locals
    <2> QED
      BY <1>10, <2>1 DEF CallFails, Stands
  <1>11. CASE UNCHANGED vars
    BY <1>11 DEF vars, Stands
  <1> QED
    BY <1>1, <1>2, <1>3, <1>4, <1>5, <1>6, <1>7, <1>8, <1>9, <1>10, <1>11 DEF Next, Work

-----------------------------------------------------------------------------
(* What the chain and the cursors are: histories that the contracts allow.  *)

Within(c) == Legal(c) /\ Len(c) <= MaxScore

\* The blocks of a cursor are confirmed but for the anchor.
Confirmed(c, d) == Rooted(c) /\ (Len(c) = 1 \/ Len(c) + Conf <= Len(d))

Lawful ==
  /\ forks \in 0 .. MaxForks
  /\ Within(chain) /\ Within(proj.cursor) /\ Confirmed(proj.cursor, chain)
  /\ \A w \in Workers : /\ Within(worker[w].cursor)
                        /\ worker[w].pc # "idle" => Confirmed(worker[w].cursor, chain)

\* A cursor that a step leaves in the hands of a worker.
Carried(c, w) ==
  \/ worker[w].pc # "idle" /\ c = worker[w].cursor
  \/ c = proj.cursor
  \/ /\ worker[w].pc = "claimed" /\ chain' = chain
     /\ \E f \in 1 .. Len(worker[w].cursor) :
          ForkAt(f, worker[w].cursor) /\ c = SubSeq(chain, 1, Reach(f))

\* Where the cursors of the next state come from.
LEMMA CursorsStep ==
  ASSUME Shape, [Next]_vars
  PROVE  /\ \/ proj'.cursor = proj.cursor
            \/ \E w \in Workers : worker[w].pc # "idle" /\ proj'.cursor = worker[w].cursor
         /\ \A w \in Workers :
              \/ worker'[w].pc = "idle" /\ worker'[w].cursor \in {<<>>, worker[w].cursor}
              \/ worker'[w].pc # "idle" /\ Carried(worker'[w].cursor, w)
  <1> DEFINE Stored == \/ proj'.cursor = proj.cursor
                       \/ \E w \in Workers : /\ worker[w].pc # "idle"
                                             /\ proj'.cursor = worker[w].cursor
             Held(w) == \/ worker'[w].pc = "idle" /\ worker'[w].cursor \in {<<>>, worker[w].cursor}
                        \/ worker'[w].pc # "idle" /\ Carried(worker'[w].cursor, w)
  <1> SUFFICES Stored /\ \A w \in Workers : Held(w)
    OBVIOUS
  <1>0. Workings(worker) /\ \A w \in Workers : Locals(worker[w])
    BY DEF Shape, Workings
  <1>1. ASSUME NEW w \in Workers, worker'[w].pc = worker[w].pc,
               worker'[w].cursor = worker[w].cursor
        PROVE  Held(w)
    BY <1>1 DEF Carried
  <1>2. CASE UNCHANGED <<proj, worker>>
    BY <1>1, <1>2
  <1>3. CASE Due
    BY <1>1, <1>3 DEF Due, Shape
  <1>4. ASSUME NEW w \in Workers, Find(w)
        PROVE  Stored /\ \A x \in Workers : Held(x)
    <2>1. /\ worker'[w].cursor = proj.cursor /\ worker'[w].pc = "found"
          /\ \A x \in Workers \ {w} : worker'[x] = worker[x]
      BY <1>0, <1>4 DEF Find, Workings
    <2> QED
      BY <1>1, <1>4, <2>1 DEF Find, Carried
  <1>5. ASSUME NEW w \in Workers, worker' = Rest(w) \/ worker' = Bumped(w)
        PROVE  \A x \in Workers : Held(x)
    <2>0. /\ Rest(w)[w] = [pc |-> "idle", fresh |-> FALSE, cursor |-> <<>>,
                            trans |-> {}, error |-> "none"]
          /\ \A x \in Workers \ {w} : Rest(w)[x] = worker[x]
          /\ Bumped(w)[w] = Rest(w)[w]
          /\ \A x \in Workers \ {w} : /\ Bumped(w)[x].pc = worker[x].pc
                                     /\ Bumped(w)[x].cursor = worker[x].cursor
      BY <1>0, Resting, Bumping
    <2>1. worker'[w].pc = "idle" /\ worker'[w].cursor = <<>>
      BY <1>5, <2>0
    <2>2. \A x \in Workers \ {w} : /\ worker'[x].pc = worker[x].pc
                                 /\ worker'[x].cursor = worker[x].cursor
      BY <1>5, <2>0
    <2> QED
      BY <1>1, <2>1, <2>2
  <1>6. ASSUME NEW w \in Workers, Claim(w)
        PROVE  Stored /\ \A x \in Workers : Held(x)
    <2>1. proj'.cursor = proj.cursor
      BY <1>6 DEF Claim, Shape
    <2>2. CASE worker' = [worker EXCEPT ![w].pc = "claimed"]
      <3>1. /\ worker[w].pc # "idle" /\ worker'[w].pc # "idle"
            /\ worker'[w].cursor = worker[w].cursor
            /\ \A x \in Workers \ {w} : worker'[x] = worker[x]
        BY <1>0, <1>6, <2>2 DEF Workings, Locals, Claim
      <3> QED
        BY <1>1, <2>1, <3>1 DEF Carried
    <2> QED
      BY <1>5, <1>6, <2>1, <2>2 DEF Claim
  <1>7. ASSUME NEW w \in Workers, Read(w)
        PROVE  Stored /\ \A x \in Workers : Held(x)
    <2> DEFINE c == worker[w].cursor
               e(f) == PageError(f, c, worker[w].trans)
    <2>1. PICK f \in 0 .. Len(c) :
            /\ ForkAt(f, c)
            /\ worker' = IF e(f) = "none"
                 THEN [worker EXCEPT
                     ![w].pc = "ready", ![w].cursor = SubSeq(chain, 1, Reach(f)),
                     ![w].trans = Advanced(f, c, worker[w].trans)]
                 ELSE [worker EXCEPT ![w].pc = "failed", ![w].error = e(f)]
      BY <1>7 DEF Read
    <2>2. /\ worker[w].pc = "claimed" /\ worker'[w].pc \in {"ready", "failed"}
          /\ \A x \in Workers \ {w} : worker'[x] = worker[x]
          /\ worker'[w].cursor = IF e(f) = "none" THEN SubSeq(chain, 1, Reach(f)) ELSE c
          /\ chain' = chain /\ proj' = proj
      BY <1>0, <1>7, <2>1 DEF Read, Workings, Locals
    <2>3. e(f) = "none" => f # 0
      BY DEF PageError
    <2>4. e(f) = "none" => f \in 1 .. Len(c)
      <3>1. IsChain(c)
        BY <1>0 DEF Locals
      <3> HIDE DEF c
      <3>2. Len(c) \in Nat
        BY <3>1 DEF IsChain
      <3> QED
        BY <2>1, <2>3, <3>2
    <2>5. Held(w)
      BY <2>1, <2>2, <2>4 DEF Carried
    <2> QED
      BY <1>1, <2>2, <2>5
  <1>8. ASSUME NEW w \in Workers, Persist(w)
        PROVE  Stored /\ \A x \in Workers : Held(x)
    BY <1>5, <1>8 DEF Persist
  <1>9. ASSUME NEW w \in Workers, RecordFailure(w)
        PROVE  Stored /\ \A x \in Workers : Held(x)
    <2>1. proj'.cursor = proj.cursor
      BY <1>9 DEF RecordFailure, Shape
    <2> QED
      BY <1>5, <1>9, <2>1 DEF RecordFailure
  <1>10. ASSUME NEW w \in Workers, Crash(w)
         PROVE  Stored /\ \A x \in Workers : Held(x)
    BY <1>5, <1>10 DEF Crash
  <1>11. ASSUME NEW w \in Workers, NEW code \in Faults \cup StorageFaults, CallFails(w, code)
         PROVE  Stored /\ \A x \in Workers : Held(x)
    <2>1. /\ worker[w].pc # "idle" /\ worker'[w].pc # "idle"
          /\ worker'[w].cursor = worker[w].cursor
          /\ \A x \in Workers \ {w} : worker'[x] = worker[x]
      BY <1>0, <1>11 DEF CallFails, Workings, Locals
    <2> QED
      BY <1>1, <1>11, <2>1 DEF CallFails, Carried
  <1>12. CASE Mine \/ (\E n \in 1 .. MaxDepth : Reorganize(n)) \/ UNCHANGED vars
    BY <1>2, <1>12 DEF Mine, Reorganize, vars
  <1> HIDE DEF Stored, Held
  <1> QED
    BY <1>3, <1>4, <1>6, <1>7, <1>8, <1>9, <1>10, <1>11, <1>12 DEF Next, Work

\* The chain never gets shorter, and an anchor that left it does not come back.
LEMMA ChainStep ==
  ASSUME Shape, Stands, Lawful, [Next]_vars
  PROVE  /\ Within(chain') /\ Len(chain) <= Len(chain') /\ forks' \in 0 .. MaxForks
         /\ chain[1] # [tx |-> None, fork |-> 0] => chain'[1] # [tx |-> None, fork |-> 0]
  <1>0. /\ Legal(chain) /\ IsChain(chain) /\ Len(chain) \in Nat /\ Len(chain) >= 1
        /\ Len(chain) <= MaxScore /\ forks \in 0 .. MaxForks /\ forks \in Nat
        /\ MaxScore \in Nat /\ MaxForks \in Nat
    BY ChainAssumption DEF Stands, Lawful, Within, Legal, IsChain
  <1>1. CASE UNCHANGED <<chain, forks>>
    BY <1>0, <1>1 DEF Within
  <1>2. CASE Mine
    <2>1. chain' \in Extended(chain, forks) /\ Len(chain) < MaxScore /\ forks' = forks
      BY <1>2 DEF Mine, Grow
    <2>2. Legal(chain')
      BY <1>0, <2>1, GrowIsLegal DEF Stands
    <2>3. PICK block : chain' = Append(chain, block)
      BY <2>1 DEF Extended
    <2>4. Len(chain') = Len(chain) + 1 /\ chain'[1] = chain[1]
      BY <1>0, <2>3, AppendIsChain
    <2> QED
      BY <1>0, <2>1, <2>2, <2>4 DEF Within
  <1>3. ASSUME NEW n \in 1 .. MaxDepth, Reorganize(n)
        PROVE  /\ Within(chain') /\ Len(chain) <= Len(chain') /\ forks' \in 0 .. MaxForks
               /\ chain[1] # [tx |-> None, fork |-> 0] => chain'[1] # [tx |-> None, fork |-> 0]
    <2>1. /\ Switch(n) /\ n \in Nat /\ n \in 1 .. Len(chain) /\ Len(chain) < MaxScore
          /\ forks' = forks + 1 /\ forks < MaxForks
      <3>1. Switch(n)
        BY <1>3 DEF Reorganize
      <3>2. /\ n \in 1 .. Len(chain) /\ Len(chain) < MaxScore
            /\ forks' = forks + 1 /\ forks < MaxForks
        BY <3>1 DEF Switch
      <3>3. n \in Nat
        BY <1>0, <3>2
      <3> QED
        BY <3>1, <3>2, <3>3
    <2>2. Legal(chain') /\ Len(chain') = Len(chain) + 1
      BY <1>0, <2>1, SwitchIsLegal DEF Stands
    <2>3. PICK branch :
            chain' = [h \in 1 .. Len(chain) + 1 |->
                        IF h <= Len(chain) - n THEN chain[h]
                        ELSE [tx |-> branch[h].tx, fork |-> forks + 1]]
      BY <2>1 DEF Switch
    <2>4. chain'[1] = chain[1] \/ chain'[1].fork = forks + 1
      BY <1>0, <2>3
    <2>5. chain'[1].fork = forks + 1 => chain'[1] # [tx |-> None, fork |-> 0]
      <3> SUFFICES ASSUME chain'[1].fork = forks + 1, chain'[1] = [tx |-> None, fork |-> 0]
                   PROVE  FALSE
        OBVIOUS
      <3>1. chain'[1].fork = 0
        OBVIOUS
      <3> QED
        BY <1>0, <3>1
    <2> QED
      BY <1>0, <2>1, <2>2, <2>4, <2>5 DEF Within
  <1>4. CASE Due
    BY <1>1, <1>4 DEF Due
  <1>5. ASSUME NEW w \in Workers,
               Work(w) \/ Crash(w) \/ \E code \in Faults \cup StorageFaults : CallFails(w, code)
        PROVE  UNCHANGED <<chain, forks>>
    BY <1>5 DEF Work, Find, Claim, Read, Persist, RecordFailure, Crash, CallFails
  <1>6. CASE UNCHANGED vars
    BY <1>1, <1>6 DEF vars
  <1> QED
    BY <1>1, <1>2, <1>3, <1>4, <1>5, <1>6 DEF Next

\* A page of the chain is confirmed and allowed as the chain is.
LEMMA PageIsLawful ==
  ASSUME Within(chain), NEW c, Within(c), Confirmed(c, chain), NEW f \in 1 .. Len(c), ForkAt(f, c)
  PROVE  Within(SubSeq(chain, 1, Reach(f))) /\ Confirmed(SubSeq(chain, 1, Reach(f)), chain)
  <1> DEFINE d == SubSeq(chain, 1, Reach(f))
  <1>1. /\ IsChain(chain) /\ IsChain(c) /\ Len(chain) \in Nat /\ Len(c) \in Nat
        /\ f \in Nat /\ f <= Len(chain) /\ Len(chain) <= MaxScore /\ MaxScore \in Nat
        /\ Conf \in Nat
    BY ChainAssumption DEF Within, Legal, IsChain, ForkAt
  <1>2. Reach(f) \in f .. Len(chain)
    BY <1>1, ReachBounds
  <1>3. Legal(d) /\ Len(d) = Reach(f) /\ \A h \in 1 .. Reach(f) : d[h] = chain[h]
    BY <1>1, <1>2, PrefixIsLegal, PrefixIsChain DEF Within
  <1>4. SubSeq(c, 1, f)[1] = c[1] /\ SubSeq(chain, 1, f)[1] = chain[1]
    BY <1>1, PrefixIsChain
  <1>5. d[1] = c[1]
    BY <1>1, <1>2, <1>3, <1>4 DEF ForkAt
  <1>6. Len(d) = 1 \/ Len(d) + Conf <= Len(chain)
    <2>1. CASE Reach(f) = f
      <3>1. CASE Len(c) = 1
        BY <1>1, <1>3, <2>1, <3>1
      <3>2. CASE Len(c) + Conf <= Len(chain)
        BY <1>1, <1>3, <2>1, <3>2
      <3> HIDE DEF d
      <3> QED
        BY <3>1, <3>2 DEF Confirmed
    <2>2. CASE Reach(f) # f
      BY <1>1, <1>3, <2>2 DEF Reach
    <2> QED
      BY <2>1, <2>2
  <1> HIDE DEF d
  <1>7. Within(d) /\ Confirmed(d, chain)
    BY <1>1, <1>2, <1>3, <1>5, <1>6 DEF Within, Confirmed, Rooted
  <1> QED
    BY <1>7 DEF d

LEMMA LawfulStep ==
  ASSUME Shape, Stands, Lawful, [Next]_vars
  PROVE  Lawful'
  <1>1. /\ Within(chain') /\ Len(chain) <= Len(chain') /\ forks' \in 0 .. MaxForks
        /\ Len(chain) \in Nat /\ Len(chain') \in Nat
    <2>1. Within(chain) /\ Within(chain')
      BY ChainStep DEF Lawful
    <2>2. Len(chain) \in Nat /\ Len(chain') \in Nat
      BY <2>1 DEF Within, Legal, IsChain
    <2> QED
      BY <2>1, <2>2, ChainStep
  <1>2. ASSUME NEW c, Within(c), Confirmed(c, chain)
        PROVE  Confirmed(c, chain')
    <2>1. Len(c) \in Nat
      BY <1>2 DEF Within, Legal, IsChain
    <2> QED
      BY <1>1, <1>2, <2>1, ChainAssumption DEF Confirmed
  <1>3. Within(proj'.cursor) /\ Confirmed(proj'.cursor, chain)
    BY CursorsStep DEF Lawful
  <1>4. ASSUME NEW w \in Workers
        PROVE  /\ Within(worker'[w].cursor)
               /\ worker'[w].pc # "idle" => Confirmed(worker'[w].cursor, chain)
    <2>1. CASE worker'[w].pc = "idle" /\ worker'[w].cursor \in {<<>>, worker[w].cursor}
      <3>1. Within(<<>>)
        BY NothingIsLegal, EmptyIsChain, ChainAssumption DEF Within
      <3> QED
        BY <2>1, <3>1 DEF Lawful
    <2>2. CASE worker'[w].pc # "idle" /\ Carried(worker'[w].cursor, w)
      BY <2>2, PageIsLawful DEF Carried, Lawful
    <2> QED
      BY <2>1, <2>2, CursorsStep
  <1>5. Confirmed(proj'.cursor, chain')
    BY <1>2, <1>3
  <1>6. \A w \in Workers : worker'[w].pc # "idle" => Confirmed(worker'[w].cursor, chain')
    BY <1>2, <1>4
  <1> QED
    BY <1>1, <1>3, <1>4, <1>5, <1>6 DEF Lawful, Confirmed, Within

-----------------------------------------------------------------------------
(* What the journal says of any cursor: its reconstruction agrees with the  *)
(* contracts.                                                              *)

LEMMA CursorAgrees ==
  ASSUME NEW c, Within(c)
  PROVE  LET r == Reconstruct(Transitions(c)) IN
         /\ Agree(Outputs(c), r)
         /\ r.phase # "broken" /\ r.winner \in {None} \cup Entries
         /\ r.phase \in {"frozen"} \cup Ended => r.frozen.counted \in EntryLists
  <1> DEFINE r == Reconstruct(Transitions(c))
             f == Outputs(c)
  <1>1. Agree(f, r)
    BY ReconstructionAgrees DEF Within
  <1> HIDE DEF r, f
  <1>2. r \in Projections /\ f \in Families
    BY <1>1 DEF Agree
  <1>3. r.phase # "broken" /\ r.winner \in {None} \cup Entries
    BY <1>2 DEF Projections, Ended
  <1>4. ASSUME r.phase \in {"frozen"} \cup Ended
        PROVE  r.frozen.counted \in EntryLists
    <2>1. f.prize \in {"frozen", "spent"}
      BY <1>1, <1>4 DEF Agree, SamePhase
    <2>2. r.frozen \in Freezings
      BY <1>1, <1>2, <2>1 DEF Agree, Families
    <2> QED
      BY <2>2 DEF Freezings
  <1> QED
    BY <1>1, <1>3, <1>4 DEF r, f

\* The values of what the shape leaves open.
Typed ==
  /\ deepest \in 0 .. MaxDepth /\ faults \in 0 .. MaxFaults
  /\ proj.next \in {"due", "later", "never"} /\ proj.error \in Codes
  /\ row.winner \in {None} \cup Entries /\ row.counted \in {None} \cup EntryLists
  /\ \A w \in Workers : /\ worker[w].pc \in {"idle", "found", "claimed", "ready", "failed"}
                        /\ worker[w].error \in Codes

LEMMA PageErrorIsCode == \A f, c, trans : PageError(f, c, trans) \in Codes
  BY DEF PageError, Codes

LEMMA RowIsTyped ==
  ASSUME Shape, Typed, NEW c, Within(c), NEW before
  PROVE  LET q == RowAfter(before, Reconstruct(Transitions(c))) IN
         q.winner \in {None} \cup Entries /\ q.counted \in {None} \cup EntryLists
  <1> DEFINE r == Reconstruct(Transitions(c))
  <1>1. /\ r.winner \in {None} \cup Entries
        /\ r.phase \in {"frozen"} \cup Ended => r.frozen.counted \in EntryLists
    BY CursorAgrees
  <1> HIDE DEF r
  <1>2. row \in [status : {row.status}, winner : {row.winner}, counted : {row.counted}]
        /\ row.winner \in {None} \cup Entries /\ row.counted \in {None} \cup EntryLists
    BY DEF Shape, Typed
  <1>3. CASE r.phase = "drawn"
    BY <1>1, <1>3 DEF RowAfter, r, Ended
  <1>4. CASE r.phase = "returned"
    BY <1>1, <1>2, <1>4 DEF RowAfter, r, Ended
  <1>5. CASE r.phase = "frozen" /\ before # "frozen"
    BY <1>1, <1>2, <1>5 DEF RowAfter, r
  <1>6. CASE r.phase \notin {"drawn", "returned"} /\ ~(r.phase = "frozen" /\ before # "frozen")
    BY <1>2, <1>6 DEF RowAfter, r
  <1> QED
    BY <1>3, <1>4, <1>5, <1>6

LEMMA TypedStep ==
  ASSUME Shape, Exact, Lawful, Typed, [Next]_vars
  PROVE  Typed'
  <1>0. Workings(worker) /\ \A w \in Workers : Locals(worker[w])
    BY DEF Shape, Workings
  <1>1. CASE Mine
    BY <1>1 DEF Mine, Grow, Typed
  <1>2. ASSUME NEW n \in 1 .. MaxDepth, Reorganize(n)
        PROVE  Typed'
    <2>1. Switch(n) /\ UNCHANGED <<proj, row, worker, faults>>
      BY <1>2 DEF Reorganize
    <2>2. deepest' \in {n, deepest}
      BY <2>1 DEF Switch
    <2> QED
      BY <2>1, <2>2 DEF Typed
  <1>3. CASE Due
    <2>1. proj'.next = "due" /\ proj'.error = proj.error
      BY <1>3 DEF Due, Shape
    <2> QED
      BY <1>3, <2>1 DEF Due, Typed
  <1>4. ASSUME NEW w \in Workers, Find(w)
        PROVE  Typed'
    <2>1. /\ worker'[w].pc = "found" /\ worker'[w].error = "none"
          /\ \A x \in Workers \ {w} : worker'[x] = worker[x]
      BY <1>0, <1>4 DEF Find, Workings
    <2> QED
      BY <1>4, <2>1 DEF Find, Typed, Codes
  <1>5. ASSUME NEW w \in Workers, worker' = Rest(w)
        PROVE  \A x \in Workers : /\ worker'[x].pc \in {"idle", "found", "claimed", "ready", "failed"}
                                  /\ worker'[x].error \in Codes
    <2>1. /\ worker'[w].pc = "idle" /\ worker'[w].error = "none"
          /\ \A x \in Workers \ {w} : worker'[x] = worker[x]
      BY <1>0, <1>5, Resting
    <2> QED
      BY <2>1 DEF Typed, Codes
  <1>6. ASSUME NEW w \in Workers, worker' = Bumped(w)
        PROVE  \A x \in Workers : /\ worker'[x].pc \in {"idle", "found", "claimed", "ready", "failed"}
                                  /\ worker'[x].error \in Codes
    <2>1. Rest(w)[w].pc = "idle" /\ Rest(w)[w].error = "none" /\ worker'[w] = Rest(w)[w]
      <3>1. Rest(w)[w].pc = "idle" /\ Rest(w)[w].error = "none"
        BY <1>0, Resting
      <3> QED
        BY <1>0, <1>6, <3>1, Bumping
    <2>2. \A x \in Workers \ {w} : worker'[x].pc = worker[x].pc /\ worker'[x].error = worker[x].error
      BY <1>0, <1>6, Bumping
    <2> QED
      BY <2>1, <2>2 DEF Typed, Codes
  <1>7. ASSUME NEW w \in Workers, Claim(w)
        PROVE  Typed'
    <2>1. proj'.next \in {"later", proj.next} /\ proj'.error = proj.error
      BY <1>7 DEF Claim, Shape
    <2>2. CASE worker' = [worker EXCEPT ![w].pc = "claimed"]
      <3>1. /\ worker'[w].pc = "claimed" /\ worker'[w].error = worker[w].error
            /\ \A x \in Workers \ {w} : worker'[x] = worker[x]
        BY <1>0, <2>2 DEF Workings, Locals
      <3> QED
        BY <1>7, <2>1, <3>1 DEF Claim, Typed
    <2>3. CASE worker' = Rest(w)
      BY <1>5, <1>7, <2>1, <2>3 DEF Claim, Typed
    <2> QED
      BY <1>7, <2>2, <2>3 DEF Claim
  <1>8. ASSUME NEW w \in Workers, Read(w)
        PROVE  Typed'
    <2> DEFINE c == worker[w].cursor
               e(f) == PageError(f, c, worker[w].trans)
    <2>1. PICK f \in 0 .. Len(c) :
            worker' = IF e(f) = "none"
                 THEN [worker EXCEPT
                     ![w].pc = "ready", ![w].cursor = SubSeq(chain, 1, Reach(f)),
                     ![w].trans = Advanced(f, c, worker[w].trans)]
                 ELSE [worker EXCEPT ![w].pc = "failed", ![w].error = e(f)]
      BY <1>8 DEF Read
    <2>2. e(f) \in Codes
      BY PageErrorIsCode
    <2> HIDE DEF c, e
    <2>3. /\ worker'[w].pc \in {"ready", "failed"}
          /\ worker'[w].error \in {worker[w].error, e(f)}
          /\ \A x \in Workers \ {w} : worker'[x] = worker[x]
      BY <1>0, <2>1 DEF Workings, Locals
    <2> QED
      BY <1>8, <2>2, <2>3 DEF Read, Typed
  <1>9. ASSUME NEW w \in Workers, Persist(w)
        PROVE  Typed'
    <2>1. CASE worker[w].fresh
      <3>1. /\ proj'.next \in {"later", "never"} /\ proj'.error = "none"
            /\ worker' = Bumped(w) /\ UNCHANGED <<deepest, faults>>
            /\ row' = RowAfter(Reconstruct(proj.trans).phase, Reconstruct(worker[w].trans))
        BY <1>9, <2>1 DEF Persist
      <3>2. worker[w].trans = Transitions(worker[w].cursor) /\ Within(worker[w].cursor)
        BY DEF Exact, Lawful
      <3>3. row'.winner \in {None} \cup Entries /\ row'.counted \in {None} \cup EntryLists
        BY <3>1, <3>2, RowIsTyped
      <3> QED
        BY <1>6, <3>1, <3>3 DEF Typed, Codes
    <2>2. CASE ~worker[w].fresh
      BY <1>5, <1>9, <2>2 DEF Persist, Typed
    <2> QED
      BY <2>1, <2>2
  <1>10. ASSUME NEW w \in Workers, RecordFailure(w)
         PROVE  Typed'
    <2>1. CASE worker[w].fresh
      <3>1. /\ proj'.next \in {"later", "never"} /\ proj'.error = worker[w].error
            /\ worker' = Bumped(w) /\ UNCHANGED <<deepest, faults, row>>
        BY <1>10, <2>1 DEF RecordFailure, Shape
      <3> QED
        BY <1>6, <3>1 DEF Typed
    <2>2. CASE ~worker[w].fresh
      BY <1>5, <1>10, <2>2 DEF RecordFailure, Typed
    <2> QED
      BY <2>1, <2>2
  <1>11. ASSUME NEW w \in Workers, Crash(w)
         PROVE  Typed'
    BY <1>5, <1>11, ProjectionAssumption DEF Crash, Typed
  <1>12. ASSUME NEW w \in Workers, NEW code \in Faults \cup StorageFaults, CallFails(w, code)
         PROVE  Typed'
    <2>1. /\ worker'[w].pc = "failed" /\ worker'[w].error = code
          /\ \A x \in Workers \ {w} : worker'[x] = worker[x]
      BY <1>0, <1>12 DEF CallFails, Workings, Locals
    <2> QED
      <3>1. code \in Codes
        BY DEF Codes
      <3>2. faults' \in 0 .. MaxFaults /\ UNCHANGED <<deepest, proj, row>>
        BY <1>12, ProjectionAssumption DEF CallFails, Typed
      <3> QED
        BY <2>1, <3>1, <3>2 DEF Typed
  <1>13. CASE UNCHANGED vars
    BY <1>13 DEF vars, Typed
  <1> QED
    BY <1>1, <1>2, <1>3, <1>4, <1>7, <1>8, <1>9, <1>10, <1>11, <1>12, <1>13 DEF Next, Work

-----------------------------------------------------------------------------
(* When the worker gives up. *)

Uprooted == chain[1] # [tx |-> None, fork |-> 0]

\* Codes that come from the relay, the configuration or the database.
Outside == Faults \cup StorageFaults

\* A worker fails on a fault of the relay or of the database, or on a lost anchor, and only
\* the last, or a code that is not retried, stops the projection before its end.
Stopped ==
  /\ \A w \in Workers : worker[w].pc = "failed" =>
       Uprooted \/ worker[w].error \in Outside
  /\ proj.next = "never" =>
       \/ Reconstruct(proj.trans).phase \in Ended
       \/ Uprooted
       \/ proj.error \in Outside \ Retried

LEMMA StoppedStep ==
  ASSUME Shape, Exact, Stands, Lawful, Stopped, [Next]_vars
  PROVE  Stopped'
  <1>0. Workings(worker) /\ \A w \in Workers : Locals(worker[w])
    BY DEF Shape, Workings
  <1>1. Uprooted => Uprooted'
    BY ChainStep DEF Uprooted
  <1>2. ASSUME NEW w \in Workers, worker' = Rest(w)
        PROVE  \A x \in Workers : worker'[x].pc = "failed" => Uprooted' \/ worker'[x].error \in Outside
    <2>1. /\ worker'[w].pc = "idle"
          /\ \A x \in Workers \ {w} : worker'[x] = worker[x]
      BY <1>0, <1>2, Resting
    <2> QED
      BY <1>1, <2>1 DEF Stopped
  <1>3. ASSUME NEW w \in Workers, worker' = Bumped(w)
        PROVE  \A x \in Workers : worker'[x].pc = "failed" => Uprooted' \/ worker'[x].error \in Outside
    <2>1. worker'[w].pc = "idle"
      <3>1. Rest(w)[w].pc = "idle"
        BY <1>0, Resting
      <3> QED
        BY <1>0, <1>3, <3>1, Bumping
    <2>2. \A x \in Workers \ {w} : worker'[x].pc = worker[x].pc /\ worker'[x].error = worker[x].error
      BY <1>0, <1>3, Bumping
    <2> QED
      BY <1>1, <2>1, <2>2 DEF Stopped
  <1>4. CASE UNCHANGED <<proj, worker>>
    BY <1>1, <1>4 DEF Stopped
  <1>5. CASE Due
    <2>1. proj'.next = "due" /\ UNCHANGED <<chain, worker>>
      BY <1>5 DEF Due, Shape
    <2> QED
      BY <1>1, <2>1 DEF Stopped
  <1>6. ASSUME NEW w \in Workers, Find(w)
        PROVE  Stopped'
    <2>1. /\ worker'[w].pc = "found" /\ proj' = proj
          /\ \A x \in Workers \ {w} : worker'[x] = worker[x]
      BY <1>0, <1>6 DEF Find, Workings
    <2> QED
      BY <1>1, <2>1 DEF Stopped
  <1>7. ASSUME NEW w \in Workers, Claim(w)
        PROVE  Stopped'
    <2>1. CASE worker' = [worker EXCEPT ![w].pc = "claimed"] /\ proj' = [proj EXCEPT !.next = "later"]
      <3>1. /\ worker'[w].pc = "claimed" /\ proj'.next = "later"
            /\ \A x \in Workers \ {w} : worker'[x] = worker[x]
        BY <1>0, <2>1 DEF Workings, Locals, Shape
      <3> QED
        BY <1>1, <3>1 DEF Stopped
    <2>2. CASE worker' = Rest(w) /\ proj' = proj
      BY <1>1, <1>2, <2>2 DEF Stopped
    <2> QED
      BY <1>7, <2>1, <2>2 DEF Claim
  <1>8. ASSUME NEW w \in Workers, Read(w)
        PROVE  Stopped'
    <2> DEFINE c == worker[w].cursor
               e(f) == PageError(f, c, worker[w].trans)
    <2>1. PICK f \in 0 .. Len(c) :
            /\ ForkAt(f, c)
            /\ worker' = IF e(f) = "none"
                 THEN [worker EXCEPT
                     ![w].pc = "ready", ![w].cursor = SubSeq(chain, 1, Reach(f)),
                     ![w].trans = Advanced(f, c, worker[w].trans)]
                 ELSE [worker EXCEPT ![w].pc = "failed", ![w].error = e(f)]
      BY <1>8 DEF Read
    <2>2. /\ worker[w].pc = "claimed" /\ proj' = proj
          /\ worker'[w].pc = IF e(f) = "none" THEN "ready" ELSE "failed"
          /\ \A x \in Workers \ {w} : worker'[x] = worker[x]
      BY <1>0, <1>8, <2>1 DEF Read, Workings, Locals
    <2>3. e(f) = "none" \/ Uprooted
      <3>1. /\ Within(c) /\ Confirmed(c, chain) /\ Within(chain) /\ Len(chain) >= 1
            /\ worker[w].trans = Transitions(c)
        BY <2>2 DEF Lawful, Stands, Exact
      <3> HIDE DEF c
      <3>2. PageError(f, c, Transitions(c)) = "none" \/ chain[1] # c[1]
        BY <2>1, <3>1, PageFailsOnlyUprooted DEF Within, Confirmed, Rooted
      <3> QED
        BY <3>1, <3>2 DEF Uprooted, Confirmed, Rooted
    <2>4. worker'[w].pc = "failed" => Uprooted
      BY <2>2, <2>3
    <2> HIDE DEF e
    <2> QED
      BY <1>1, <2>2, <2>4 DEF Stopped
  <1>9. ASSUME NEW w \in Workers, Persist(w)
        PROVE  Stopped'
    <2>1. CASE worker[w].fresh
      <3>1. /\ proj'.trans = worker[w].trans /\ worker' = Bumped(w)
            /\ proj'.next = IF Reconstruct(worker[w].trans).phase \in Ended THEN "never"
                                                                         ELSE "later"
        BY <1>9, <2>1 DEF Persist
      <3> QED
        BY <1>3, <3>1 DEF Stopped
    <2>2. CASE ~worker[w].fresh
      BY <1>1, <1>2, <1>9, <2>2 DEF Persist, Stopped
    <2> QED
      BY <2>1, <2>2
  <1>10. ASSUME NEW w \in Workers, RecordFailure(w)
         PROVE  Stopped'
    <2>1. CASE worker[w].fresh
      <3>1. /\ proj'.error = worker[w].error /\ worker' = Bumped(w)
            /\ worker[w].pc = "failed"
            /\ proj'.next = IF worker[w].error \in Retried THEN "later" ELSE "never"
        BY <1>10, <2>1 DEF RecordFailure, Shape
      <3>2. Uprooted \/ worker[w].error \in Outside
        BY <3>1 DEF Stopped
      <3> QED
        BY <1>1, <1>3, <3>1, <3>2 DEF Stopped
    <2>2. CASE ~worker[w].fresh
      BY <1>1, <1>2, <1>10, <2>2 DEF RecordFailure, Stopped
    <2> QED
      BY <2>1, <2>2
  <1>11. ASSUME NEW w \in Workers, Crash(w)
         PROVE  Stopped'
    BY <1>1, <1>2, <1>11 DEF Crash, Stopped
  <1>12. ASSUME NEW w \in Workers, NEW code \in Faults \cup StorageFaults, CallFails(w, code)
         PROVE  Stopped'
    <2>1. /\ worker'[w].error = code /\ proj' = proj
          /\ \A x \in Workers \ {w} : worker'[x] = worker[x]
      BY <1>0, <1>12 DEF CallFails, Workings, Locals
    <2> QED
      BY <1>1, <2>1 DEF Stopped, Outside
  <1>13. CASE Mine \/ (\E n \in 1 .. MaxDepth : Reorganize(n)) \/ UNCHANGED vars
    BY <1>4, <1>13 DEF Mine, Reorganize, vars
  <1> QED
    BY <1>5, <1>6, <1>7, <1>8, <1>9, <1>10, <1>11, <1>12, <1>13 DEF Next, Work

-----------------------------------------------------------------------------
(* The inductive invariant, over all the actions of workers and of the     *)
(* chain.                                                                  *)

IInv ==
  Shape /\ Exact /\ Guarded /\ Following /\ Stands /\ Lawful /\ Typed /\ Stopped

LEMMA InitFurther ==
  ASSUME Init
  PROVE  Lawful /\ Typed /\ Stopped
  <1> USE DEF Init
  <1>1. Within(Anchor) /\ Within(<<>>) /\ Confirmed(Anchor, Anchor)
    BY AnchorIsLegal, NothingIsLegal, AnchorIsChain, EmptyIsChain, ChainAssumption
       DEF Within, Confirmed, Rooted
  <1>2. Lawful
    BY <1>1, ChainAssumption DEF Lawful
  <1>3. Typed
    BY ChainAssumption, ProjectionAssumption DEF Typed, Codes
  <1>4. Stopped
    BY DEF Stopped
  <1> QED
    BY <1>2, <1>3, <1>4

THEOREM Invariance == Spec => []IInv
  <1>1. Init => IInv
    BY InitInvariant, InitFurther DEF IInv
  <1>2. IInv /\ [Next]_vars => IInv'
    BY ShapeStep, ExactStep, GuardedStep, FollowingStep, StandsStep, LawfulStep, TypedStep,
       StoppedStep DEF IInv
  <1> QED
    BY <1>1, <1>2, PTL DEF Spec

\* Blocks, cursors and journals have their shape.
LEMMA WithinIsTyped ==
  ASSUME NEW c, Within(c)
  PROVE  c \in Seq(Blocks) /\ IsJournal(Transitions(c))
  <1>1. IsChain(c) /\ Len(c) \in Nat /\ Len(c) <= MaxScore
    BY DEF Within, Legal, IsChain
  <1>2. \A h \in 1 .. Len(c) : /\ c[h] = [tx |-> c[h].tx, fork |-> c[h].fork]
                              /\ c[h].fork \in 0 .. MaxForks /\ c[h].tx \in {None} \cup Txs
    <2>1. \A h \in 1 .. Len(c) : c[h] \in [tx : {c[h].tx}, fork : 0 .. MaxForks]
      BY DEF Within, Legal, Allowed
    <2> QED
      BY <2>1, ReconstructionAgrees DEF Within
  <1>3. ASSUME NEW h \in 1 .. Len(c)
        PROVE  c[h] \in Blocks
    <2> DEFINE t == c[h].tx
               k == c[h].fork
    <2>1. c[h] = [tx |-> t, fork |-> k] /\ k \in 0 .. MaxForks /\ t \in {None} \cup Txs
      BY <1>2
    <2> HIDE DEF t, k
    <2> QED
      BY <2>1 DEF Blocks
  <1>4. c \in Seq(Blocks)
    <2>1. c \in [1 .. Len(c) -> {c[h] : h \in DOMAIN c}] /\ DOMAIN c = 1 .. Len(c)
      BY <1>1 DEF IsChain
    <2>2. c \in [1 .. Len(c) -> Blocks]
      BY <1>3, <2>1
    <2> QED
      BY <1>1, <2>2
  <1>5. ASSUME NEW x \in Transitions(c)
        PROVE  x.at \in (1 .. MaxScore) \X (0 .. MaxForks) /\ x.tx \in Txs
    <2>1. PICK h \in 1 .. Len(c) :
            c[h].tx # None /\ x = [at |-> <<h, c[h].fork>>, tx |-> c[h].tx]
      BY <1>1, TransitionsOf
    <2>2. c[h].fork \in 0 .. MaxForks /\ c[h].tx \in Txs
      BY <1>2, <2>1
    <2>3. h \in 1 .. MaxScore
      BY <1>1, ChainAssumption
    <2> QED
      BY <2>1, <2>2, <2>3
  <1> QED
    BY <1>4, <1>5 DEF IsJournal

\* The row, the projection and what a worker keeps have their shape in every state:
\* cursors are chains of the family's transactions, journals hold nothing else, and
\* the winner that is written is an entry.
THEOREM TypeCorrect == Spec => []TypeOK
  <1>1. IInv => TypeOK
    <2> SUFFICES ASSUME IInv
                 PROVE  TypeOK
      OBVIOUS
    <2> USE DEF IInv
    <2>1. chain \in Seq(Blocks) /\ Len(chain) <= MaxScore
      BY WithinIsTyped DEF Lawful, Within
    <2>2. proj.cursor \in Seq(Blocks) /\ IsJournal(proj.trans)
      BY WithinIsTyped DEF Lawful, Exact
    <2>3. \A w \in Workers : worker[w].cursor \in Seq(Blocks) /\ IsJournal(worker[w].trans)
      BY WithinIsTyped DEF Lawful, Exact
    <2>4. \A w \in Workers : worker[w].fresh \in BOOLEAN
      BY DEF Shape, Workings, Locals
    <2> QED
      BY <2>1, <2>2, <2>3, <2>4 DEF TypeOK, Typed, Lawful, Following
  <1> QED
    BY <1>1, Invariance, PTL

\* What the indexer reconstructs from the journal is what the contracts enforced, on
\* every chain: the same phase, the same tips, the same entries that take part, the
\* same freeze; none of the transactions that the contracts accept is refused
\* (reconstructGiveawayV6 against giveaway_prize_shards_v6.sil).
THEOREM ReconstructionMatches == Spec => []ReconstructionMatchesContract
  <1>1. IInv => ReconstructionMatchesContract
    <2> SUFFICES ASSUME IInv
                 PROVE  ReconstructionMatchesContract
      OBVIOUS
    <2> DEFINE f == Outputs(proj.cursor)
               r == Reconstruct(proj.trans)
    <2>1. Agree(f, r)
      BY CursorAgrees DEF IInv, Exact, Lawful
    <2> HIDE DEF f, r
    <2>2. f \in Families /\ r \in Projections
      BY <2>1 DEF Agree
    <2>3. ASSUME f.prize = "open", NEW s \in Shards
          PROVE  /\ r.shard[s].tip = f.shard[s].tip
                 /\ Closed(r.shard[s]).finalized = Eligible(f.shard[s])
      <3> DEFINE u == f.shard[s]
                 q == r.shard[s]
      <3>1. /\ u \in [tip : Seq(Entries), since : Nat]
            /\ q \in [finalized : Seq(Entries), pending : {None} \cup Entries,
                      registeredAt : Nat, late : {None} \cup Entries, tip : Seq(Entries)]
            /\ SameShard(u, q)
        BY <2>1, <2>2, <2>3 DEF Agree, Families, Projections
      <3> HIDE DEF u, q
      <3>2. q.tip = u.tip /\ Closed(q).finalized = Eligible(u)
        BY <3>1, SameShardCloses DEF SameShard
      <3> QED
        BY <3>2 DEF u, q
    <2>4. f.frozen # None => r.frozen = f.frozen /\ Lists(r) = f.frozen.counted
      BY <2>1, <2>2 DEF Agree, Families
    <2> QED
      BY <2>1, <2>3, <2>4 DEF ReconstructionMatchesContract, Agree, SamePhase, f, r
  <1> QED
    BY <1>1, Invariance, PTL

\* A projection that has not ended is given up only for a lost anchor, for a code that is
\* not of the relay's own failures, or for a statement of the database that failed
\* (recordFailure).  Whatever reorganization a page reports, it is not refused as
\* RESET_REQUIRED or INVALID_TRANSITION while the anchor is on the chain.
THEOREM StopsForACause == Spec => []GivenUpForCause
  <1>1. IInv => GivenUpForCause
    BY DEF IInv, Stopped, Outside, Uprooted, Lawful, Confirmed, Rooted, GivenUpForCause,
           AnchorLost, Retried, RelayCodes
  <1> QED
    BY <1>1, Invariance, PTL

\* The journal holds exactly what the chain up to the cursor accepted of the
\* family, for any number of workers, pages, reorganizations and crashes
\* (advanceGiveawayV6Projection).
THEOREM JournalExact == Spec => []JournalIsExact
  <1>1. IInv => JournalIsExact
    BY DEF IInv, Exact, JournalIsExact
  <1> QED
    BY <1>1, Invariance, PTL

\* What the journal and the row say of who takes part, who wins and whether anyone
\* entered.
TimelyEntriesWin ==
  /\ FairDraw(proj.trans)
  /\ row.status = "DRAWN" => row.winner \in InTime(proj.trans)
  /\ row.status \in {"NO_ENTRIES", "CANCELLED"} =>
       (row.status = "NO_ENTRIES" <=> InTime(proj.trans) = {})

\* The giveaway draws among those who entered in time, whatever the pages, the
\* workers and the reorganizations were.  Once the stored journal shows the entries
\* frozen, what is reconstructed of it lists exactly the entries that the journal shows
\* accepted by the closing score, each once and under its own shard, and no late one
\* (advanceGiveawayV6Projection with reconstructGiveawayV6).  A winner that
\* persistProjection writes to the giveaway is one of them, and it writes NO_ENTRIES
\* only if there are none, CANCELLED only if there are.
THEOREM OnlyTimelyEntriesWin == Spec => []TimelyEntriesWin
  <1>1. IInv => TimelyEntriesWin
    <2> SUFFICES ASSUME IInv
                 PROVE  TimelyEntriesWin
      OBVIOUS
    <2> DEFINE r == Reconstruct(proj.trans)
    <2>1. FairDraw(proj.trans)
      BY DrawIsFair DEF IInv, Exact, Lawful, Within
    <2>2. row.status = "DRAWN" => row.winner \in InTime(proj.trans)
      BY <2>1 DEF IInv, Following, RowFollowsProjection, FairDraw
    <2>3. ASSUME row.status \in {"NO_ENTRIES", "CANCELLED"}
          PROVE  row.status = "NO_ENTRIES" <=> InTime(proj.trans) = {}
      <3>1. /\ r.phase = "returned"
            /\ row.status = "NO_ENTRIES" <=> Listed(r.frozen.counted) = <<>>
        BY <2>3 DEF IInv, Following, RowFollowsProjection
      <3>2. Agree(Outputs(proj.cursor), r)
        BY CursorAgrees DEF IInv, Exact, Lawful
      <3> HIDE DEF r
      <3>3. Lists(r) = r.frozen.counted /\ Lists(r) \in [Shards -> Seq(Entries)]
        BY <3>1, <3>2 DEF Agree, SamePhase, Ended, Projections, Lists
      <3>4. \A e \in Entries : Contains(Listed(Lists(r)), e) <=> e \in InTime(proj.trans)
        BY <2>1, <3>1 DEF FairDraw, Ended, r
      <3> DEFINE list == Listed(Lists(r))
      <3>5. list \in Seq(Entries)
        BY <3>3, ListedIsList
      <3> HIDE DEF list
      <3>6. list = <<>> <=> \A e \in Entries : ~Contains(list, e)
        <4>1. Len(list) \in Nat /\ (list = <<>> <=> Len(list) = 0)
          BY <3>5
        <4>2. \A i \in 1 .. Len(list) : list[i] \in Entries
          BY <3>5
        <4>3. Len(list) # 0 => 1 \in 1 .. Len(list)
          BY <4>1
        <4> QED
          BY <4>1, <4>2, <4>3 DEF Contains
      <3>7. InTime(proj.trans) \subseteq Entries
        BY DEF InTime
      <3> QED
        BY <3>1, <3>3, <3>4, <3>6, <3>7 DEF list
    <2> QED
      BY <2>1, <2>2, <2>3 DEF TimelyEntriesWin
  <1> QED
    BY <1>1, Invariance, PTL

\* The row of the giveaway ends with the projection and names its winner, as both
\* are written in one transaction (persistProjection).
THEOREM RowFollows == Spec => []RowFollowsProjection
  <1>1. IInv => RowFollowsProjection
    BY DEF IInv, Following
  <1> QED
    BY <1>1, Invariance, PTL

\* The cursor lies on the selected chain as long as no reorganization was deeper
\* than the confirmations of a page.
THEOREM CursorStands == Spec => []CursorStandsOnChain
  <1>1. IInv => CursorStandsOnChain
    <2> SUFFICES ASSUME IInv, deepest <= Conf, ~AnchorLost
                 PROVE  proj.cursor = SubSeq(chain, 1, Len(proj.cursor))
      BY DEF CursorStandsOnChain
    <2>1. Sound(proj.cursor, chain, deepest)
      BY DEF IInv, Stands
    <2> QED
      BY <2>1 DEF Sound, Rooted, StandingOn, AnchorLost
  <1> QED
    BY <1>1, Invariance, PTL

\* No write takes the stored cursor back along its branch: the revision keeps out a
\* worker that another one overtook.
THEOREM CursorNeverRewinds == Spec => NeverRewinds
  <1> DEFINE Forward == Len(proj'.cursor) < Len(proj.cursor)
                          => proj'.cursor # SubSeq(proj.cursor, 1, Len(proj'.cursor))
  <1>1. IInv /\ [Next]_vars => [Forward]_vars
    <2> SUFFICES ASSUME IInv, [Next]_vars
                 PROVE  Forward
      OBVIOUS
    <2>0. IsChain(proj.cursor) /\ Len(proj.cursor) \in Nat
      BY DEF IInv, Shape, IsChain
    <2>1. CASE proj'.cursor = proj.cursor
      BY <2>0, <2>1
    <2>2. ASSUME NEW w \in Workers, Persist(w), worker[w].fresh
          PROVE  Forward
      BY <2>2 DEF IInv, Guarded, Behind, Persist
    <2>3. ASSUME NEW w \in Workers, Work(w), ~(Persist(w) /\ worker[w].fresh)
          PROVE  proj'.cursor = proj.cursor
      BY <2>3 DEF IInv, Work, Find, Claim, Read, Persist, RecordFailure, Shape
    <2>4. CASE Mine \/ Due \/ UNCHANGED vars
      BY <2>1, <2>4 DEF IInv, Mine, Grow, Due, vars, Shape
    <2>5. ASSUME NEW n \in 1 .. MaxDepth, Reorganize(n)
          PROVE  Forward
      BY <2>1, <2>5 DEF Reorganize, Switch
    <2>6. ASSUME NEW w \in Workers, Crash(w) \/ \E code \in Faults \cup StorageFaults : CallFails(w, code)
          PROVE  Forward
      BY <2>1, <2>6 DEF Crash, CallFails
    <2> QED
      BY <2>1, <2>2, <2>3, <2>4, <2>5, <2>6 DEF Next
  <1> QED
    BY <1>1, Invariance, PTL DEF Spec, NeverRewinds

=============================================================================
