------------------------- MODULE GiveawayChainProofs -------------------------
(***************************************************************************)
(* Chains, their transitions, the page that takes the journal of one       *)
(* cursor to the journal of the next, and what the reconstruction makes of *)
(* the transactions of any chain that the contracts allow.                 *)
(***************************************************************************)
EXTENDS GiveawayChain, FiniteSetTheorems, TLAPS

\* A chain, a cursor or a page is a sequence of its own blocks.
IsChain(c) == c \in Seq({c[h] : h \in DOMAIN c})

\* A sequence over any set is one of its own elements.
LEMMA OwnElements ==
  ASSUME NEW S, NEW c \in Seq(S)
  PROVE  IsChain(c)
  <1>1. c \in [1 .. Len(c) -> {c[h] : h \in DOMAIN c}] /\ Len(c) \in Nat
    OBVIOUS
  <1> QED
    BY <1>1 DEF IsChain

\* A function on an initial interval is a chain.
LEMMA IntervalIsChain ==
  ASSUME NEW n \in Nat, NEW g, g = [h \in 1 .. n |-> g[h]]
  PROVE  IsChain(g) /\ Len(g) = n
  <1> DEFINE S == {g[h] : h \in 1 .. n}
  <1>1. g \in [1 .. n -> S]
    OBVIOUS
  <1>2. g \in Seq(S)
    BY <1>1
  <1>3. Len(g) = n
    BY <1>1, <1>2
  <1> QED
    BY <1>2, <1>3, OwnElements

LEMMA PrefixIsChain ==
  ASSUME NEW c, IsChain(c), NEW k \in 0 .. Len(c)
  PROVE  /\ IsChain(SubSeq(c, 1, k))
         /\ Len(SubSeq(c, 1, k)) = k
         /\ \A h \in 1 .. k : SubSeq(c, 1, k)[h] = c[h]
  <1> DEFINE S == {c[h] : h \in DOMAIN c}
  <1>1. c \in Seq(S)
    BY DEF IsChain
  <1>2. SubSeq(c, 1, k) \in Seq(S)
    BY <1>1
  <1>3. IsChain(SubSeq(c, 1, k))
    <2> HIDE DEF S
    <2> QED
      BY <1>2, OwnElements
  <1>4. /\ Len(SubSeq(c, 1, k)) = k
        /\ \A h \in 1 .. k : SubSeq(c, 1, k)[h] = c[h]
    <2> HIDE DEF S
    <2> QED
      BY <1>1
  <1> QED
    BY <1>3, <1>4

LEMMA AppendIsChain ==
  ASSUME NEW c, IsChain(c), NEW x
  PROVE  /\ IsChain(Append(c, x))
         /\ Len(Append(c, x)) = Len(c) + 1
         /\ \A h \in 1 .. Len(c) : Append(c, x)[h] = c[h]
         /\ Append(c, x)[Len(c) + 1] = x
  <1> DEFINE S == {c[h] : h \in DOMAIN c} \cup {x}
  <1>1. c \in Seq(S)
    BY DEF IsChain
  <1>2. Append(c, x) \in Seq(S)
    BY <1>1
  <1>3. IsChain(Append(c, x))
    <2> HIDE DEF S
    <2> QED
      BY <1>2, OwnElements
  <1>4. /\ Len(Append(c, x)) = Len(c) + 1
        /\ \A h \in 1 .. Len(c) : Append(c, x)[h] = c[h]
        /\ Append(c, x)[Len(c) + 1] = x
    <2> HIDE DEF S
    <2> QED
      BY <1>1
  <1> QED
    BY <1>3, <1>4

\* Chains of the same length with the same blocks are the same.
LEMMA SameBlocks ==
  ASSUME NEW c, NEW d, IsChain(c), IsChain(d), Len(c) = Len(d),
         \A h \in 1 .. Len(c) : c[h] = d[h]
  PROVE  c = d
  BY DEF IsChain

\* What a journal holds is one transition for each block with a transaction.
LEMMA TransitionsOf ==
  ASSUME NEW c, IsChain(c), NEW x
  PROVE  x \in Transitions(c) <=>
           \E h \in 1 .. Len(c) :
              c[h].tx # None /\ x = [at |-> <<h, c[h].fork>>, tx |-> c[h].tx]
  BY DEF Transitions

LEMMA ReachBounds ==
  ASSUME NEW f \in Nat, IsChain(chain), f <= Len(chain)
  PROVE  Reach(f) \in f .. Len(chain)
  BY ChainAssumption DEF Reach, IsChain

\* A page turns the journal of the old cursor into the journal of the new one.
LEMMA PageIsExact ==
  ASSUME IsChain(chain), NEW c, IsChain(c), NEW f, ForkAt(f, c)
  PROVE  Advanced(f, c, Transitions(c)) = Transitions(SubSeq(chain, 1, Reach(f)))
  <1> DEFINE page == SubSeq(chain, 1, Reach(f))
  <1>1. /\ f \in Nat /\ f <= Len(c) /\ f <= Len(chain)
        /\ Len(c) \in Nat /\ Len(chain) \in Nat
    BY DEF ForkAt, IsChain
  <1>2. Reach(f) \in f .. Len(chain)
    BY <1>1, ReachBounds
  <1>3. /\ IsChain(page) /\ Len(page) = Reach(f)
        /\ \A h \in 1 .. Reach(f) : page[h] = chain[h]
    BY <1>1, <1>2, PrefixIsChain
  <1>4. \A h \in 1 .. f : c[h] = chain[h]
    <2>1. \A h \in 1 .. f : SubSeq(c, 1, f)[h] = c[h] /\ SubSeq(chain, 1, f)[h] = chain[h]
      BY <1>1, PrefixIsChain
    <2> QED
      BY <2>1 DEF ForkAt
  <1> HIDE DEF page
  <1>5. ASSUME NEW x \in Advanced(f, c, Transitions(c))
        PROVE  x \in Transitions(page)
    <2>1. CASE x \in Kept(f, c, Transitions(c))
      <3>1. PICK h \in 1 .. Len(c) :
              c[h].tx # None /\ x = [at |-> <<h, c[h].fork>>, tx |-> c[h].tx]
        BY <2>1, TransitionsOf DEF Kept
      <3>2. h <= f
        BY <1>1, <2>1, <3>1 DEF Kept, Removed
      <3>3. h \in 1 .. Len(page) /\ page[h] = c[h]
        BY <1>1, <1>2, <1>3, <1>4, <3>2
      <3> QED
        BY <1>3, <3>1, <3>3, TransitionsOf
    <2>2. CASE x \in Transitions(page)
      BY <2>2
    <2> QED
      BY <2>1, <2>2 DEF Advanced, page
  <1>6. ASSUME NEW x \in Transitions(page)
        PROVE  x \in Advanced(f, c, Transitions(c))
    <2>1. PICK h \in 1 .. Len(page) :
            page[h].tx # None /\ x = [at |-> <<h, page[h].fork>>, tx |-> page[h].tx]
      BY <1>3, TransitionsOf
    <2>2. CASE h > f
      BY <1>1, <2>1, <2>2 DEF Advanced, page
    <2>3. CASE h <= f
      <3>1. h \in 1 .. Len(c) /\ page[h] = c[h]
        BY <1>1, <1>2, <1>3, <1>4, <2>1, <2>3
      <3>2. x \in Transitions(c)
        BY <2>1, <3>1, TransitionsOf
      <3>3. x.at \notin Removed(f, c)
        BY <1>1, <2>1, <2>3 DEF Removed
      <3> QED
        BY <3>2, <3>3 DEF Advanced, Kept
    <2> QED
      BY <1>1, <1>2, <1>3, <2>1, <2>2, <2>3
  <1> QED
    BY <1>5, <1>6 DEF page

LEMMA EmptyIsChain == IsChain(<<>>) /\ Len(<<>>) = 0 /\ Transitions(<<>>) = {}
  BY DEF IsChain, Transitions

LEMMA AnchorIsChain ==
  /\ IsChain(Anchor) /\ Len(Anchor) = 1 /\ Anchor[1] = [tx |-> None, fork |-> 0]
  /\ Transitions(Anchor) = {}
  <1>1. Anchor \in Seq({[tx |-> None, fork |-> 0]}) /\ Len(Anchor) = 1
        /\ Anchor[1] = [tx |-> None, fork |-> 0]
    BY DEF Anchor
  <1>2. IsChain(Anchor)
    BY <1>1, OwnElements
  <1> QED
    BY <1>1, <1>2 DEF Transitions

-----------------------------------------------------------------------------
(* Induction over the natural numbers, as a fact about sets. *)

\* A set of natural numbers has a least element.
LEMMA LeastElement ==
  ASSUME NEW T \in SUBSET Nat, T # {}
  PROVE  \E x \in T : \A y \in T : x <= y
  <1> DEFINE R == OpToRel(<, Nat)
  <1>1. IsWellFoundedOn(R, Nat)
    BY NatLessThanWellFounded
  <1>2. R = {ss \in Nat \X Nat : ss[1] < ss[2]}
    BY DEF OpToRel
  <1> HIDE DEF R
  <1>3. PICK x \in T : \A y \in T : ~ (<<y, x>> \in R)
    BY <1>1, WFMin
  <1>4. ASSUME NEW y \in T PROVE x <= y
    <2> DEFINE p == <<y, x>>
    <2>1. p[1] = y /\ p[2] = x /\ p \in Nat \X Nat /\ p \notin R
      BY <1>3
    <2> HIDE DEF p
    <2> QED
      BY <1>2, <2>1
  <1> QED
    BY <1>4

LEMMA SetInduction ==
  ASSUME NEW S, 0 \in S, \A n \in Nat : n \in S => n + 1 \in S
  PROVE  Nat \subseteq S
  <1> SUFFICES ASSUME Nat \ S # {} PROVE FALSE
    OBVIOUS
  <1> DEFINE T == Nat \ S
  <1>1. T \in SUBSET Nat /\ T # {}
    OBVIOUS
  <1> HIDE DEF T
  <1>2. PICK x \in T : \A y \in T : x <= y
    BY <1>1, LeastElement
  <1>3. x \in Nat /\ x # 0
    BY DEF T
  <1>4. x - 1 \in Nat /\ x - 1 \notin T
    BY <1>2, <1>3
  <1>5. x - 1 \in S
    BY <1>4 DEF T
  <1>6. (x - 1) + 1 \in S
    BY <1>4, <1>5
  <1> QED
    BY <1>3, <1>6 DEF T

-----------------------------------------------------------------------------
(* The contracts, block by block. *)

\* One block of a chain, at height n.
Contract(f, block, n) == IF block.tx = None THEN f ELSE Spend(f, block.tx, n)

\* g holds the outputs after each of the first n blocks.
Histories(past, n, g) ==
  g = [m \in 0 .. n |-> IF m = 0 THEN Unfunded ELSE Contract(g[m - 1], past[m], m)]

LEMMA HistoryExists ==
  ASSUME NEW past, NEW n \in Nat
  PROVE  \E g : Histories(past, n, g)
  <1> DEFINE S == {m \in Nat : \E g : Histories(past, m, g)}
  <1>1. 0 \in S
    <2>1. Histories(past, 0, [m \in 0 .. 0 |-> Unfunded])
      BY DEF Histories
    <2> QED
      BY <2>1
  <1>2. ASSUME NEW m \in Nat, m \in S
        PROVE  m + 1 \in S
    <2>1. PICK g : Histories(past, m, g)
      BY <1>2
    <2> DEFINE h == [k \in 0 .. m + 1 |-> IF k = m + 1 THEN Contract(g[m], past[m + 1], m + 1)
                                          ELSE g[k]]
    <2>2. ASSUME NEW k \in 0 .. m + 1
          PROVE  h[k] = IF k = 0 THEN Unfunded ELSE Contract(h[k - 1], past[k], k)
      <3>1. CASE k = m + 1
        <4>1. h[k] = Contract(g[m], past[m + 1], m + 1) /\ h[k - 1] = g[m] /\ k # 0
          BY <3>1
        <4> QED
          BY <3>1, <4>1
      <3>2. CASE k # m + 1
        <4>1. k \in 0 .. m /\ h[k] = g[k] /\ (k # 0 => h[k - 1] = g[k - 1])
          BY <3>2
        <4>2. g[k] = IF k = 0 THEN Unfunded ELSE Contract(g[k - 1], past[k], k)
          BY <2>1, <4>1 DEF Histories
        <4> QED
          BY <4>1, <4>2
      <3> QED
        BY <3>1, <3>2
    <2>3. Histories(past, m + 1, h)
      BY <2>2 DEF Histories
    <2> HIDE DEF h
    <2> QED
      BY <2>3
  <1> HIDE DEF S
  <1>3. Nat \subseteq S
    BY <1>1, <1>2, SetInduction
  <1> QED
    BY <1>3 DEF S

\* Histories of chains with the same blocks agree.
LEMMA HistoriesAgree ==
  ASSUME NEW past, NEW later, NEW n \in Nat, NEW k \in Nat, NEW g, NEW h,
         Histories(past, n, g), Histories(later, k, h),
         NEW m \in Nat, m <= n, m <= k, \A j \in 1 .. m : past[j] = later[j]
  PROVE  g[m] = h[m]
  <1> DEFINE S == {j \in Nat : j <= m => g[j] = h[j]}
  <1>1. 0 \in S
    BY DEF Histories
  <1>2. ASSUME NEW j \in Nat, j \in S
        PROVE  j + 1 \in S
    <2> SUFFICES ASSUME j + 1 <= m PROVE g[j + 1] = h[j + 1]
      OBVIOUS
    <2>1. g[j] = h[j] /\ past[j + 1] = later[j + 1] /\ (j + 1) - 1 = j /\ j + 1 # 0
          /\ j + 1 \in 0 .. n /\ j + 1 \in 0 .. k
      BY <1>2
    <2>2. g[j + 1] = Contract(g[j], past[j + 1], j + 1)
      BY <2>1 DEF Histories
    <2>3. h[j + 1] = Contract(h[j], later[j + 1], j + 1)
      BY <2>1 DEF Histories
    <2> QED
      BY <2>1, <2>2, <2>3
  <1> HIDE DEF S
  <1>3. Nat \subseteq S
    BY <1>1, <1>2, SetInduction
  <1> QED
    BY <1>3 DEF S

LEMMA OutputsAreHistory ==
  ASSUME NEW past, Len(past) \in Nat
  PROVE  \E g : Histories(past, Len(past), g) /\ Outputs(past) = g[Len(past)]
  <1> DEFINE g == CHOOSE x : Histories(past, Len(past), x)
  <1>1. Histories(past, Len(past), g)
    BY HistoryExists
  <1>2. Outputs(past) = g[Len(past)]
    BY DEF Outputs, Histories, Contract
  <1> QED
    BY <1>1, <1>2

LEMMA OutputsOfNothing == Outputs(<<>>) = Unfunded
  BY OutputsAreHistory DEF Histories

\* A block spends what the chain below it left.
LEMMA OutputsGrow ==
  ASSUME NEW past, IsChain(past), NEW later, IsChain(later), Len(later) = Len(past) + 1,
         \A h \in 1 .. Len(past) : later[h] = past[h]
  PROVE  Outputs(later) = Contract(Outputs(past), later[Len(later)], Len(later))
  <1>0. Len(past) \in Nat /\ Len(later) \in Nat
    BY DEF IsChain
  <1>1. PICK g : Histories(past, Len(past), g) /\ Outputs(past) = g[Len(past)]
    BY <1>0, OutputsAreHistory
  <1>2. PICK h : Histories(later, Len(later), h) /\ Outputs(later) = h[Len(later)]
    BY <1>0, OutputsAreHistory
  <1>3. g[Len(past)] = h[Len(past)]
    BY <1>0, <1>1, <1>2, HistoriesAgree
  <1>4. h[Len(later)] = Contract(h[Len(past)], later[Len(later)], Len(later))
    BY <1>0, <1>2 DEF Histories
  <1> QED
    BY <1>1, <1>2, <1>3, <1>4

-----------------------------------------------------------------------------
(* The reconstruction, transition by transition. *)

Nth(T, n) == CHOOSE x \in T : Cardinality({y \in T : Before(y, x)}) = n - 1

\* g holds what the reconstruction has after each of the first n transitions.
Replays(T, n, g) ==
  g = [m \in 0 .. n |-> IF m = 0 THEN Blank
                        ELSE Applied(g[m - 1], Nth(T, m).tx, Nth(T, m).at[1])]

LEMMA ReplayExists ==
  ASSUME NEW T, NEW n \in Nat
  PROVE  \E g : Replays(T, n, g)
  <1> DEFINE S == {m \in Nat : \E g : Replays(T, m, g)}
             Step(v, m) == Applied(v, Nth(T, m).tx, Nth(T, m).at[1])
  <1>1. 0 \in S
    <2>1. Replays(T, 0, [m \in 0 .. 0 |-> Blank])
      BY DEF Replays
    <2> QED
      BY <2>1
  <1>2. ASSUME NEW m \in Nat, m \in S
        PROVE  m + 1 \in S
    <2>1. PICK g : Replays(T, m, g)
      BY <1>2
    <2> HIDE DEF Step
    <2> DEFINE h == [k \in 0 .. m + 1 |-> IF k = m + 1 THEN Step(g[m], m + 1) ELSE g[k]]
    <2>2. ASSUME NEW k \in 0 .. m + 1
          PROVE  h[k] = IF k = 0 THEN Blank ELSE Step(h[k - 1], k)
      <3>1. CASE k = m + 1
        <4>1. h[k] = Step(g[m], m + 1) /\ h[k - 1] = g[m] /\ k # 0
          BY <3>1
        <4> QED
          BY <3>1, <4>1
      <3>2. CASE k # m + 1
        <4>1. k \in 0 .. m /\ h[k] = g[k] /\ (k # 0 => h[k - 1] = g[k - 1])
          BY <3>2
        <4>2. g[k] = IF k = 0 THEN Blank ELSE Step(g[k - 1], k)
          BY <2>1, <4>1 DEF Replays, Step
        <4> QED
          BY <4>1, <4>2
      <3> QED
        BY <3>1, <3>2
    <2>3. Replays(T, m + 1, h)
      BY <2>2 DEF Replays, Step
    <2> HIDE DEF h
    <2> QED
      BY <2>3
  <1> HIDE DEF S
  <1>3. Nat \subseteq S
    BY <1>1, <1>2, SetInduction
  <1> QED
    BY <1>3 DEF S

LEMMA ReconstructionIsReplay ==
  ASSUME NEW T, Cardinality(T) \in Nat
  PROVE  \E g : Replays(T, Cardinality(T), g) /\ Reconstruct(T) = g[Cardinality(T)]
  <1> DEFINE g == CHOOSE x : Replays(T, Cardinality(T), x)
  <1>1. Replays(T, Cardinality(T), g)
    BY ReplayExists
  <1>2. Reconstruct(T) = g[Cardinality(T)]
    BY DEF Reconstruct, Replays, Nth
  <1> QED
    BY <1>1, <1>2

LEMMA EmptyJournal == Reconstruct({}) = Blank
  <1>1. Cardinality({}) = 0
    BY FS_EmptySet
  <1>2. PICK g : Replays({}, 0, g) /\ Reconstruct({}) = g[0]
    BY <1>1, ReconstructionIsReplay
  <1> QED
    BY <1>2 DEF Replays

\* x comes after every transition of T.
Ultimate(T, x) ==
  /\ \A y \in T : Before(y, x) /\ ~Before(x, y) /\ ~Before(y, y)
  /\ ~Before(x, x)

\* With a transition that comes last, the others keep their places.
LEMMA LastPlace ==
  ASSUME NEW T, IsFiniteSet(T), NEW x, Ultimate(T, x)
  PROVE  /\ IsFiniteSet(T \cup {x}) /\ Cardinality(T \cup {x}) = Cardinality(T) + 1
         /\ \A n \in 1 .. Cardinality(T) : Nth(T \cup {x}, n) = Nth(T, n)
         /\ Nth(T \cup {x}, Cardinality(T) + 1) = x
  <1> DEFINE U == T \cup {x}
  <1>0. x \notin T
    BY DEF Ultimate
  <1>1. /\ IsFiniteSet(U) /\ Cardinality(U) = Cardinality(T) + 1
        /\ Cardinality(T) \in Nat
    BY <1>0, FS_AddElement, FS_CardinalityType
  <1>2. \A z \in T : {y \in U : Before(y, z)} = {y \in T : Before(y, z)}
    BY DEF Ultimate
  <1>3. {y \in U : Before(y, x)} = T
    BY DEF Ultimate
  <1>4. ASSUME NEW n \in 1 .. Cardinality(T)
        PROVE  Nth(U, n) = Nth(T, n)
    <2>1. Cardinality(T) # n - 1
      BY <1>1
    <2>2. \A z : z \in U /\ Cardinality({y \in U : Before(y, z)}) = n - 1
                 <=> z \in T /\ Cardinality({y \in T : Before(y, z)}) = n - 1
      BY <1>2, <1>3, <2>1
    <2> HIDE DEF U
    <2> QED
      BY <2>2 DEF Nth
  <1>5. Nth(U, Cardinality(T) + 1) = x
    <2>1. ASSUME NEW z \in T
          PROVE  Cardinality({y \in T : Before(y, z)}) < Cardinality(T)
      <3> DEFINE B == {y \in T : Before(y, z)}
      <3>1. B \subseteq T /\ z \notin B
        BY DEF Ultimate
      <3>2. B # T
        BY <3>1
      <3> HIDE DEF B
      <3>3. Cardinality(B) \in Nat /\ Cardinality(B) <= Cardinality(T)
        BY <3>1, FS_Subset, FS_CardinalityType
      <3>4. Cardinality(B) # Cardinality(T)
        BY <3>1, <3>2, FS_Subset
      <3>5. Cardinality(B) < Cardinality(T)
        BY <1>1, <3>3, <3>4
      <3> QED
        BY <3>5 DEF B
    <2>2. \A z \in U : Cardinality({y \in U : Before(y, z)}) = (Cardinality(T) + 1) - 1 <=> z = x
      <3>1. (Cardinality(T) + 1) - 1 = Cardinality(T)
        BY <1>1
      <3>2. \A z \in T : z # x /\ Cardinality({y \in U : Before(y, z)}) # Cardinality(T)
        BY <1>0, <1>1, <1>2, <2>1
      <3> QED
        BY <1>3, <3>1, <3>2
    <2>3. x \in U
      OBVIOUS
    <2> HIDE DEF U
    <2> QED
      BY <2>2, <2>3 DEF Nth
  <1> QED
    BY <1>1, <1>4, <1>5

\* The reconstruction of a journal that grows goes on from what it had.
LEMMA ReconstructionGrows ==
  ASSUME NEW T, IsFiniteSet(T), NEW x, Ultimate(T, x)
  PROVE  Reconstruct(T \cup {x}) = Applied(Reconstruct(T), x.tx, x.at[1])
  <1> DEFINE U == T \cup {x}
             N == Cardinality(T)
  <1>1. /\ N \in Nat /\ Cardinality(U) = N + 1
        /\ \A n \in 1 .. N : Nth(U, n) = Nth(T, n)
        /\ Nth(U, N + 1) = x
    <2>1. N \in Nat
      BY FS_CardinalityType
    <2> QED
      BY <2>1, LastPlace
  <1> HIDE DEF U, N
  <1>2. PICK g : Replays(T, N, g) /\ Reconstruct(T) = g[N]
    BY <1>1, ReconstructionIsReplay DEF N
  <1>3. PICK h : Replays(U, N + 1, h) /\ Reconstruct(U) = h[N + 1]
    BY <1>1, ReconstructionIsReplay
  <1> DEFINE S == {j \in Nat : j <= N => g[j] = h[j]}
  <1>4. 0 \in S
    BY <1>1, <1>2, <1>3 DEF Replays
  <1>5. ASSUME NEW j \in Nat, j \in S
        PROVE  j + 1 \in S
    <2> SUFFICES ASSUME j + 1 <= N PROVE g[j + 1] = h[j + 1]
      OBVIOUS
    <2>1. /\ g[j] = h[j] /\ Nth(U, j + 1) = Nth(T, j + 1)
          /\ (j + 1) - 1 = j /\ j + 1 # 0 /\ j + 1 \in 0 .. N /\ j + 1 \in 0 .. N + 1
      BY <1>1, <1>5
    <2>2. g[j + 1] = Applied(g[j], Nth(T, j + 1).tx, Nth(T, j + 1).at[1])
      BY <1>2, <2>1 DEF Replays
    <2>3. h[j + 1] = Applied(h[j], Nth(U, j + 1).tx, Nth(U, j + 1).at[1])
      BY <1>3, <2>1 DEF Replays
    <2> QED
      BY <2>1, <2>2, <2>3
  <1> HIDE DEF S
  <1>6. Nat \subseteq S
    BY <1>4, <1>5, SetInduction
  <1>7. g[N] = h[N]
    BY <1>1, <1>6 DEF S
  <1>8. h[N + 1] = Applied(h[N], Nth(U, N + 1).tx, Nth(U, N + 1).at[1])
    <2>1. N + 1 \in 0 .. N + 1 /\ N + 1 # 0 /\ (N + 1) - 1 = N
      BY <1>1
    <2> QED
      BY <1>3, <2>1 DEF Replays
  <1> QED
    BY <1>1, <1>2, <1>3, <1>7, <1>8 DEF U

-----------------------------------------------------------------------------
(* The lists of entries. *)

\* The last entry of a list is dropped again by Front.
LEMMA FrontOfAppend ==
  ASSUME NEW S, NEW s \in Seq(S), NEW e \in S
  PROVE  /\ Append(s, e) \in Seq(S) /\ Append(s, e) # <<>>
         /\ Front(Append(s, e)) = s
  <1>1. /\ Append(s, e) \in Seq(S) /\ Len(Append(s, e)) = Len(s) + 1
        /\ \A i \in 1 .. Len(s) : Append(s, e)[i] = s[i]
    OBVIOUS
  <1>2. Front(Append(s, e)) = SubSeq(Append(s, e), 1, Len(s))
    BY <1>1 DEF Front
  <1>3. SubSeq(Append(s, e), 1, Len(s)) = s
    <2> DEFINE c == Append(s, e)
    <2>1. c \in Seq(S) /\ Len(s) \in Nat /\ Len(s) <= Len(c)
      BY <1>1
    <2>2. IsChain(c) /\ IsChain(s)
      BY <2>1, OwnElements
    <2> HIDE DEF c
    <2>3. Len(s) \in 0 .. Len(c)
      BY <2>1
    <2>4. /\ IsChain(SubSeq(c, 1, Len(s))) /\ Len(SubSeq(c, 1, Len(s))) = Len(s)
          /\ \A h \in 1 .. Len(s) : SubSeq(c, 1, Len(s))[h] = c[h]
      BY <2>2, <2>3, PrefixIsChain
    <2>5. \A h \in 1 .. Len(s) : c[h] = s[h]
      BY <1>1 DEF c
    <2>6. SubSeq(c, 1, Len(s)) = s
      BY <2>2, <2>4, <2>5, SameBlocks
    <2> QED
      BY <2>6 DEF c
  <1>4. Append(s, e) # <<>>
    <2>1. Len(Append(s, e)) # 0 /\ Len(<<>>) = 0
      BY <1>1
    <2> DEFINE c == Append(s, e)
    <2>2. c # <<>>
      <3> HIDE DEF c
      <3> QED
        BY <2>1 DEF c
    <2> QED
      BY <2>2
  <1> QED
    BY <1>1, <1>2, <1>3, <1>4

LEMMA ShardsCounted == Cardinality(Shards) \in Nat
  BY FamilyAssumption, FS_CardinalityType

\* The list of all shards is built from one shard after the other.
LEMMA ListedByShard ==
  ASSUME NEW T, NEW counted \in [Shards -> Seq(T)], Cardinality(Shards) # 0
  PROVE  \E flat : /\ Listed(counted) = flat[Cardinality(Shards)]
                   /\ flat[1] = counted[1]
                   /\ \A n \in 1 .. Cardinality(Shards) - 1 :
                        flat[n + 1] = flat[n] \o counted[n + 1]
  <1> DEFINE N == Cardinality(Shards)
             lists == [s \in Shards |-> counted[s]]
             Join(list, i) == list \o lists[i]
             IsFlat(f, n) == f = [i \in 1 .. n |-> IF i = 1 THEN lists[i]
                                                   ELSE Join(f[i - 1], i)]
  <1>1. N \in Nat /\ Shards = 1 .. N
    BY FamilyAssumption, ShardsCounted
  <1>2. lists \in [1 .. N -> Seq(T)]
    BY <1>1
  <1>3. Len(lists) = N
    <2> HIDE DEF lists, N
    <2>1. lists \in Seq(Seq(T))
      BY <1>1, <1>2
    <2> QED
      BY <1>1, <1>2, <2>1
  <1> DEFINE S == {n \in Nat : \E f : IsFlat(f, n + 1)}
  <1>4. 0 \in S
    <2> HIDE DEF Join, lists
    <2> DEFINE g == [i \in 1 .. 1 |-> lists[1]]
    <2>1. IsFlat(g, 1)
      OBVIOUS
    <2>2. \E f : IsFlat(f, 0 + 1)
      <3> HIDE DEF g, IsFlat
      <3>1. 0 + 1 = 1
        OBVIOUS
      <3> QED
        BY <2>1, <3>1, Zenon
    <2> QED
      BY <2>2
  <1>5. ASSUME NEW n \in Nat, n \in S
        PROVE  n + 1 \in S
    <2>1. PICK f : IsFlat(f, n + 1)
      BY <1>5
    <2> HIDE DEF lists, Join
    <2> DEFINE g == [i \in 1 .. n + 2 |-> IF i = n + 2 THEN Join(f[n + 1], n + 2) ELSE f[i]]
    <2>2. ASSUME NEW i \in 1 .. n + 2
          PROVE  g[i] = IF i = 1 THEN lists[i] ELSE Join(g[i - 1], i)
      <3>1. CASE i = n + 2
        <4>1. g[i] = Join(f[n + 1], n + 2) /\ g[i - 1] = f[n + 1] /\ i # 1
          BY <3>1
        <4> QED
          BY <3>1, <4>1
      <3>2. CASE i # n + 2
        <4>1. i \in 1 .. n + 1 /\ g[i] = f[i] /\ (i # 1 => g[i - 1] = f[i - 1])
          BY <3>2
        <4>2. f[i] = IF i = 1 THEN lists[i] ELSE Join(f[i - 1], i)
          BY <2>1, <4>1
        <4> QED
          BY <4>1, <4>2
      <3> QED
        BY <3>1, <3>2
    <2>3. IsFlat(g, (n + 1) + 1)
      BY <2>2
    <2> HIDE DEF g
    <2> QED
      BY <2>3
  <1>6. Nat \subseteq S
    <2> HIDE DEF S
    <2> QED
      BY <1>4, <1>5, SetInduction
  <1> DEFINE flat == CHOOSE f : IsFlat(f, N)
  <1>7. IsFlat(flat, N)
    <2>1. N - 1 \in Nat /\ (N - 1) + 1 = N
      BY <1>1
    <2>2. \E f : IsFlat(f, (N - 1) + 1)
      BY <1>6, <2>1
    <2> HIDE DEF IsFlat, N
    <2> QED
      BY <2>1, <2>2, Zenon
  <1>8. Listed(counted) = flat[N]
    BY <1>3 DEF Listed, FlattenSeq
  <1> HIDE DEF flat, lists, Join
  <1>9. flat[1] = counted[1]
    <2>1. 1 \in 1 .. N
      BY <1>1
    <2> QED
      BY <1>1, <1>7, <2>1 DEF lists
  <1>10. ASSUME NEW n \in 1 .. N - 1
         PROVE  flat[n + 1] = flat[n] \o counted[n + 1]
    <2>1. n + 1 \in 1 .. N /\ n + 1 # 1 /\ (n + 1) - 1 = n
      BY <1>1
    <2>2. flat[n + 1] = Join(flat[n], n + 1)
      BY <1>7, <2>1
    <2> QED
      BY <1>1, <2>1, <2>2 DEF Join, lists
  <1> QED
    BY <1>8, <1>9, <1>10

\* Without a shard there is nothing to list.
LEMMA ListedOfNoShard ==
  ASSUME NEW T, NEW counted \in [Shards -> Seq(T)], Cardinality(Shards) = 0
  PROVE  Listed(counted) = <<>>
  <1> DEFINE lists == [s \in Shards |-> counted[s]]
  <1>1. Shards = 1 .. 0
    BY FamilyAssumption
  <1>2. lists = <<>>
    BY <1>1
  <1>3. Len(lists) = 0
    BY <1>2
  <1> QED
    BY <1>2, <1>3 DEF Listed, FlattenSeq

\* The lists of all shards make one list of the same entries.
LEMMA ListedIsList ==
  ASSUME NEW T, NEW counted \in [Shards -> Seq(T)]
  PROVE  Listed(counted) \in Seq(T)
  <1> DEFINE N == Cardinality(Shards)
  <1>1. N \in Nat /\ Shards = 1 .. N
    BY FamilyAssumption, ShardsCounted
  <1>2. CASE N = 0
    <2>1. Listed(counted) = <<>>
      BY <1>2, ListedOfNoShard
    <2> QED
      BY <2>1
  <1>3. CASE N # 0
    <2>1. PICK flat : /\ Listed(counted) = flat[N]
                      /\ flat[1] = counted[1]
                      /\ \A n \in 1 .. N - 1 : flat[n + 1] = flat[n] \o counted[n + 1]
      BY <1>3, ListedByShard
    <2> DEFINE P == {n \in Nat : n + 1 <= N => flat[n + 1] \in Seq(T)}
    <2>2. 0 \in P
      BY <1>1, <1>3, <2>1
    <2>3. ASSUME NEW n \in Nat, n \in P
          PROVE  n + 1 \in P
      <3> SUFFICES ASSUME (n + 1) + 1 <= N
                   PROVE  flat[(n + 1) + 1] \in Seq(T)
        OBVIOUS
      <3>1. flat[n + 1] \in Seq(T) /\ n + 1 \in 1 .. N - 1 /\ (n + 1) + 1 \in Shards
        BY <1>1, <2>3
      <3>2. flat[(n + 1) + 1] = flat[n + 1] \o counted[(n + 1) + 1]
        BY <2>1, <3>1
      <3>3. counted[(n + 1) + 1] \in Seq(T)
        BY <3>1
      <3> QED
        BY <3>1, <3>2, <3>3
    <2>4. Nat \subseteq P
      <3> HIDE DEF P
      <3> QED
        BY <2>2, <2>3, SetInduction
    <2>5. N - 1 \in Nat /\ (N - 1) + 1 = N
      BY <1>1, <1>3
    <2> QED
      BY <2>1, <2>4, <2>5
  <1> QED
    BY <1>2, <1>3

-----------------------------------------------------------------------------
(* The contracts and the reconstruction agree. *)

Families ==
  [prize : {"bootstrap", "open", "frozen", "spent"}, frozen : {None} \cup Freezings,
   shard : [Shards -> [tip : Seq(Entries), since : Nat]]]

Projections ==
  [phase : {"awaiting_activation", "open", "frozen"} \cup Ended,
   frozen : {None} \cup Freezings, winner : {None} \cup Entries,
   shard : [Shards -> [finalized : Seq(Entries), pending : {None} \cup Entries,
                       registeredAt : Nat, late : {None} \cup Entries, tip : Seq(Entries)]]]

\* A shard of the contracts, and what the reconstruction keeps of it.
SameShard(u, q) ==
  /\ q.tip = u.tip /\ Finalized(q) = u.tip /\ q.registeredAt = u.since
  /\ u.tip = <<>> <=> q.pending = None
  /\ u.tip = <<>> => u.since = 0
  /\ u.tip # <<>> => q.finalized = Front(u.tip)

SamePhase(f, r) ==
  /\ f.prize = "bootstrap" <=> r.phase = "awaiting_activation"
  /\ f.prize = "open" <=> r.phase = "open"
  /\ f.prize = "frozen" <=> r.phase = "frozen"
  /\ f.prize = "spent" <=> r.phase \in Ended

Agree(f, r) ==
  /\ f \in Families /\ r \in Projections
  /\ SamePhase(f, r)
  /\ f.prize \in {"bootstrap", "open"} =>
       /\ f.frozen = None /\ r.frozen = None
       /\ \A s \in Shards : SameShard(f.shard[s], r.shard[s])
  /\ f.prize \in {"frozen", "spent"} =>
       f.frozen # None /\ r.frozen = f.frozen /\ Lists(r) = f.frozen.counted

LEMMA FreezingIsNotNone == \A t \in Freezings : t # None
  BY NoneAssumption DEF Txs

LEMMA AgreeAtFirst == Agree(Unfunded, Blank)
  <1>1. \A s \in Shards : SameShard(Unfunded.shard[s], Blank.shard[s])
    BY DEF SameShard, Unfunded, Blank, Finalized
  <1>2. Unfunded \in Families /\ Blank \in Projections
    BY DEF Families, Projections, Unfunded, Blank
  <1>3. SamePhase(Unfunded, Blank) /\ Unfunded.prize = "bootstrap"
        /\ Unfunded.frozen = None /\ Blank.frozen = None
    BY DEF SamePhase, Unfunded, Blank, Ended
  <1> QED
    BY <1>1, <1>2, <1>3 DEF Agree

LEMMA AgreeOnActivation ==
  ASSUME NEW f, NEW r, Agree(f, r), f.prize = "bootstrap", NEW n
  PROVE  Agree(Spend(f, Activation, n), Applied(r, Activation, n))
  <1>1. /\ Spend(f, Activation, n) = [f EXCEPT !.prize = "open"]
        /\ Applied(r, Activation, n) = [r EXCEPT !.phase = "open"]
    BY DEF Spend, Applied, Activated, Activation, Agree, SamePhase
  <1> DEFINE g == [f EXCEPT !.prize = "open"]
             q == [r EXCEPT !.phase = "open"]
  <1>2. /\ g \in Families /\ q \in Projections
        /\ g.prize = "open" /\ q.phase = "open"
        /\ g.frozen = f.frozen /\ q.frozen = r.frozen
        /\ g.shard = f.shard /\ q.shard = r.shard
    BY DEF Agree, Families, Projections
  <1> HIDE DEF g, q
  <1>3. Agree(g, q)
    BY <1>2 DEF Agree, SamePhase, Ended
  <1> QED
    BY <1>1, <1>3 DEF g, q

LEMMA AgreeOnRegistration ==
  ASSUME NEW f, NEW r, Agree(f, r), NEW e \in Entries, MayRegister(f, e), NEW n \in Nat
  PROVE  LET t == Registration(e, f.shard[ShardOf[e]].tip)
         IN t \in Txs /\ Agree(Spend(f, t, n), Applied(r, t, n))
  <1> DEFINE s == ShardOf[e]
             u == f.shard[s]
             p == r.shard[s]
             t == Registration(e, u.tip)
             v == [tip |-> Append(u.tip, e), since |-> n]
             q == [p EXCEPT !.finalized = Finalized(p), !.pending = e,
                            !.registeredAt = n, !.tip = Append(u.tip, e)]
             g == [f EXCEPT !.shard[s] = v]
             z == [r EXCEPT !.shard[s] = q]
  <1>1. /\ s \in Shards
        /\ f.prize = "open" /\ r.phase = "open" /\ f \in Families /\ r \in Projections
        /\ u \in [tip : Seq(Entries), since : Nat]
        /\ p \in [finalized : Seq(Entries), pending : {None} \cup Entries,
                  registeredAt : Nat, late : {None} \cup Entries, tip : Seq(Entries)]
        /\ SameShard(u, p)
    BY FamilyAssumption DEF Agree, SamePhase, MayRegister, Families, Projections
  <1>2. t \in Txs /\ t.kind = "register" /\ t.entry = e /\ t.on = u.tip
    BY <1>1 DEF Registration, Txs
  <1>3. Applied(r, t, n) = z
    <2>1. /\ Len(u.tip) < Capacity /\ ~Contains(u.tip, e)
          /\ u.tip # <<>> => u.since <= ClosesAt
      BY DEF MayRegister
    <2>2. ~ Len(Finalized(p)) >= Capacity
      BY <1>1, <2>1, FamilyAssumption DEF SameShard
    <2>3. ~(p.pending # None /\ p.registeredAt > ClosesAt)
      <3>1. p.registeredAt \in Nat /\ ClosesAt \in Nat
        BY <1>1, FamilyAssumption
      <3> QED
        BY <1>1, <2>1, <3>1 DEF SameShard
    <2>4. ~Contains(Finalized(p), e) /\ t.on = p.tip
      BY <1>1, <1>2, <2>1 DEF SameShard
    <2> HIDE DEF t, p
    <2> QED
      BY <1>1, <1>2, <2>2, <2>3, <2>4 DEF Applied, Registered, p, z, q
  <1>4. Spend(f, t, n) = g
    <2> HIDE DEF t
    <2> QED
      BY <1>2 DEF Spend
  <1>5. Finalized(p) \in Seq(Entries) /\ Finalized(p) = u.tip
    BY <1>1 DEF SameShard
  <1>6. /\ Append(u.tip, e) \in Seq(Entries) /\ Append(u.tip, e) # <<>>
        /\ Front(Append(u.tip, e)) = u.tip
    <2>1. u.tip \in Seq(Entries)
      BY <1>5
    <2> HIDE DEF u
    <2> QED
      BY <2>1, FrontOfAppend
  <1>7. v \in [tip : Seq(Entries), since : Nat]
    BY <1>6
  <1>8. q \in [finalized : Seq(Entries), pending : {None} \cup Entries,
               registeredAt : Nat, late : {None} \cup Entries, tip : Seq(Entries)]
    <2> HIDE DEF p
    <2> QED
      BY <1>1, <1>5, <1>6
  <1>9. SameShard(v, q)
    <2>1. /\ q.finalized = u.tip /\ q.pending = e /\ q.registeredAt = n
          /\ q.tip = Append(u.tip, e)
      <3> HIDE DEF p
      <3> QED
        BY <1>1, <1>5
    <2>2. e # None
      BY NoneAssumption
    <2> HIDE DEF q
    <2> QED
      BY <1>6, <2>1, <2>2 DEF SameShard, Finalized
  <1> HIDE DEF v, q, s
  <1>10. /\ g \in Families /\ z \in Projections /\ g.prize = "open" /\ z.phase = "open"
         /\ g.frozen = f.frozen /\ z.frozen = r.frozen
         /\ \A x \in Shards : g.shard[x] = IF x = s THEN v ELSE f.shard[x]
         /\ \A x \in Shards : z.shard[x] = IF x = s THEN q ELSE r.shard[x]
    BY <1>1, <1>7, <1>8 DEF Families, Projections
  <1> HIDE DEF g, z
  <1>11. Agree(g, z)
    BY <1>1, <1>9, <1>10 DEF Agree, SamePhase, Ended
  <1> QED
    BY <1>2, <1>3, <1>4, <1>11 DEF t, s

\* Who takes part, as the contract counts and as the reconstruction closes a shard.
LEMMA SameShardCloses ==
  ASSUME NEW u \in [tip : Seq(Entries), since : Nat],
         NEW p \in [finalized : Seq(Entries), pending : {None} \cup Entries,
                    registeredAt : Nat, late : {None} \cup Entries, tip : Seq(Entries)],
         SameShard(u, p)
  PROVE  /\ Closed(p).finalized = Eligible(u) /\ Eligible(u) \in Seq(Entries)
         /\ Closed(p) \in [finalized : Seq(Entries), pending : {None} \cup Entries,
                            registeredAt : Nat, late : {None} \cup Entries, tip : Seq(Entries)]
  <1>1. p.finalized \in Seq(Entries) /\ Finalized(p) \in Seq(Entries)
    BY DEF SameShard
  <1>2. Closed(p).finalized = IF p.registeredAt <= ClosesAt THEN Finalized(p) ELSE p.finalized
    BY DEF Closed
  <1>3. Closed(p).finalized = Eligible(u)
    <2>1. p.registeredAt = u.since /\ u.since \in Nat /\ ClosesAt \in Nat
      BY FamilyAssumption DEF SameShard
    <2> QED
      BY <1>2, <2>1 DEF SameShard, Eligible
  <1>4. Closed(p).finalized \in Seq(Entries)
    BY <1>1, <1>2
  <1>5. Closed(p) \in [finalized : Seq(Entries), pending : {None} \cup Entries,
                       registeredAt : Nat, late : {None} \cup Entries, tip : Seq(Entries)]
    BY <1>1 DEF Closed
  <1> QED
    BY <1>3, <1>4, <1>5

LEMMA AgreeOnFreezing ==
  ASSUME NEW f, NEW r, Agree(f, r), NEW n \in Nat, MayFreeze(f, n)
  PROVE  LET t == Freezing(Tips(f), Counted(f))
         IN t \in Txs /\ Agree(Spend(f, t, n), Applied(r, t, n))
  <1> DEFINE t == Freezing(Tips(f), Counted(f))
             closed == [s \in Shards |-> Closed(r.shard[s])]
             g == [f EXCEPT !.prize = "frozen", !.frozen = t]
             z == [r EXCEPT !.phase = "frozen", !.frozen = t, !.shard = closed]
  <1>1. /\ f.prize = "open" /\ r.phase = "open" /\ f \in Families /\ r \in Projections
        /\ \A s \in Shards : /\ f.shard[s] \in [tip : Seq(Entries), since : Nat]
                             /\ r.shard[s] \in
                                  [finalized : Seq(Entries), pending : {None} \cup Entries,
                                   registeredAt : Nat, late : {None} \cup Entries,
                                   tip : Seq(Entries)]
                             /\ SameShard(f.shard[s], r.shard[s])
    BY DEF Agree, SamePhase, MayFreeze, Families, Projections
  <1>2. \A s \in Shards :
          /\ closed[s].finalized = Eligible(f.shard[s])
          /\ Eligible(f.shard[s]) \in Seq(Entries)
          /\ closed[s] \in [finalized : Seq(Entries), pending : {None} \cup Entries,
                            registeredAt : Nat, late : {None} \cup Entries, tip : Seq(Entries)]
    BY <1>1, SameShardCloses
  <1>3. /\ t \in Freezings /\ t.kind = "freeze" /\ t.on = Tips(f) /\ t.counted = Counted(f)
    <2>1. Tips(f) \in EntryLists
      BY <1>1 DEF Tips, EntryLists
    <2>2. Counted(f) \in EntryLists
      BY <1>2 DEF Counted, EntryLists
    <2> QED
      BY <2>1, <2>2 DEF Freezing, Freezings
  <1>4. t.on = [s \in Shards |-> r.shard[s].tip]
    BY <1>1, <1>3 DEF Tips, SameShard
  <1>5. t.counted = [s \in Shards |-> closed[s].finalized]
    BY <1>2, <1>3 DEF Counted
  <1>6. ~(n < ClosesAt)
    BY FamilyAssumption DEF MayFreeze
  <1> HIDE DEF t
  <1>7. Applied(r, t, n) = z
    BY <1>1, <1>3, <1>4, <1>5, <1>6 DEF Applied, Frozen
  <1>8. Spend(f, t, n) = g
    BY <1>3 DEF Spend
  <1>9. closed \in [Shards -> [finalized : Seq(Entries), pending : {None} \cup Entries,
                   registeredAt : Nat, late : {None} \cup Entries, tip : Seq(Entries)]]
    BY <1>2
  <1>10. Lists([r EXCEPT !.phase = "frozen", !.frozen = t, !.shard = closed]) = t.counted
    <2>1. z.shard = closed
      <3> HIDE DEF closed
      <3> QED
        BY <1>1 DEF Projections
    <2> HIDE DEF z, closed
    <2> QED
      BY <1>5, <2>1 DEF Lists, z
  <1> HIDE DEF closed
  <1>11. /\ g \in Families /\ z \in Projections /\ g.prize = "frozen" /\ z.phase = "frozen"
         /\ g.frozen = t /\ z.frozen = t /\ Lists(z) = t.counted
    BY <1>1, <1>3, <1>9, <1>10 DEF Families, Projections
  <1>12. t # None
    BY <1>3, FreezingIsNotNone
  <1> HIDE DEF g, z
  <1>13. Agree(g, z)
    BY <1>11, <1>12 DEF Agree, SamePhase, Ended
  <1> QED
    BY <1>3, <1>7, <1>8, <1>13 DEF t, Txs

LEMMA SelectedIsEntry ==
  ASSUME NEW T, NEW counted \in [Shards -> Seq(T)], Listed(counted) # <<>>, NEW candidate \in Nat
  PROVE  Selected(counted, candidate) \in T
  <1> DEFINE list == Listed(counted)
  <1>1. list \in Seq(T) /\ list # <<>>
    BY ListedIsList
  <1> HIDE DEF list
  <1>2. Len(list) \in Nat /\ Len(list) > 0
    BY <1>1
  <1>3. (candidate % Len(list)) + 1 \in 1 .. Len(list)
    BY <1>2
  <1>4. list[(candidate % Len(list)) + 1] \in T
    BY <1>1, <1>2, <1>3
  <1> QED
    BY <1>4 DEF Selected, list

LEMMA AgreeOnDrawing ==
  ASSUME NEW f, NEW r, Agree(f, r), NEW past, MayDraw(f, past), NEW candidate \in Nat, NEW n
  PROVE  LET t == Drawing(f.frozen, Selected(f.frozen.counted, candidate), candidate)
         IN t \in Txs /\ Agree(Spend(f, t, n), Applied(r, t, n))
  <1> DEFINE winner == Selected(f.frozen.counted, candidate)
             t == Drawing(f.frozen, winner, candidate)
             g == [f EXCEPT !.prize = "spent"]
             z == [r EXCEPT !.phase = "drawn", !.winner = winner]
  <1>1. /\ f.prize = "frozen" /\ r.phase = "frozen" /\ f \in Families /\ r \in Projections
        /\ f.frozen \in Freezings /\ r.frozen = f.frozen /\ Lists(r) = f.frozen.counted
        /\ Listed(f.frozen.counted) # <<>> /\ f.frozen.counted \in EntryLists
        /\ f.frozen # None
    BY DEF Agree, SamePhase, MayDraw, Families, Freezings
  <1>2. winner \in Entries
    BY <1>1, SelectedIsEntry DEF EntryLists
  <1>3. t \in Txs /\ t.kind = "draw" /\ t.frozen = f.frozen /\ t.winner = winner
        /\ t.candidate = candidate
    <2> HIDE DEF winner
    <2> QED
      BY <1>1, <1>2 DEF Drawing, Txs
  <1>4. t.winner = Selected(Lists(r), t.candidate)
    BY <1>1, <1>3
  <1> HIDE DEF t, winner
  <1>5. Applied(r, t, n) = z
    BY <1>1, <1>3, <1>4 DEF Applied, Drawn
  <1>6. Spend(f, t, n) = g
    BY <1>3 DEF Spend
  <1>7. /\ g \in Families /\ z \in Projections /\ g.prize = "spent" /\ z.phase = "drawn"
        /\ g.frozen = f.frozen /\ z.frozen = r.frozen /\ z.shard = r.shard
    BY <1>1, <1>2 DEF Families, Projections, Ended
  <1> HIDE DEF g, z
  <1>8. Agree(g, z)
    BY <1>1, <1>7 DEF Agree, SamePhase, Ended, Lists
  <1> QED
    BY <1>3, <1>5, <1>6, <1>8 DEF t, winner

LEMMA AgreeOnReturning ==
  ASSUME NEW f, NEW r, Agree(f, r), NEW n \in Nat, MayReturn(f, n)
  PROVE  LET t == Returning(f.frozen)
         IN t \in Txs /\ Agree(Spend(f, t, n), Applied(r, t, n))
  <1> DEFINE t == Returning(f.frozen)
             g == [f EXCEPT !.prize = "spent"]
             z == [r EXCEPT !.phase = "returned"]
  <1>1. /\ f.prize = "frozen" /\ r.phase = "frozen" /\ f \in Families /\ r \in Projections
        /\ f.frozen \in Freezings /\ r.frozen = f.frozen /\ Lists(r) = f.frozen.counted
        /\ f.frozen # None
    BY DEF Agree, SamePhase, MayReturn, Families
  <1>2. t \in Txs /\ t.kind = "return" /\ t.frozen = f.frozen
    BY <1>1 DEF Returning, Txs
  <1>3. ~(n < IF Listed(Lists(r)) = <<>> THEN ClosesAt ELSE ReturnAt)
    BY <1>1, FamilyAssumption DEF MayReturn
  <1> HIDE DEF t
  <1>4. Applied(r, t, n) = z
    BY <1>1, <1>2, <1>3 DEF Applied, Returned
  <1>5. Spend(f, t, n) = g
    BY <1>2 DEF Spend
  <1>6. /\ g \in Families /\ z \in Projections /\ g.prize = "spent" /\ z.phase = "returned"
        /\ g.frozen = f.frozen /\ z.frozen = r.frozen /\ z.shard = r.shard
    BY <1>1 DEF Families, Projections, Ended
  <1> HIDE DEF g, z
  <1>7. Agree(g, z)
    BY <1>1, <1>6 DEF Agree, SamePhase, Ended, Lists
  <1> QED
    BY <1>2, <1>4, <1>5, <1>7 DEF t

\* Whatever the contracts allow, the reconstruction takes for what it was.
LEMMA AgreeOnOffers ==
  ASSUME NEW f, NEW r, Agree(f, r), NEW past, Len(past) \in Nat,
         \A h \in 1 .. Len(past) : past[h].fork \in Nat,
         NEW t \in Offers(f, past)
  PROVE  t \in Txs /\ Agree(Spend(f, t, Len(past) + 1), Applied(r, t, Len(past) + 1))
  <1>1. CASE t = Activation /\ f.prize = "bootstrap"
    BY <1>1, AgreeOnActivation DEF Txs
  <1>2. ASSUME NEW e \in Entries, MayRegister(f, e),
               t = Registration(e, f.shard[ShardOf[e]].tip)
        PROVE  t \in Txs /\ Agree(Spend(f, t, Len(past) + 1), Applied(r, t, Len(past) + 1))
    BY <1>2, AgreeOnRegistration
  <1>3. CASE t = Freezing(Tips(f), Counted(f)) /\ MayFreeze(f, Len(past) + 1)
    BY <1>3, AgreeOnFreezing
  <1>4. CASE /\ MayDraw(f, past)
             /\ t = Drawing(f.frozen, Selected(f.frozen.counted, past[Target].fork),
                            past[Target].fork)
    <2>1. past[Target].fork \in Nat
      BY <1>4, FamilyAssumption DEF MayDraw
    <2> QED
      BY <1>4, <2>1, AgreeOnDrawing
  <1>5. CASE t = Returning(f.frozen) /\ MayReturn(f, Len(past) + 1)
    BY <1>5, AgreeOnReturning
  <1> QED
    BY <1>1, <1>2, <1>3, <1>4, <1>5 DEF Offers

-----------------------------------------------------------------------------
(* Chains that the contracts allow. *)

Allowed(past, block) ==
  /\ block \in [tx : {block.tx}, fork : 0 .. MaxForks]
  /\ block.tx \in {None} \cup Offers(Outputs(past), past)

\* Every block is allowed after the ones below it, and branches follow each other.
Legal(c) ==
  /\ IsChain(c)
  /\ \A n \in 1 .. Len(c) : Allowed(SubSeq(c, 1, n - 1), c[n])
  /\ \A n, m \in 1 .. Len(c) : n <= m => c[n].fork <= c[m].fork

LEMMA PrefixOfPrefix ==
  ASSUME NEW c, IsChain(c), NEW d, IsChain(d), NEW k \in 0 .. Len(c), k <= Len(d),
         \A h \in 1 .. k : c[h] = d[h]
  PROVE  SubSeq(c, 1, k) = SubSeq(d, 1, k)
  <1> DEFINE x == SubSeq(c, 1, k)
             y == SubSeq(d, 1, k)
  <1>1. k \in 0 .. Len(d) /\ k \in Nat
    BY DEF IsChain
  <1>2. /\ IsChain(x) /\ IsChain(y) /\ Len(x) = k /\ Len(y) = k
        /\ \A h \in 1 .. k : x[h] = c[h] /\ y[h] = d[h]
    BY <1>1, PrefixIsChain
  <1> HIDE DEF x, y
  <1>3. x = y
    BY <1>2, SameBlocks
  <1> QED
    BY <1>3 DEF x, y

LEMMA WholePrefix ==
  ASSUME NEW c, IsChain(c)
  PROVE  SubSeq(c, 1, Len(c)) = c
  <1> DEFINE x == SubSeq(c, 1, Len(c))
  <1>1. Len(c) \in 0 .. Len(c)
    BY DEF IsChain
  <1>2. IsChain(x) /\ Len(x) = Len(c) /\ \A h \in 1 .. Len(c) : x[h] = c[h]
    BY <1>1, PrefixIsChain
  <1> HIDE DEF x
  <1>3. x = c
    BY <1>2, SameBlocks
  <1> QED
    BY <1>3 DEF x

LEMMA NothingIsLegal == Legal(<<>>)
  BY EmptyIsChain DEF Legal

LEMMA PrefixIsLegal ==
  ASSUME NEW c, Legal(c), NEW k \in 0 .. Len(c)
  PROVE  Legal(SubSeq(c, 1, k))
  <1> DEFINE p == SubSeq(c, 1, k)
  <1>1. IsChain(c) /\ Len(c) \in Nat
    BY DEF Legal, IsChain
  <1>2. IsChain(p) /\ Len(p) = k /\ \A h \in 1 .. k : p[h] = c[h]
    BY <1>1, PrefixIsChain
  <1> HIDE DEF p
  <1>3. ASSUME NEW n \in 1 .. k
        PROVE  Allowed(SubSeq(p, 1, n - 1), p[n])
    <2>1. n \in 1 .. Len(c) /\ n - 1 \in 0 .. Len(p) /\ n - 1 <= Len(c) /\ p[n] = c[n]
      BY <1>1, <1>2
    <2>2. \A h \in 1 .. n - 1 : p[h] = c[h]
      BY <1>2
    <2>3. SubSeq(p, 1, n - 1) = SubSeq(c, 1, n - 1)
      BY <1>1, <1>2, <2>1, <2>2, PrefixOfPrefix
    <2> QED
      BY <2>1, <2>3 DEF Legal
  <1>4. \A n, m \in 1 .. k : n <= m => p[n].fork <= p[m].fork
    BY <1>1, <1>2 DEF Legal
  <1>5. Legal(p)
    BY <1>2, <1>3, <1>4 DEF Legal
  <1> QED
    BY <1>5 DEF p

LEMMA LegalGrows ==
  ASSUME NEW c, Legal(c), NEW x, Allowed(c, x), \A n \in 1 .. Len(c) : c[n].fork <= x.fork
  PROVE  Legal(Append(c, x))
  <1> DEFINE d == Append(c, x)
  <1>1. IsChain(c) /\ Len(c) \in Nat
    BY DEF Legal, IsChain
  <1>2. IsChain(d) /\ Len(d) = Len(c) + 1 /\ d[Len(c) + 1] = x
        /\ \A h \in 1 .. Len(c) : d[h] = c[h]
    BY <1>1, AppendIsChain
  <1> HIDE DEF d
  <1>3. ASSUME NEW n \in 1 .. Len(d)
        PROVE  Allowed(SubSeq(d, 1, n - 1), d[n])
    <2>1. n - 1 \in 0 .. Len(d) /\ n - 1 <= Len(c)
      BY <1>1, <1>2
    <2>2. \A h \in 1 .. n - 1 : d[h] = c[h]
      BY <1>1, <1>2, <2>1
    <2>3. SubSeq(d, 1, n - 1) = SubSeq(c, 1, n - 1)
      BY <1>1, <1>2, <2>1, <2>2, PrefixOfPrefix
    <2>4. CASE n \in 1 .. Len(c)
      BY <1>2, <2>3, <2>4 DEF Legal
    <2>5. CASE n \notin 1 .. Len(c)
      <3>1. n = Len(c) + 1
        BY <1>1, <1>2, <2>5
      <3>2. n - 1 = Len(c)
        BY <1>1, <3>1
      <3> QED
        <4>1. SubSeq(d, 1, n - 1) = c
          BY <1>1, <2>3, <3>2, WholePrefix
        <4> QED
          BY <1>2, <3>1, <4>1
    <2> QED
      BY <2>4, <2>5
  <1>4. ASSUME NEW n \in 1 .. Len(d), NEW m \in 1 .. Len(d), n <= m
        PROVE  d[n].fork <= d[m].fork
    <2>1. CASE m \in 1 .. Len(c)
      BY <1>1, <1>2, <1>4, <2>1 DEF Legal
    <2>2. CASE m \notin 1 .. Len(c) /\ n \in 1 .. Len(c)
      <3>1. m = Len(c) + 1
        BY <1>1, <1>2, <2>2
      <3> QED
        BY <1>2, <2>2, <3>1
    <2>3. CASE n \notin 1 .. Len(c)
      <3>1. m = Len(c) + 1 /\ n = Len(c) + 1
        BY <1>1, <1>2, <1>4, <2>3
      <3>2. x.fork \in Int
        BY ChainAssumption DEF Allowed
      <3> QED
        BY <1>2, <3>1, <3>2
    <2> QED
      BY <1>1, <1>2, <1>4, <2>1, <2>2, <2>3
  <1>5. Legal(d)
    BY <1>2, <1>3, <1>4 DEF Legal
  <1> QED
    BY <1>5 DEF d

\* The transitions of a chain with one more block.
LEMMA TransitionsGrow ==
  ASSUME NEW p, NEW q, Legal(q), IsChain(p), Len(q) = Len(p) + 1,
         \A h \in 1 .. Len(p) : q[h] = p[h]
  PROVE  LET x == [at |-> <<Len(q), q[Len(q)].fork>>, tx |-> q[Len(q)].tx]
         IN IF x.tx = None THEN Transitions(q) = Transitions(p)
            ELSE Transitions(q) = Transitions(p) \cup {x} /\ Ultimate(Transitions(p), x)
  <1> DEFINE x == [at |-> <<Len(q), q[Len(q)].fork>>, tx |-> q[Len(q)].tx]
  <1>1. IsChain(q) /\ Len(p) \in Nat /\ Len(q) \in Nat
    BY DEF Legal, IsChain
  <1>2. \A h : h \in 1 .. Len(q) <=> h \in 1 .. Len(p) \/ h = Len(q)
    BY <1>1
  <1>3. ASSUME NEW y
        PROVE  y \in Transitions(q) <=> y \in Transitions(p) \/ (y = x /\ x.tx # None)
    <2>1. \A h \in 1 .. Len(p) : [at |-> <<h, q[h].fork>>, tx |-> q[h].tx]
                                  = [at |-> <<h, p[h].fork>>, tx |-> p[h].tx]
      OBVIOUS
    <2>2. y \in Transitions(q) <=>
            \E h \in 1 .. Len(q) :
              q[h].tx # None /\ y = [at |-> <<h, q[h].fork>>, tx |-> q[h].tx]
      BY <1>1, TransitionsOf
    <2>3. y \in Transitions(p) <=>
            \E h \in 1 .. Len(p) :
              p[h].tx # None /\ y = [at |-> <<h, p[h].fork>>, tx |-> p[h].tx]
      BY TransitionsOf
    <2>4. x.tx = q[Len(q)].tx
      OBVIOUS
    <2> QED
      BY <1>2, <2>2, <2>3, <2>4
  <1>4. CASE x.tx = None
    <2>1. \A y : y \in Transitions(q) <=> y \in Transitions(p)
      <3> HIDE DEF x
      <3> QED
        BY <1>3, <1>4
    <2>2. Transitions(q) = Transitions(p)
      BY <2>1
    <2> QED
      BY <1>4, <2>2
  <1>5. CASE x.tx # None
    <2>1. Transitions(q) = Transitions(p) \cup {x}
      BY <1>3, <1>5
    <2>2. ASSUME NEW y \in Transitions(p)
          PROVE  Before(y, x) /\ ~Before(x, y) /\ ~Before(y, y)
      <3>1. PICK h \in 1 .. Len(p) :
              p[h].tx # None /\ y = [at |-> <<h, p[h].fork>>, tx |-> p[h].tx]
        BY TransitionsOf
      <3>2. /\ y.at[1] = h /\ y.at[2] = q[h].fork
            /\ x.at[1] = Len(q) /\ x.at[2] = q[Len(q)].fork
        BY <3>1
      <3>3. /\ q[h].fork <= q[Len(q)].fork /\ h < Len(q) /\ h \in Nat
            /\ q[h].fork \in Int /\ q[Len(q)].fork \in Int
        <4>1. h \in 1 .. Len(q) /\ Len(q) \in 1 .. Len(q) /\ h < Len(q)
          BY <1>1, <3>1
        <4>2. \A k \in 1 .. Len(q) : q[k].fork \in 0 .. MaxForks
          BY DEF Legal, Allowed
        <4> QED
          BY <4>1, <4>2, ChainAssumption DEF Legal
      <3> HIDE DEF x
      <3> QED
        BY <1>1, <3>2, <3>3 DEF Before
    <2>3. ~Before(x, x)
      <3>1. x.at[1] = Len(q) /\ x.at[2] = q[Len(q)].fork
        OBVIOUS
      <3>2. q[Len(q)].fork \in 0 .. MaxForks
        <4>1. Len(q) \in 1 .. Len(q)
          BY <1>1
        <4> QED
          BY <4>1 DEF Legal, Allowed
      <3> HIDE DEF x
      <3> QED
        BY <1>1, <3>1, <3>2, ChainAssumption DEF Before
    <2> QED
      BY <1>5, <2>1, <2>2, <2>3 DEF Ultimate
  <1> QED
    BY <1>4, <1>5

\* After any chain that the contracts allow, the reconstruction of its transitions
\* agrees with the outputs of the contracts.
LEMMA ReconstructionAgrees ==
  ASSUME NEW c, Legal(c)
  PROVE  /\ Agree(Outputs(c), Reconstruct(Transitions(c)))
         /\ \A n \in 1 .. Len(c) : c[n].tx \in {None} \cup Txs
         /\ IsFiniteSet(Transitions(c))
  <1> DEFINE p(n) == SubSeq(c, 1, n)
             Fits(n) == /\ IsFiniteSet(Transitions(p(n)))
                        /\ Agree(Outputs(p(n)), Reconstruct(Transitions(p(n))))
                        /\ n >= 1 => c[n].tx \in {None} \cup Txs
             S == {n \in Nat : n <= Len(c) => Fits(n)}
  <1>1. IsChain(c) /\ Len(c) \in Nat
    BY DEF Legal, IsChain
  <1>2. 0 \in S
    <2>1. p(0) = <<>>
      <3>1. 0 \in 0 .. Len(c)
        BY <1>1
      <3>2. IsChain(p(0)) /\ Len(p(0)) = 0
        BY <1>1, <3>1, PrefixIsChain
      <3> HIDE DEF p
      <3> QED
        BY <3>2, EmptyIsChain, SameBlocks
    <2>2. Fits(0)
      <3> HIDE DEF p
      <3>1. /\ Transitions(p(0)) = {} /\ Outputs(p(0)) = Unfunded
            /\ Reconstruct({}) = Blank /\ IsFiniteSet({}) /\ ~(0 >= 1)
        BY <2>1, EmptyIsChain, EmptyJournal, OutputsOfNothing, FS_EmptySet
      <3> QED
        BY <3>1, AgreeAtFirst
    <2> HIDE DEF Fits
    <2> QED
      BY <2>2
  <1>3. ASSUME NEW n \in Nat, n \in S
        PROVE  n + 1 \in S
    <2> SUFFICES ASSUME n + 1 <= Len(c)
                 PROVE  Fits(n + 1)
      <3> HIDE DEF Fits
      <3> QED
        OBVIOUS
    <2> DEFINE a == p(n)
               b == p(n + 1)
               x == [at |-> <<n + 1, c[n + 1].fork>>, tx |-> c[n + 1].tx]
    <2>1. Fits(n)
      <3> HIDE DEF Fits
      <3> QED
        BY <1>1, <1>3
    <2>2. n \in 0 .. Len(c) /\ n + 1 \in 0 .. Len(c) /\ n + 1 \in 1 .. Len(c) /\ (n + 1) - 1 = n
      BY <1>1
    <2>3. /\ Legal(a) /\ Legal(b) /\ IsChain(a) /\ IsChain(b)
          /\ Len(a) = n /\ Len(b) = n + 1 /\ Len(b) = Len(a) + 1
          /\ b[n + 1] = c[n + 1]
      <3>1. /\ Legal(a) /\ Legal(b)
        BY <2>2, PrefixIsLegal
      <3>2. Len(a) = n /\ Len(b) = n + 1 /\ IsChain(a) /\ IsChain(b)
        BY <1>1, <2>2, PrefixIsChain
      <3>3. b[n + 1] = c[n + 1]
        BY <1>1, <2>2, PrefixIsChain
      <3> HIDE DEF a, b
      <3> QED
        BY <3>1, <3>2, <3>3
    <2>4. \A h \in 1 .. Len(a) : b[h] = a[h]
      <3>1. \A h \in 1 .. n : a[h] = c[h]
        BY <1>1, <2>2, PrefixIsChain
      <3>2. \A h \in 1 .. n + 1 : b[h] = c[h]
        BY <1>1, <2>2, PrefixIsChain
      <3> HIDE DEF a, b
      <3> QED
        BY <2>3, <3>1, <3>2
    <2>5. Allowed(a, c[n + 1])
      BY <2>2 DEF Legal
    <2>6. \A h \in 1 .. Len(a) : a[h].fork \in Nat
      <3> HIDE DEF a
      <3> QED
        BY <2>3, ChainAssumption DEF Legal, Allowed
    <2> HIDE DEF a, b, p
    <2>7. Outputs(b) = Contract(Outputs(a), c[n + 1], n + 1)
      BY <2>3, <2>4, OutputsGrow
    <2>8. /\ IsFiniteSet(Transitions(a))
          /\ Agree(Outputs(a), Reconstruct(Transitions(a)))
      BY <2>1 DEF a
    <2>9. IF x.tx = None THEN Transitions(b) = Transitions(a)
          ELSE Transitions(b) = Transitions(a) \cup {x} /\ Ultimate(Transitions(a), x)
      <3>1. Len(b) = n + 1 /\ b[Len(b)] = c[n + 1]
        BY <2>3
      <3> DEFINE y == [at |-> <<Len(b), b[Len(b)].fork>>, tx |-> b[Len(b)].tx]
      <3>2. IF y.tx = None THEN Transitions(b) = Transitions(a)
            ELSE Transitions(b) = Transitions(a) \cup {y} /\ Ultimate(Transitions(a), y)
        BY <2>3, <2>4, TransitionsGrow
      <3>3. x = y
        BY <3>1
      <3> HIDE DEF x, y
      <3> QED
        BY <3>2, <3>3
    <2>10. CASE c[n + 1].tx = None
      <3>1. Transitions(b) = Transitions(a) /\ Outputs(b) = Outputs(a)
        BY <2>7, <2>9, <2>10 DEF Contract
      <3> QED
        BY <2>8, <2>10, <3>1 DEF b
    <2>11. CASE c[n + 1].tx # None
      <3> DEFINE t == c[n + 1].tx
      <3>1. t \in Offers(Outputs(a), a)
        BY <2>5, <2>11 DEF Allowed
      <3>2. t \in Txs /\ Agree(Spend(Outputs(a), t, n + 1),
                               Applied(Reconstruct(Transitions(a)), t, n + 1))
        <4> HIDE DEF t
        <4> QED
          BY <2>3, <2>6, <2>8, <3>1, AgreeOnOffers
      <3>3. Outputs(b) = Spend(Outputs(a), t, n + 1)
        BY <2>7, <2>11 DEF Contract
      <3>4. Transitions(b) = Transitions(a) \cup {x} /\ Ultimate(Transitions(a), x)
        BY <2>9, <2>11
      <3>5. x.tx = t /\ x.at[1] = n + 1
        OBVIOUS
      <3> HIDE DEF x
      <3>6. Reconstruct(Transitions(b)) = Applied(Reconstruct(Transitions(a)), t, n + 1)
        BY <2>8, <3>4, <3>5, ReconstructionGrows
      <3>7. IsFiniteSet(Transitions(b))
        BY <2>8, <3>4, LastPlace
      <3> QED
        BY <3>2, <3>3, <3>6, <3>7 DEF b
    <2> QED
      BY <2>10, <2>11
  <1>4. Nat \subseteq S
    <2> HIDE DEF S
    <2> QED
      BY <1>2, <1>3, SetInduction
  <1>5. \A n \in Nat : n <= Len(c) => Fits(n)
    <2> HIDE DEF Fits
    <2> QED
      BY <1>4
  <1>6. p(Len(c)) = c
    BY <1>1, WholePrefix
  <1>7. Fits(Len(c))
    BY <1>1, <1>5
  <1> HIDE DEF p
  <1> QED
    BY <1>1, <1>5, <1>6, <1>7

\* What one block more does to the outputs and to the reconstruction.
LEMMA OneBlockMore ==
  ASSUME NEW c, Legal(c), NEW n \in Nat, n + 1 <= Len(c)
  PROVE  LET a == SubSeq(c, 1, n)
             b == SubSeq(c, 1, n + 1)
             t == c[n + 1].tx
             r == Reconstruct(Transitions(a))
         IN /\ Legal(a) /\ Len(a) = n /\ t \in {None} \cup Offers(Outputs(a), a)
            /\ Outputs(b) = Contract(Outputs(a), c[n + 1], n + 1)
            /\ Reconstruct(Transitions(b)) = IF t = None THEN r ELSE Applied(r, t, n + 1)
  <1> DEFINE a == SubSeq(c, 1, n)
             b == SubSeq(c, 1, n + 1)
             x == [at |-> <<Len(b), b[Len(b)].fork>>, tx |-> b[Len(b)].tx]
  <1>1. /\ IsChain(c) /\ Len(c) \in Nat /\ n \in 0 .. Len(c) /\ n + 1 \in 0 .. Len(c)
        /\ n + 1 \in 1 .. Len(c) /\ (n + 1) - 1 = n
    BY DEF Legal, IsChain
  <1>2. Legal(a) /\ Legal(b)
    BY <1>1, PrefixIsLegal
  <1>3. IsChain(a) /\ Len(a) = n /\ \A h \in 1 .. n : a[h] = c[h]
    BY <1>1, PrefixIsChain
  <1>4. IsChain(b) /\ Len(b) = n + 1 /\ \A h \in 1 .. n + 1 : b[h] = c[h]
    BY <1>1, PrefixIsChain
  <1>5. c[n + 1].tx \in {None} \cup Offers(Outputs(a), a)
    BY <1>1 DEF Legal, Allowed
  <1> HIDE DEF a, b
  <1>6. Len(b) = Len(a) + 1 /\ b[Len(b)] = c[n + 1] /\ \A h \in 1 .. Len(a) : b[h] = a[h]
    BY <1>1, <1>3, <1>4
  <1>7. Outputs(b) = Contract(Outputs(a), c[n + 1], n + 1)
    BY <1>3, <1>4, <1>6, OutputsGrow
  <1>8. IF x.tx = None THEN Transitions(b) = Transitions(a)
        ELSE Transitions(b) = Transitions(a) \cup {x} /\ Ultimate(Transitions(a), x)
    BY <1>2, <1>3, <1>6, TransitionsGrow
  <1>9. x.tx = c[n + 1].tx /\ x.at[1] = n + 1
    BY <1>4, <1>6
  <1>10. IsFiniteSet(Transitions(a))
    BY <1>2, ReconstructionAgrees
  <1> HIDE DEF x
  <1>11. Reconstruct(Transitions(b)) = IF c[n + 1].tx = None THEN Reconstruct(Transitions(a))
                                       ELSE Applied(Reconstruct(Transitions(a)), c[n + 1].tx, n + 1)
    BY <1>8, <1>9, <1>10, ReconstructionGrows
  <1> QED
    BY <1>2, <1>3, <1>5, <1>7, <1>11 DEF a, b

\* A chain without a block.
LEMMA NoBlocks ==
  ASSUME NEW c, IsChain(c)
  PROVE  SubSeq(c, 1, 0) = <<>>
  <1> DEFINE x == SubSeq(c, 1, 0)
  <1>1. 0 \in 0 .. Len(c)
    BY DEF IsChain
  <1>2. IsChain(x) /\ Len(x) = 0
    BY <1>1, PrefixIsChain
  <1> HIDE DEF x
  <1>3. x = <<>>
    BY <1>2, EmptyIsChain, SameBlocks
  <1> QED
    BY <1>3 DEF x

\* The prize is frozen at the closing score or later.
LEMMA FrozenIsLate ==
  ASSUME NEW c, Legal(c), Outputs(c).prize = "frozen"
  PROVE  Len(c) >= ClosesAt
  <1> DEFINE p(n) == SubSeq(c, 1, n)
             Late(n) == Outputs(p(n)).prize = "frozen" => n >= ClosesAt
             S == {n \in Nat : n <= Len(c) => Late(n)}
  <1>1. IsChain(c) /\ Len(c) \in Nat
    BY DEF Legal, IsChain
  <1>2. 0 \in S
    <2>1. p(0) = <<>>
      BY <1>1, NoBlocks
    <2> HIDE DEF p
    <2>2. Outputs(p(0)).prize = "bootstrap"
      BY <2>1, OutputsOfNothing DEF Unfunded
    <2> QED
      BY <2>2
  <1>3. ASSUME NEW n \in Nat, n \in S
        PROVE  n + 1 \in S
    <2> SUFFICES ASSUME n + 1 <= Len(c)
                 PROVE  Late(n + 1)
      <3> HIDE DEF Late
      <3> QED
        OBVIOUS
    <2> DEFINE f == Outputs(p(n))
               t == c[n + 1].tx
    <2>1. Late(n)
      <3> HIDE DEF Late
      <3> QED
        BY <1>1, <1>3
    <2>2. /\ Legal(p(n)) /\ Len(p(n)) = n /\ t \in {None} \cup Offers(f, p(n))
          /\ Outputs(p(n + 1)) = Contract(f, c[n + 1], n + 1)
      BY OneBlockMore
    <2>3. f \in Families
      BY <2>2, ReconstructionAgrees DEF Agree
    <2> HIDE DEF p, f
    <2>4. CASE t = None
      BY <2>1, <2>2, <2>4, FamilyAssumption DEF Contract, f
    <2>5. CASE t # None
      <3> DEFINE g == Spend(f, t, n + 1)
      <3>1. Outputs(p(n + 1)) = g /\ t \in Offers(f, p(n))
        BY <2>2, <2>5 DEF Contract
      <3>2. CASE t = Activation
        <4>1. g.prize = "open"
          BY <2>3, <3>2 DEF Spend, Activation, Families
        <4> QED
          BY <3>1, <4>1
      <3>3. CASE \E e \in Entries : t = Registration(e, f.shard[ShardOf[e]].tip) /\ MayRegister(f, e)
        <4>1. t.kind = "register" /\ f.prize = "open"
          BY <3>3 DEF Registration, MayRegister
        <4>2. g.prize = f.prize
          BY <2>3, <4>1 DEF Spend, Families
        <4> QED
          BY <3>1, <4>1, <4>2
      <3>4. CASE MayFreeze(f, Len(p(n)) + 1)
        BY <2>2, <3>4 DEF MayFreeze
      <3>5. CASE t.kind \in {"draw", "return"}
        <4>1. g.prize = "spent"
          BY <2>3, <3>5 DEF Spend, Families
        <4> QED
          BY <3>1, <4>1
      <3> HIDE DEF g, t
      <3> QED
        BY <3>1, <3>2, <3>3, <3>4, <3>5 DEF Offers, Drawing, Returning
    <2> QED
      BY <2>4, <2>5
  <1>4. Nat \subseteq S
    <2> HIDE DEF S
    <2> QED
      BY <1>2, <1>3, SetInduction
  <1>5. Late(Len(c))
    <2> HIDE DEF Late
    <2> QED
      BY <1>1, <1>4
  <1>6. p(Len(c)) = c
    BY <1>1, WholePrefix
  <1> HIDE DEF p
  <1> QED
    BY <1>5, <1>6

\* The chain goes on as the contracts allow.
LEMMA GrowIsLegal ==
  ASSUME Legal(chain), forks \in 0 .. MaxForks, NEW x \in Extended(chain, forks),
         \A h \in 1 .. Len(chain) : chain[h].fork \in 0 .. forks
  PROVE  Legal(x)
  <1>1. PICK t \in {None} \cup Offers(Outputs(chain), chain) :
          x = Append(chain, [tx |-> t, fork |-> forks])
    BY DEF Extended
  <1> DEFINE block == [tx |-> t, fork |-> forks]
  <1>2. Allowed(chain, block) /\ block.fork = forks
    BY DEF Allowed
  <1> HIDE DEF block
  <1>3. \A h \in 1 .. Len(chain) : chain[h].fork <= block.fork
    BY <1>2, ChainAssumption
  <1>4. Legal(Append(chain, block))
    BY <1>2, <1>3, LegalGrows
  <1> QED
    BY <1>1, <1>4 DEF block

\* A branch that grew k blocks above base.
Branch(base, fork, k, c) ==
  /\ Legal(c) /\ Len(c) = Len(base) + k
  /\ \A h \in 1 .. Len(base) : c[h] = base[h]
  /\ \A h \in Len(base) + 1 .. Len(c) : c[h].fork = fork

\* g holds the branches of each length up to n.
Branches(base, fork, n, g) ==
  g = [k \in 0 .. n |-> IF k = 0 THEN {base} ELSE UNION {Extended(past, fork) : past \in g[k - 1]}]

LEMMA BranchesExist ==
  ASSUME NEW base, NEW fork, NEW n \in Nat
  PROVE  \E g : Branches(base, fork, n, g)
  <1> DEFINE Longer(v) == UNION {Extended(past, fork) : past \in v}
             IsGrown(m, g) == g = [k \in 0 .. m |-> IF k = 0 THEN {base} ELSE Longer(g[k - 1])]
             S == {m \in Nat : \E g : IsGrown(m, g)}
  <1> HIDE DEF Longer
  <1>1. 0 \in S
    <2>1. IsGrown(0, [k \in 0 .. 0 |-> {base}])
      OBVIOUS
    <2> QED
      BY <2>1
  <1>2. ASSUME NEW m \in Nat, m \in S
        PROVE  m + 1 \in S
    <2>1. PICK g : IsGrown(m, g)
      BY <1>2
    <2> DEFINE h == [k \in 0 .. m + 1 |-> IF k = m + 1 THEN Longer(g[m]) ELSE g[k]]
    <2>2. ASSUME NEW k \in 0 .. m + 1
          PROVE  h[k] = IF k = 0 THEN {base} ELSE Longer(h[k - 1])
      <3>1. CASE k = m + 1
        <4>1. h[k] = Longer(g[m]) /\ h[k - 1] = g[m] /\ k # 0
          BY <3>1
        <4> QED
          BY <4>1
      <3>2. CASE k # m + 1
        <4>1. k \in 0 .. m /\ h[k] = g[k] /\ (k # 0 => h[k - 1] = g[k - 1])
          BY <3>2
        <4>2. g[k] = IF k = 0 THEN {base} ELSE Longer(g[k - 1])
          BY <2>1, <4>1
        <4> QED
          BY <4>1, <4>2
      <3> QED
        BY <3>1, <3>2
    <2>3. IsGrown(m + 1, h)
      BY <2>2
    <2> HIDE DEF h
    <2> QED
      BY <2>3
  <1> HIDE DEF S
  <1>3. Nat \subseteq S
    BY <1>1, <1>2, SetInduction
  <1> QED
    BY <1>3 DEF S, Branches, Longer

LEMMA BranchGrows ==
  ASSUME NEW base, IsChain(base), NEW fork \in 0 .. MaxForks,
         \A h \in 1 .. Len(base) : base[h].fork \in 0 .. fork,
         NEW k \in Nat, NEW c, Branch(base, fork, k, c), NEW d \in Extended(c, fork)
  PROVE  Branch(base, fork, k + 1, d)
  <1>1. PICK t \in {None} \cup Offers(Outputs(c), c) : d = Append(c, [tx |-> t, fork |-> fork])
    BY DEF Extended
  <1> DEFINE block == [tx |-> t, fork |-> fork]
  <1>2. Allowed(c, block) /\ block.fork = fork
    BY DEF Allowed
  <1> HIDE DEF block
  <1>3. Legal(c) /\ IsChain(c) /\ Len(c) \in Nat /\ Len(base) \in Nat /\ Len(c) = Len(base) + k
    BY DEF Branch, Legal, IsChain
  <1>4. \A h \in 1 .. Len(c) : c[h].fork <= block.fork
    <2> SUFFICES ASSUME NEW h \in 1 .. Len(c)
                 PROVE  c[h].fork <= fork
      BY <1>2
    <2>1. CASE h \in 1 .. Len(base)
      <3>1. c[h] = base[h] /\ base[h].fork \in 0 .. fork
        BY <2>1 DEF Branch
      <3> QED
        BY <3>1, ChainAssumption
    <2>2. CASE h \in Len(base) + 1 .. Len(c)
      <3>1. c[h].fork = fork
        BY <2>2 DEF Branch
      <3> QED
        BY <3>1, ChainAssumption
    <2> QED
      BY <1>3, <2>1, <2>2
  <1>5. Legal(d)
    BY <1>1, <1>2, <1>3, <1>4, LegalGrows DEF block
  <1>6. Len(d) = Len(c) + 1 /\ (\A h \in 1 .. Len(c) : d[h] = c[h]) /\ d[Len(c) + 1] = block
    BY <1>1, <1>3, AppendIsChain DEF block
  <1>7. \A h \in 1 .. Len(base) : d[h] = base[h]
    BY <1>3, <1>6 DEF Branch
  <1>8. ASSUME NEW h \in Len(base) + 1 .. Len(d)
        PROVE  d[h].fork = fork
    <2>1. CASE h \in Len(base) + 1 .. Len(c)
      BY <1>3, <1>6, <2>1 DEF Branch
    <2>2. CASE h = Len(c) + 1
      BY <1>2, <1>6, <2>2
    <2> QED
      BY <1>3, <1>6, <2>1, <2>2
  <1>9. Len(d) = Len(base) + (k + 1)
    BY <1>3, <1>6
  <1> QED
    BY <1>5, <1>7, <1>8, <1>9 DEF Branch

LEMMA BranchesAreLegal ==
  ASSUME NEW base, Legal(base), NEW fork \in 0 .. MaxForks,
         \A h \in 1 .. Len(base) : base[h].fork \in 0 .. fork,
         NEW n \in Nat, NEW g, Branches(base, fork, n, g), NEW c \in g[n]
  PROVE  Branch(base, fork, n, c)
  <1> DEFINE S == {k \in Nat : k <= n => \A x \in g[k] : Branch(base, fork, k, x)}
  <1>0. IsChain(base) /\ Len(base) \in Nat
    BY DEF Legal, IsChain
  <1>1. 0 \in S
    <2>1. g[0] = {base}
      BY DEF Branches
    <2>2. Branch(base, fork, 0, base)
      BY <1>0 DEF Branch
    <2> QED
      BY <2>1, <2>2
  <1>2. ASSUME NEW k \in Nat, k \in S
        PROVE  k + 1 \in S
    <2> SUFFICES ASSUME k + 1 <= n, NEW x \in g[k + 1]
                 PROVE  Branch(base, fork, k + 1, x)
      OBVIOUS
    <2>1. k + 1 \in 0 .. n /\ k + 1 # 0 /\ (k + 1) - 1 = k /\ k <= n
      OBVIOUS
    <2>2. g[k + 1] = UNION {Extended(past, fork) : past \in g[k]}
      BY <2>1 DEF Branches
    <2>3. PICK past \in g[k] : x \in Extended(past, fork)
      BY <2>2
    <2>4. Branch(base, fork, k, past)
      BY <1>2, <2>1, <2>3
    <2> QED
      BY <1>0, <2>3, <2>4, BranchGrows
  <1> HIDE DEF S
  <1>3. Nat \subseteq S
    BY <1>1, <1>2, SetInduction
  <1> QED
    BY <1>3 DEF S

LEMMA SwitchIsLegal ==
  ASSUME Legal(chain), forks \in Nat, NEW n \in Nat, Switch(n),
         \A h \in 1 .. Len(chain) : chain[h].fork \in 0 .. forks
  PROVE  Legal(chain') /\ Len(chain') = Len(chain) + 1
  <1> DEFINE base == SubSeq(chain, 1, Len(chain) - n)
             top == forks + 1
             g == CHOOSE x : Branches(base, top, n + 1, x)
  <1>0. /\ IsChain(chain) /\ Len(chain) \in Nat /\ n \in 1 .. Len(chain)
        /\ Len(chain) - n \in 0 .. Len(chain) /\ top \in 0 .. MaxForks /\ n + 1 \in Nat
    BY ChainAssumption DEF Switch, Legal, IsChain
  <1>1. Branches(base, top, n + 1, g)
    <2> HIDE DEF base, top
    <2> QED
      BY <1>0, BranchesExist
  <1>2. PICK branch \in g[n + 1] :
          chain' = [h \in 1 .. Len(chain) + 1 |->
                      IF h <= Len(chain) - n THEN chain[h]
                      ELSE [tx |-> branch[h].tx, fork |-> forks + 1]]
    BY DEF Switch, Branches
  <1>3. /\ Legal(base) /\ Len(base) = Len(chain) - n
        /\ \A h \in 1 .. Len(chain) - n : base[h] = chain[h]
    BY <1>0, PrefixIsLegal, PrefixIsChain
  <1> HIDE DEF g, base
  <1>4. \A h \in 1 .. Len(base) : base[h].fork \in 0 .. top
    BY <1>0, <1>3
  <1>5. Branch(base, top, n + 1, branch)
    <2> HIDE DEF top
    <2> QED
      BY <1>0, <1>1, <1>3, <1>4, BranchesAreLegal
  <1>6. IsChain(branch) /\ Len(branch) = Len(chain) + 1 /\ Legal(branch)
    BY <1>0, <1>3, <1>5 DEF Branch, Legal
  <1>7. IsChain(chain') /\ Len(chain') = Len(chain) + 1
    BY <1>0, <1>2, IntervalIsChain
  <1>8. ASSUME NEW h \in 1 .. Len(chain) + 1
        PROVE  chain'[h] = branch[h]
    <2>1. CASE h <= Len(chain) - n
      BY <1>0, <1>2, <1>3, <1>5, <2>1 DEF Branch
    <2>2. CASE ~(h <= Len(chain) - n)
      <3>1. h \in Len(base) + 1 .. Len(branch)
        BY <1>0, <1>3, <1>6, <2>2
      <3>2. branch[h].fork = forks + 1
        BY <1>5, <3>1 DEF Branch
      <3>3. Allowed(SubSeq(branch, 1, h - 1), branch[h])
        BY <1>6 DEF Legal
      <3>4. branch[h] = [tx |-> branch[h].tx, fork |-> branch[h].fork]
        BY <3>3 DEF Allowed
      <3> QED
        BY <1>2, <2>2, <3>2, <3>4
    <2> QED
      BY <2>1, <2>2
  <1>9. chain' = branch
    BY <1>6, <1>7, <1>8, SameBlocks
  <1> QED
    BY <1>6, <1>9

LEMMA AnchorIsLegal == Legal(Anchor)
  <1> DEFINE block == [tx |-> None, fork |-> 0]
  <1>1. IsChain(Anchor) /\ Len(Anchor) = 1 /\ Anchor[1] = block
    BY AnchorIsChain
  <1>2. Allowed(SubSeq(Anchor, 1, 0), block)
    BY ChainAssumption DEF Allowed
  <1>3. block.fork <= block.fork
    OBVIOUS
  <1> HIDE DEF block
  <1> QED
    BY <1>1, <1>2, <1>3 DEF Legal

\* What stays in the journal is the journal of the blocks that stay.
LEMMA KeptIsExact ==
  ASSUME NEW c, IsChain(c), NEW f \in 0 .. Len(c)
  PROVE  Kept(f, c, Transitions(c)) = Transitions(SubSeq(c, 1, f))
  <1> DEFINE p == SubSeq(c, 1, f)
  <1>1. Len(c) \in Nat /\ f \in Nat
    BY DEF IsChain
  <1>2. IsChain(p) /\ Len(p) = f /\ \A h \in 1 .. f : p[h] = c[h]
    BY PrefixIsChain
  <1> HIDE DEF p
  <1>3. ASSUME NEW x \in Kept(f, c, Transitions(c))
        PROVE  x \in Transitions(p)
    <2>1. PICK h \in 1 .. Len(c) :
            c[h].tx # None /\ x = [at |-> <<h, c[h].fork>>, tx |-> c[h].tx]
      BY TransitionsOf DEF Kept
    <2>2. h <= f
      BY <1>1, <2>1 DEF Kept, Removed
    <2>3. h \in 1 .. Len(p) /\ p[h] = c[h]
      BY <1>1, <1>2, <2>2
    <2> QED
      BY <1>2, <2>1, <2>3, TransitionsOf
  <1>4. ASSUME NEW x \in Transitions(p)
        PROVE  x \in Kept(f, c, Transitions(c))
    <2>1. PICK h \in 1 .. Len(p) :
            p[h].tx # None /\ x = [at |-> <<h, p[h].fork>>, tx |-> p[h].tx]
      BY <1>2, TransitionsOf
    <2>2. h \in 1 .. Len(c) /\ h <= f /\ p[h] = c[h]
      BY <1>1, <1>2, <2>1
    <2>3. x \in Transitions(c)
      BY <2>1, <2>2, TransitionsOf
    <2>4. x.at \notin Removed(f, c)
      BY <1>1, <2>1, <2>2 DEF Removed
    <2> QED
      BY <2>3, <2>4 DEF Kept
  <1>5. Kept(f, c, Transitions(c)) = Transitions(p)
    BY <1>3, <1>4
  <1> QED
    BY <1>5 DEF p

\* The reconstruction of what a chain accepted refuses nothing.
LEMMA NeverBroken ==
  ASSUME NEW c, Legal(c)
  PROVE  Reconstruct(Transitions(c)).phase # "broken"
  <1>1. Reconstruct(Transitions(c)) \in Projections
    BY ReconstructionAgrees DEF Agree
  <1> QED
    BY <1>1 DEF Projections, Ended

\* A page fails only when the anchor left the chain.
LEMMA PageFailsOnlyUprooted ==
  ASSUME Legal(chain), Len(chain) >= 1, NEW c, Legal(c),
         Len(c) = 1 \/ Len(c) + Conf <= Len(chain),
         NEW f \in 0 .. Len(c), ForkAt(f, c), Len(c) >= 1
  PROVE  PageError(f, c, Transitions(c)) = "none" \/ chain[1] # c[1]
  <1>0. /\ IsChain(chain) /\ IsChain(c) /\ Len(chain) \in Nat /\ Len(c) \in Nat /\ f \in Nat
        /\ f <= Len(chain)
    BY DEF Legal, IsChain, ForkAt
  <1>1. CASE f = 0
    <2>1. c[1] # chain[1]
      BY <1>0, <1>1 DEF ForkAt
    <2> QED
      BY <2>1
  <1>2. CASE f # 0
    <2>1. Reconstruct(Kept(f, c, Transitions(c))).phase # "broken"
      BY <1>0, KeptIsExact, PrefixIsLegal, NeverBroken
    <2>2. Reconstruct(Advanced(f, c, Transitions(c))).phase # "broken"
      <3>1. Reach(f) \in 0 .. Len(chain)
        BY <1>0, ReachBounds
      <3>2. Legal(SubSeq(chain, 1, Reach(f)))
        BY <3>1, PrefixIsLegal
      <3> QED
        BY <1>0, <3>2, PageIsExact, NeverBroken
    <2>3. ~(Reach(f) = f /\ f < Len(c))
      <3> SUFFICES ASSUME f < Len(c)
                   PROVE  Reach(f) # f
        OBVIOUS
      <3>1. Len(c) + Conf <= Len(chain)
        <4>1. Len(c) # 1
          BY <1>0, <1>2
        <4> QED
          BY <4>1
      <3>2. Len(chain) - Conf > f
        BY <1>0, <3>1, ChainAssumption
      <3>3. Reach(f) = Len(chain) - Conf
        BY <3>2 DEF Reach
      <3> QED
        BY <1>0, <3>2, <3>3, ChainAssumption
    <2>4. PageError(f, c, Transitions(c)) = "none"
      BY <1>0, <1>2, <2>1, <2>2, <2>3 DEF PageError
    <2> QED
      BY <2>4
  <1> QED
    BY <1>1, <1>2

-----------------------------------------------------------------------------
(***************************************************************************)
(* Who takes part and who wins.  A shard's list holds the entries that     *)
(* were accepted by the closing score, each of them once and no other, and *)
(* the drawn winner is one of them: by induction over the blocks of a      *)
(* legal chain, first about the outputs of the contracts (Fair), then,     *)
(* through ReconstructionAgrees, about what the journal shows (FairDraw).  *)
(***************************************************************************)

\* The block at height h accepted a registration of e.
Entered(c, e, h) ==
  h \in 1 .. Len(c) /\ c[h].tx # None /\ c[h].tx.kind = "register" /\ c[h].tx.entry = e

\* No entry is listed twice.
Distinct(list) == \A i, j \in 1 .. Len(list) : list[i] = list[j] => i = j

\* A tip holds every entry of its shard once, and the last one's score.
TipHolds(c, s, u) ==
  /\ Distinct(u.tip)
  /\ \A i \in 1 .. Len(u.tip) : ShardOf[u.tip[i]] = s /\ \E h \in Nat : Entered(c, u.tip[i], h)
  /\ \A e \in Entries, h \in Nat : Entered(c, e, h) /\ ShardOf[e] = s =>
       \E i \in 1 .. Len(u.tip) :
         u.tip[i] = e /\ (IF i = Len(u.tip) THEN h = u.since ELSE h <= ClosesAt)

\* A list has the entries of a shard that were accepted by the closing score, each
\* once, and no other.
ListIsFair(c, s, list) ==
  /\ Distinct(list)
  /\ \A e \in Entries :
       Contains(list, e) <=> ShardOf[e] = s /\ \E h \in Nat : Entered(c, e, h) /\ h <= ClosesAt

\* The outputs of a chain list who takes part: the tips while the prize is open, the
\* frozen lists from then on.
Fair(c) ==
  LET f == Outputs(c) IN
  /\ f.prize \in {"bootstrap", "open"} => \A s \in Shards : TipHolds(c, s, f.shard[s])
  /\ f.prize \in {"frozen", "spent"} => \A s \in Shards : ListIsFair(c, s, f.frozen.counted[s])

\* Front drops the last element.
LEMMA FrontOf ==
  ASSUME NEW S, NEW list \in Seq(S), list # <<>>
  PROVE  Len(Front(list)) = Len(list) - 1 /\ \A i \in 1 .. Len(list) - 1 : Front(list)[i] = list[i]
  <1>1. IsChain(list) /\ Len(list) \in Nat /\ Len(list) # 0
    BY OwnElements
  <1>2. Len(list) - 1 \in 0 .. Len(list)
    BY <1>1
  <1>3. Front(list) = SubSeq(list, 1, Len(list) - 1)
    BY DEF Front
  <1> QED
    BY <1>1, <1>2, <1>3, PrefixIsChain

\* Who takes part when the prize is frozen.
LEMMA EligibleIsFair ==
  ASSUME NEW c, NEW s \in Shards, NEW u \in [tip : Seq(Entries), since : Nat], TipHolds(c, s, u)
  PROVE  ListIsFair(c, s, Eligible(u))
  <1> DEFINE tip == u.tip
             list == Eligible(u)
  <1>1. tip \in Seq(Entries) /\ Len(tip) \in Nat /\ ClosesAt \in Nat /\ u.since \in Nat
    BY FamilyAssumption
  <1>2. \/ u.since <= ClosesAt /\ list = tip
        \/ tip = <<>> /\ list = tip
        \/ u.since > ClosesAt /\ tip # <<>> /\ list = Front(tip)
    BY <1>1 DEF Eligible
  <1>3. /\ Len(list) \in Nat /\ Len(list) <= Len(tip)
        /\ \A i \in 1 .. Len(list) : i \in 1 .. Len(tip) /\ list[i] = tip[i]
        /\ \A i \in 1 .. Len(tip) : i \in 1 .. Len(list) \/ (i = Len(tip) /\ u.since > ClosesAt)
        /\ \A i \in 1 .. Len(list) : i # Len(tip) \/ u.since <= ClosesAt
    <2>1. CASE list = tip /\ (u.since <= ClosesAt \/ tip = <<>>)
      <3>1. tip = <<>> => Len(tip) = 0
        OBVIOUS
      <3> QED
        BY <1>1, <2>1, <3>1
    <2>2. CASE u.since > ClosesAt /\ tip # <<>> /\ list = Front(tip)
      <3>1. Len(list) = Len(tip) - 1 /\ \A i \in 1 .. Len(tip) - 1 : list[i] = tip[i]
        BY <1>1, <2>2, FrontOf
      <3>2. Len(tip) >= 1
        BY <1>1, <2>2
      <3> HIDE DEF tip, list
      <3> QED
        BY <1>1, <2>2, <3>1, <3>2
    <2> QED
      BY <1>2, <2>1, <2>2
  <1>4. /\ Distinct(tip)
        /\ \A i \in 1 .. Len(tip) : ShardOf[tip[i]] = s /\ \E h \in Nat : Entered(c, tip[i], h)
        /\ \A e \in Entries, h \in Nat : Entered(c, e, h) /\ ShardOf[e] = s =>
             \E i \in 1 .. Len(tip) :
               tip[i] = e /\ (IF i = Len(tip) THEN h = u.since ELSE h <= ClosesAt)
    BY DEF TipHolds
  <1>5. \A i \in 1 .. Len(tip) : tip[i] \in Entries
    BY <1>1
  <1> HIDE DEF tip, list
  <1>6. Distinct(list)
    BY <1>3, <1>4 DEF Distinct
  <1>7. ASSUME NEW e \in Entries, NEW i \in 1 .. Len(list), list[i] = e
        PROVE  ShardOf[e] = s /\ \E h \in Nat : Entered(c, e, h) /\ h <= ClosesAt
    <2>1. i \in 1 .. Len(tip) /\ tip[i] = e /\ (i # Len(tip) \/ u.since <= ClosesAt)
      BY <1>3, <1>7
    <2>2. ShardOf[e] = s
      BY <1>4, <2>1
    <2>3. PICK h \in Nat : Entered(c, e, h)
      BY <1>4, <2>1
    <2>4. PICK j \in 1 .. Len(tip) :
            tip[j] = e /\ (IF j = Len(tip) THEN h = u.since ELSE h <= ClosesAt)
      BY <1>4, <2>2, <2>3
    <2>5. j = i
      BY <1>4, <2>1, <2>4 DEF Distinct
    <2> QED
      BY <2>1, <2>2, <2>3, <2>4, <2>5
  <1>8. ASSUME NEW e \in Entries, ShardOf[e] = s, NEW h \in Nat, Entered(c, e, h), h <= ClosesAt
        PROVE  \E i \in 1 .. Len(list) : list[i] = e
    <2>1. PICK i \in 1 .. Len(tip) :
            tip[i] = e /\ (IF i = Len(tip) THEN h = u.since ELSE h <= ClosesAt)
      BY <1>4, <1>8
    <2>2. i \in 1 .. Len(list)
      BY <1>1, <1>3, <1>8, <2>1
    <2> QED
      BY <1>3, <2>1, <2>2
  <1> QED
    BY <1>6, <1>7, <1>8 DEF ListIsFair, Contains, list

\* A block that registers nobody leaves the entries as they are.
LEMMA NobodyEnters ==
  ASSUME NEW a, IsChain(a), NEW b, IsChain(b), Len(b) = Len(a) + 1,
         \A h \in 1 .. Len(a) : b[h] = a[h],
         b[Len(b)].tx = None \/ b[Len(b)].tx.kind # "register"
  PROVE  /\ \A e, h : Entered(b, e, h) <=> Entered(a, e, h)
         /\ \A s, u : TipHolds(b, s, u) <=> TipHolds(a, s, u)
         /\ \A s, list : ListIsFair(b, s, list) <=> ListIsFair(a, s, list)
  <1>1. Len(a) \in Nat
    BY DEF IsChain
  <1>2. \A e, h : Entered(b, e, h) <=> Entered(a, e, h)
    BY <1>1 DEF Entered
  <1>3. \A s, u : TipHolds(b, s, u) <=> TipHolds(a, s, u)
    BY <1>2 DEF TipHolds
  <1>4. \A s, list : ListIsFair(b, s, list) <=> ListIsFair(a, s, list)
    BY <1>2 DEF ListIsFair
  <1> QED
    BY <1>2, <1>3, <1>4

\* A block that registers an entry puts it at the end of its shard.
LEMMA OneEnters ==
  ASSUME NEW a, IsChain(a), NEW b, IsChain(b), Len(b) = Len(a) + 1,
         \A h \in 1 .. Len(a) : b[h] = a[h],
         NEW e \in Entries, NEW u \in [tip : Seq(Entries), since : Nat],
         ~Contains(u.tip, e), u.tip # <<>> => u.since <= ClosesAt,
         TipHolds(a, ShardOf[e], u),
         b[Len(b)].tx = Registration(e, u.tip), b[Len(b)].tx # None
  PROVE  TipHolds(b, ShardOf[e], [tip |-> Append(u.tip, e), since |-> Len(b)])
  <1> DEFINE tip == u.tip
             s == ShardOf[e]
             list == Append(tip, e)
             v == [tip |-> list, since |-> Len(b)]
  <1>0. Len(a) \in Nat /\ Len(b) \in Nat /\ tip \in Seq(Entries) /\ Len(tip) \in Nat
    BY DEF IsChain
  <1>1. /\ Len(list) = Len(tip) + 1 /\ list[Len(tip) + 1] = e
        /\ \A i \in 1 .. Len(tip) : list[i] = tip[i]
    BY <1>0
  <1>2. \A i \in 1 .. Len(tip) : tip[i] # e
    BY DEF Contains
  <1>3. /\ Distinct(tip)
        /\ \A i \in 1 .. Len(tip) : ShardOf[tip[i]] = s /\ \E h \in Nat : Entered(a, tip[i], h)
        /\ \A x \in Entries, h \in Nat : Entered(a, x, h) /\ ShardOf[x] = s =>
             \E i \in 1 .. Len(tip) :
               tip[i] = x /\ (IF i = Len(tip) THEN h = u.since ELSE h <= ClosesAt)
    BY DEF TipHolds
  <1>4. Len(tip) # 0 => u.since <= ClosesAt
    <2>1. Len(tip) # 0 => tip # <<>>
      OBVIOUS
    <2> QED
      BY <2>1
  <1>5. \A x, h : Entered(b, x, h) <=> (Entered(a, x, h) \/ (h = Len(b) /\ x = e))
    <2>1. b[Len(b)].tx.kind = "register" /\ b[Len(b)].tx.entry = e
      BY DEF Registration
    <2>2. \A h : h \in 1 .. Len(b) <=> (h \in 1 .. Len(a) \/ h = Len(b))
      BY <1>0
    <2> QED
      BY <1>0, <2>1, <2>2 DEF Entered
  <1>6. v.tip = list /\ v.since = Len(b)
    OBVIOUS
  <1> HIDE DEF tip, list, v
  <1>7. Distinct(list)
    <2> SUFFICES ASSUME NEW i \in 1 .. Len(list), NEW j \in 1 .. Len(list), list[i] = list[j]
                 PROVE  i = j
      BY DEF Distinct
    <2>1. (i \in 1 .. Len(tip) \/ i = Len(tip) + 1) /\ (j \in 1 .. Len(tip) \/ j = Len(tip) + 1)
      BY <1>0, <1>1
    <2> QED
      BY <1>1, <1>2, <1>3, <2>1 DEF Distinct
  <1>8. ASSUME NEW i \in 1 .. Len(list)
        PROVE  ShardOf[list[i]] = s /\ \E h \in Nat : Entered(b, list[i], h)
    <2>1. CASE i \in 1 .. Len(tip)
      BY <1>1, <1>3, <1>5, <2>1
    <2>2. CASE i = Len(tip) + 1
      BY <1>0, <1>1, <1>5, <2>2
    <2> QED
      BY <1>0, <1>1, <2>1, <2>2
  <1>9. ASSUME NEW x \in Entries, NEW h \in Nat, Entered(b, x, h), ShardOf[x] = s
        PROVE  \E i \in 1 .. Len(list) :
                 list[i] = x /\ (IF i = Len(list) THEN h = Len(b) ELSE h <= ClosesAt)
    <2>1. CASE h = Len(b) /\ x = e
      BY <1>0, <1>1, <2>1
    <2>2. CASE Entered(a, x, h)
      <3>1. PICK i \in 1 .. Len(tip) :
              tip[i] = x /\ (IF i = Len(tip) THEN h = u.since ELSE h <= ClosesAt)
        BY <1>3, <1>9, <2>2
      <3>2. h <= ClosesAt
        BY <1>0, <1>4, <3>1
      <3>3. i \in 1 .. Len(list) /\ i # Len(list) /\ list[i] = x
        BY <1>0, <1>1, <3>1
      <3> QED
        BY <3>2, <3>3
    <2> QED
      BY <1>5, <1>9, <2>1, <2>2
  <1>10. TipHolds(b, s, v)
    BY <1>6, <1>7, <1>8, <1>9 DEF TipHolds
  <1> QED
    BY <1>10 DEF v, list, tip

\* The other shards keep what they hold.
LEMMA OthersEnter ==
  ASSUME NEW a, IsChain(a), NEW b, IsChain(b), Len(b) = Len(a) + 1,
         \A h \in 1 .. Len(a) : b[h] = a[h],
         b[Len(b)].tx.kind = "register",
         NEW s, s # ShardOf[b[Len(b)].tx.entry], NEW u, TipHolds(a, s, u)
  PROVE  TipHolds(b, s, u)
  <1>1. Len(a) \in Nat
    BY DEF IsChain
  <1>2. \A e, h : Entered(a, e, h) => Entered(b, e, h)
    BY <1>1 DEF Entered
  <1>3. \A e, h : Entered(b, e, h) /\ ShardOf[e] = s => Entered(a, e, h)
    BY <1>1 DEF Entered
  <1> QED
    BY <1>2, <1>3 DEF TipHolds

\* On every chain that the contracts allow, the entries that take part are those that
\* were accepted in time.
LEMMA AlwaysFair ==
  ASSUME NEW c, Legal(c)
  PROVE  Fair(c)
  <1> DEFINE p(n) == SubSeq(c, 1, n)
             S == {n \in Nat : n <= Len(c) => Fair(p(n))}
  <1>1. IsChain(c) /\ Len(c) \in Nat
    BY DEF Legal, IsChain
  <1>2. 0 \in S
    <2>1. p(0) = <<>>
      BY <1>1, NoBlocks
    <2>2. \A s \in Shards : TipHolds(<<>>, s, Unfunded.shard[s])
      <3> SUFFICES ASSUME NEW s \in Shards
                   PROVE  TipHolds(<<>>, s, Unfunded.shard[s])
        OBVIOUS
      <3>1. Unfunded.shard[s].tip = <<>>
        BY DEF Unfunded
      <3>2. \A e, h : ~Entered(<<>>, e, h)
        BY EmptyIsChain DEF Entered
      <3>3. Len(<<>>) = 0
        BY EmptyIsChain
      <3> QED
        BY <3>1, <3>2, <3>3 DEF TipHolds, Distinct
    <2> HIDE DEF p
    <2>3. Fair(<<>>)
      BY <2>2, OutputsOfNothing DEF Fair, Unfunded
    <2> QED
      BY <2>1, <2>3
  <1>3. ASSUME NEW n \in Nat, n \in S
        PROVE  n + 1 \in S
    <2> SUFFICES ASSUME n + 1 <= Len(c)
                 PROVE  Fair(p(n + 1))
      <3> HIDE DEF p
      <3> QED
        OBVIOUS
    <2> DEFINE a == p(n)
               b == p(n + 1)
               f == Outputs(a)
               g == Outputs(b)
               t == c[n + 1].tx
    <2>1. Fair(a)
      <3> HIDE DEF p
      <3> QED
        BY <1>1, <1>3
    <2>2. Legal(a) /\ Len(a) = n /\ t \in {None} \cup Offers(f, a) /\ g = Contract(f, c[n + 1], n + 1)
      BY OneBlockMore
    <2>3. /\ IsChain(a) /\ IsChain(b) /\ Len(b) = Len(a) + 1 /\ b[Len(b)] = c[n + 1]
          /\ \A h \in 1 .. Len(a) : b[h] = a[h]
      <3>1. n \in 0 .. Len(c) /\ n + 1 \in 0 .. Len(c)
        BY <1>1
      <3>2. IsChain(a) /\ Len(a) = n /\ \A h \in 1 .. n : a[h] = c[h]
        BY <1>1, <3>1, PrefixIsChain
      <3>3. IsChain(b) /\ Len(b) = n + 1 /\ \A h \in 1 .. n + 1 : b[h] = c[h]
        BY <1>1, <3>1, PrefixIsChain
      <3> HIDE DEF p
      <3> QED
        BY <3>2, <3>3
    <2>4. f \in Families /\ (f.prize \in {"frozen", "spent"} => f.frozen \in Freezings)
      BY <2>2, ReconstructionAgrees DEF Agree, Families
    <2>5. t # None => t \in Offers(f, a) /\ g = Spend(f, t, n + 1)
      BY <2>2 DEF Contract
    <2> HIDE DEF p, a, b, f, g
    <2>6. b[Len(b)].tx = t
      BY <2>3
    <2> HIDE DEF t
    <2>7. ASSUME t = None \/ t.kind # "register"
          PROVE  /\ \A s, u : TipHolds(b, s, u) <=> TipHolds(a, s, u)
                 /\ \A s, list : ListIsFair(b, s, list) <=> ListIsFair(a, s, list)
      BY <2>3, <2>6, <2>7, NobodyEnters
    <2>8. CASE t = None
      <3>1. g = f
        BY <2>2, <2>8 DEF Contract, t
      <3> QED
        BY <2>1, <2>7, <2>8, <3>1 DEF Fair, f, g, b
    <2>9. CASE t # None /\ t = Activation /\ f.prize = "bootstrap"
      <3>1. t.kind # "register" /\ g.prize = "open" /\ g.shard = f.shard
        BY <2>4, <2>5, <2>9 DEF Spend, Activation, Families
      <3> QED
        BY <2>1, <2>7, <2>9, <3>1 DEF Fair, f, g, b
    <2>10. ASSUME t # None, NEW e \in Entries, MayRegister(f, e),
                  t = Registration(e, f.shard[ShardOf[e]].tip)
           PROVE  Fair(b)
      <3> DEFINE z == ShardOf[e]
                 u == f.shard[z]
                 v == [tip |-> Append(u.tip, e), since |-> n + 1]
      <3>1. /\ f.prize = "open" /\ ~Contains(u.tip, e) /\ (u.tip # <<>> => u.since <= ClosesAt)
            /\ z \in Shards /\ u \in [tip : Seq(Entries), since : Nat]
        BY <2>4, <2>10, FamilyAssumption DEF MayRegister, Families
      <3>2. \A s \in Shards : TipHolds(a, s, f.shard[s])
        BY <2>1, <3>1 DEF Fair, f
      <3>3. TipHolds(b, z, v)
        BY <2>2, <2>3, <2>6, <2>10, <3>1, <3>2, OneEnters
      <3>4. t.kind = "register" /\ t.entry = e /\ t.on = u.tip
        BY <2>10 DEF Registration
      <3>5. /\ g = [f EXCEPT !.shard[ShardOf[t.entry]] =
                       [tip |-> Append(t.on, t.entry), since |-> n + 1]]
        BY <2>5, <2>10, <3>4 DEF Spend
      <3>6. /\ g.prize = "open" /\ g.shard[z] = v
            /\ \A s \in Shards \ {z} : g.shard[s] = f.shard[s]
        BY <2>4, <3>1, <3>4, <3>5 DEF Families
      <3>7. ASSUME NEW s \in Shards \ {z}
            PROVE  TipHolds(b, s, g.shard[s])
        BY <2>3, <2>6, <2>10, <3>2, <3>4, <3>6, OthersEnter
      <3> HIDE DEF v, z
      <3>8. \A s \in Shards : TipHolds(b, s, g.shard[s])
        BY <3>3, <3>6, <3>7
      <3> QED
        BY <3>6, <3>8 DEF Fair, g
    <2>11. CASE t # None /\ t = Freezing(Tips(f), Counted(f)) /\ f.prize = "open"
      <3>1. t.kind = "freeze" /\ t.counted = Counted(f)
        BY <2>11 DEF Freezing
      <3>2. g.prize = "frozen" /\ g.frozen = t
        BY <2>4, <2>5, <2>11, <3>1 DEF Spend, Families
      <3>3. ASSUME NEW s \in Shards
            PROVE  ListIsFair(b, s, t.counted[s])
        <4>1. t.counted[s] = Eligible(f.shard[s])
          BY <3>1 DEF Counted
        <4>2. f.shard[s] \in [tip : Seq(Entries), since : Nat] /\ TipHolds(a, s, f.shard[s])
          BY <2>1, <2>4, <2>11 DEF Fair, f, Families
        <4>3. ListIsFair(a, s, Eligible(f.shard[s]))
          BY <4>2, EligibleIsFair
        <4> QED
          BY <2>7, <3>1, <4>1, <4>3
      <3> QED
        BY <3>2, <3>3 DEF Fair, g, b
    <2>12. CASE t # None /\ t.kind \in {"draw", "return"} /\ f.prize = "frozen"
      <3>1. g.prize = "spent" /\ g.frozen = f.frozen
        BY <2>4, <2>5, <2>12 DEF Spend, Families
      <3> QED
        BY <2>1, <2>7, <2>12, <3>1 DEF Fair, f, g, b
    <2>13. \/ t = None
           \/ t = Activation /\ f.prize = "bootstrap"
           \/ \E e \in Entries : MayRegister(f, e) /\ t = Registration(e, f.shard[ShardOf[e]].tip)
           \/ t = Freezing(Tips(f), Counted(f)) /\ f.prize = "open"
           \/ t.kind \in {"draw", "return"} /\ f.prize = "frozen"
      BY <2>5 DEF Offers, MayFreeze, MayDraw, MayReturn, Drawing, Returning
    <2> QED
      BY <2>8, <2>9, <2>10, <2>11, <2>12, <2>13 DEF b
  <1>4. Nat \subseteq S
    <2> HIDE DEF S
    <2> QED
      BY <1>2, <1>3, SetInduction
  <1>5. p(Len(c)) = c
    BY <1>1, WholePrefix
  <1> HIDE DEF p
  <1>6. Fair(p(Len(c)))
    BY <1>1, <1>4
  <1> QED
    BY <1>5, <1>6

\* Who is drawn was selected from the lists.
Selects(r) ==
  r.phase = "drawn" =>
    /\ Listed(Lists(r)) # <<>>
    /\ \E candidate \in Nat : r.winner = Selected(Lists(r), candidate)

\* On every legal chain, the winner was selected from the lists the journal shows.
LEMMA AlwaysSelects ==
  ASSUME NEW c, Legal(c)
  PROVE  Selects(Reconstruct(Transitions(c)))
  <1> DEFINE p(n) == SubSeq(c, 1, n)
             r(n) == Reconstruct(Transitions(p(n)))
             S == {n \in Nat : n <= Len(c) => Selects(r(n))}
  <1>1. IsChain(c) /\ Len(c) \in Nat
    BY DEF Legal, IsChain
  <1>2. 0 \in S
    <2>1. p(0) = <<>>
      BY <1>1, NoBlocks
    <2> HIDE DEF p
    <2>2. r(0) = Blank
      BY <2>1, EmptyIsChain, EmptyJournal
    <2> HIDE DEF r
    <2> QED
      BY <2>2 DEF Selects, Blank
  <1>3. ASSUME NEW n \in Nat, n \in S
        PROVE  n + 1 \in S
    <2> SUFFICES ASSUME n + 1 <= Len(c)
                 PROVE  Selects(r(n + 1))
      <3> HIDE DEF r
      <3> QED
        OBVIOUS
    <2> DEFINE t == c[n + 1].tx
               q == r(n)
    <2>1. Selects(q)
      <3> HIDE DEF r
      <3> QED
        BY <1>1, <1>3
    <2>2. Legal(p(n)) /\ r(n + 1) = IF t = None THEN q ELSE Applied(q, t, n + 1)
      BY OneBlockMore
    <2>3. q \in Projections
      BY <2>2, ReconstructionAgrees DEF Agree
    <2>4. t \in {None} \cup Txs
      <3>1. n + 1 \in 1 .. Len(c)
        BY <1>1
      <3> QED
        BY <3>1, ReconstructionAgrees
    <2> HIDE DEF r, q, t
    <2>5. CASE t = None
      BY <2>1, <2>2, <2>5
    <2>6. CASE t # None /\ t.kind = "draw"
      <3>1. t.candidate \in Nat
        BY <2>4, <2>6 DEF Txs, Activation, Freezings
      <3>2. r(n + 1) = Drawn(q, t)
        BY <2>2, <2>6 DEF Applied
      <3>3. CASE Drawn(q, t) = Broken
        BY <3>2, <3>3 DEF Selects, Broken, Blank
      <3>4. CASE /\ Listed(Lists(q)) # <<>> /\ t.winner = Selected(Lists(q), t.candidate)
                 /\ Drawn(q, t) = [q EXCEPT !.phase = "drawn", !.winner = t.winner]
        <4>1. r(n + 1).shard = q.shard /\ r(n + 1).winner = t.winner
          BY <2>3, <3>2, <3>4 DEF Projections
        <4>2. Lists(r(n + 1)) = Lists(q)
          BY <4>1 DEF Lists
        <4> QED
          BY <3>1, <3>4, <4>1, <4>2 DEF Selects
      <3> QED
        BY <3>3, <3>4 DEF Drawn
    <2>7. CASE t # None /\ t.kind # "draw"
      <3>1. Applied(q, t, n + 1).phase # "drawn"
        <4>1. Activated(q, t).phase # "drawn"
          BY <2>3 DEF Activated, Broken, Blank, Projections
        <4>2. Registered(q, t, n + 1).phase # "drawn"
          BY <2>3 DEF Registered, Broken, Blank, Projections
        <4>3. Frozen(q, t, n + 1).phase # "drawn"
          BY <2>3 DEF Frozen, Broken, Blank, Projections
        <4>4. Returned(q, t, n + 1).phase # "drawn"
          BY <2>3 DEF Returned, Broken, Blank, Projections
        <4> QED
          BY <2>7, <4>1, <4>2, <4>3, <4>4 DEF Applied
      <3> QED
        BY <2>2, <2>7, <3>1 DEF Selects
    <2> QED
      BY <2>5, <2>6, <2>7
  <1>4. Nat \subseteq S
    <2> HIDE DEF S
    <2> QED
      BY <1>2, <1>3, SetInduction
  <1>5. p(Len(c)) = c
    BY <1>1, WholePrefix
  <1>6. Selects(r(Len(c)))
    <2> HIDE DEF r
    <2> QED
      BY <1>1, <1>4
  <1> HIDE DEF p
  <1> QED
    BY <1>5, <1>6

\* Two lists without an entry in common, one after the other.
LEMMA JoinOfLists ==
  ASSUME NEW T, NEW a \in Seq(T), NEW b \in Seq(T), Distinct(a), Distinct(b),
         \A x \in T : ~(Contains(a, x) /\ Contains(b, x))
  PROVE  /\ Distinct(a \o b)
         /\ \A x \in T : Contains(a \o b, x) <=> Contains(a, x) \/ Contains(b, x)
  <1> DEFINE c == a \o b
             m == Len(a)
             n == Len(b)
  <1>1. /\ m \in Nat /\ n \in Nat /\ Len(c) = m + n
        /\ \A i \in 1 .. m : c[i] = a[i] /\ a[i] \in T
        /\ \A i \in 1 .. n : c[m + i] = b[i] /\ b[i] \in T
    OBVIOUS
  <1>2. \A i \in 1 .. Len(c) :
          (i \in 1 .. m /\ c[i] = a[i]) \/ (i > m /\ i - m \in 1 .. n /\ c[i] = b[i - m])
    <2> HIDE DEF c, m, n
    <2> SUFFICES ASSUME NEW i \in 1 .. Len(c), i \notin 1 .. m
                 PROVE  i > m /\ i - m \in 1 .. n /\ c[i] = b[i - m]
      BY <1>1
    <2>1. i > m /\ i - m \in 1 .. n /\ m + (i - m) = i
      BY <1>1
    <2> QED
      BY <1>1, <2>1
  <1> HIDE DEF c, m, n
  <1>3. \A i \in 1 .. m, j \in 1 .. n : a[i] # b[j]
    BY <1>1 DEF Contains, m, n
  <1>4. Distinct(c)
    <2> SUFFICES ASSUME NEW i \in 1 .. Len(c), NEW j \in 1 .. Len(c), c[i] = c[j]
                 PROVE  i = j
      BY DEF Distinct
    <2>1. CASE i \in 1 .. m /\ j \in 1 .. m
      BY <1>1, <2>1 DEF Distinct, m
    <2>2. CASE i > m /\ i - m \in 1 .. n /\ j > m /\ j - m \in 1 .. n
      <3>1. c[i] = b[i - m] /\ c[j] = b[j - m]
        BY <1>1, <1>2, <2>2
      <3>2. i - m = j - m
        BY <2>2, <3>1 DEF Distinct, n
      <3> QED
        BY <1>1, <3>2
    <2> QED
      BY <1>1, <1>2, <1>3, <2>1, <2>2
  <1>5. ASSUME NEW x \in T, Contains(c, x)
        PROVE  Contains(a, x) \/ Contains(b, x)
    <2>1. PICK i \in 1 .. Len(c) : c[i] = x
      BY <1>5 DEF Contains
    <2> QED
      BY <1>2, <2>1 DEF Contains, m, n
  <1>6. ASSUME NEW x \in T, Contains(a, x) \/ Contains(b, x)
        PROVE  Contains(c, x)
    <2>1. CASE Contains(a, x)
      <3>1. PICK i \in 1 .. m : a[i] = x
        BY <2>1 DEF Contains, m
      <3>2. i \in 1 .. Len(c) /\ c[i] = x
        BY <1>1, <3>1
      <3> QED
        BY <3>2 DEF Contains
    <2>2. CASE Contains(b, x)
      <3>1. PICK i \in 1 .. n : b[i] = x
        BY <2>2 DEF Contains, n
      <3>2. m + i \in 1 .. Len(c) /\ c[m + i] = x
        BY <1>1, <3>1
      <3> QED
        BY <3>2 DEF Contains
    <2> QED
      BY <1>6, <2>1, <2>2
  <1> QED
    BY <1>4, <1>5, <1>6 DEF c

\* The list of all shards has the entries of every shard, each once, and no other.
LEMMA ListedHolds ==
  ASSUME NEW T, NEW counted \in [Shards -> Seq(T)],
         \A s \in Shards : Distinct(counted[s]),
         \A s, z \in Shards, x \in T : Contains(counted[s], x) /\ Contains(counted[z], x) => s = z
  PROVE  /\ Listed(counted) \in Seq(T)
         /\ Distinct(Listed(counted))
         /\ \A x \in T : Contains(Listed(counted), x) <=> \E s \in Shards : Contains(counted[s], x)
  <1> DEFINE N == Cardinality(Shards)
  <1>1. N \in Nat /\ Shards = 1 .. N
    BY FamilyAssumption, ShardsCounted
  <1>2. CASE N = 0
    <2>1. Shards = {}
      BY <1>1, <1>2
    <2>2. Listed(counted) = <<>> /\ <<>> \in Seq(T) /\ Len(<<>>) = 0
      BY <1>2, ListedOfNoShard
    <2> QED
      BY <2>1, <2>2 DEF Distinct, Contains
  <1>3. CASE N # 0
    <2>1. PICK flat : /\ Listed(counted) = flat[N]
                      /\ flat[1] = counted[1]
                      /\ \A n \in 1 .. N - 1 : flat[n + 1] = flat[n] \o counted[n + 1]
      BY <1>3, ListedByShard
    <2> DEFINE Holds(n) ==
                 /\ flat[n] \in Seq(T) /\ Distinct(flat[n])
                 /\ \A x \in T : Contains(flat[n], x) <=> \E s \in 1 .. n : Contains(counted[s], x)
               P == {n \in Nat : n + 1 <= N => Holds(n + 1)}
    <2>2. 0 \in P
      <3>1. 1 \in Shards /\ 0 + 1 = 1 /\ 1 .. 1 = {1}
        BY <1>1, <1>3
      <3>2. Holds(1)
        BY <2>1, <3>1
      <3> HIDE DEF Holds
      <3> QED
        BY <3>1, <3>2
    <2>3. ASSUME NEW n \in Nat, n \in P
          PROVE  n + 1 \in P
      <3> SUFFICES ASSUME (n + 1) + 1 <= N
                   PROVE  Holds((n + 1) + 1)
        <4> HIDE DEF Holds
        <4> QED
          OBVIOUS
      <3> DEFINE k == n + 1
                 next == counted[k + 1]
      <3>1. k \in 1 .. N - 1 /\ k \in Nat /\ k + 1 \in Shards /\ 1 .. k \subseteq Shards
        BY <1>1
      <3>2. Holds(k)
        <4> HIDE DEF Holds
        <4> QED
          BY <1>1, <2>3
      <3>3. flat[k + 1] = flat[k] \o next /\ next \in Seq(T) /\ Distinct(next)
        BY <2>1, <3>1
      <3> HIDE DEF k
      <3>4. ASSUME NEW x \in T, Contains(flat[k], x), Contains(next, x)
            PROVE  FALSE
        <4>1. PICK s \in 1 .. k : Contains(counted[s], x)
          BY <3>2, <3>4
        <4>2. s = k + 1
          BY <3>1, <3>4, <4>1
        <4> QED
          BY <3>1, <4>1, <4>2
      <3>5. /\ Distinct(flat[k] \o next)
            /\ \A x \in T : Contains(flat[k] \o next, x) <=> Contains(flat[k], x) \/ Contains(next, x)
        <4> HIDE DEF next
        <4> QED
          BY <3>2, <3>3, <3>4, JoinOfLists
      <3>6. \A s : s \in 1 .. k + 1 <=> (s \in 1 .. k \/ s = k + 1)
        BY <3>1
      <3>7. flat[k + 1] \in Seq(T)
        BY <3>2, <3>3
      <3>8. Holds(k + 1)
        BY <3>2, <3>3, <3>5, <3>6, <3>7
      <3> QED
        BY <3>8 DEF k
    <2>4. Nat \subseteq P
      <3> HIDE DEF P
      <3> QED
        BY <2>2, <2>3, SetInduction
    <2>5. N - 1 \in Nat /\ (N - 1) + 1 = N
      BY <1>1, <1>3
    <2>6. Holds(N)
      <3> HIDE DEF Holds
      <3> QED
        BY <2>4, <2>5
    <2> QED
      BY <1>1, <2>1, <2>6
  <1> QED
    BY <1>2, <1>3

\* The entries that the journal shows as accepted by the closing score.
InTime(trans) ==
  {e \in Entries : \E x \in trans : x.tx.kind = "register" /\ x.tx.entry = e /\ x.at[1] <= ClosesAt}

\* The journal of a chain shows who was accepted in time.
LEMMA EnteredInTime ==
  ASSUME NEW c, IsChain(c), NEW e \in Entries
  PROVE  e \in InTime(Transitions(c)) <=> \E h \in Nat : Entered(c, e, h) /\ h <= ClosesAt
  <1>1. Len(c) \in Nat
    BY DEF IsChain
  <1>2. ASSUME NEW h \in Nat, Entered(c, e, h), h <= ClosesAt
        PROVE  e \in InTime(Transitions(c))
    <2> DEFINE x == [at |-> <<h, c[h].fork>>, tx |-> c[h].tx]
    <2>1. x \in Transitions(c)
      BY <1>2, TransitionsOf DEF Entered
    <2>2. x.tx.kind = "register" /\ x.tx.entry = e /\ x.at[1] <= ClosesAt
      BY <1>2 DEF Entered
    <2> HIDE DEF x
    <2> QED
      BY <2>1, <2>2 DEF InTime
  <1>3. ASSUME e \in InTime(Transitions(c))
        PROVE  \E h \in Nat : Entered(c, e, h) /\ h <= ClosesAt
    <2>1. PICK x \in Transitions(c) :
            x.tx.kind = "register" /\ x.tx.entry = e /\ x.at[1] <= ClosesAt
      BY <1>3 DEF InTime
    <2>2. PICK h \in 1 .. Len(c) :
            c[h].tx # None /\ x = [at |-> <<h, c[h].fork>>, tx |-> c[h].tx]
      BY TransitionsOf
    <2>3. x.tx = c[h].tx /\ x.at[1] = h
      BY <2>2
    <2>4. h \in Nat /\ Entered(c, e, h) /\ h <= ClosesAt
      BY <1>1, <2>1, <2>2, <2>3 DEF Entered
    <2> QED
      BY <2>4
  <1> QED
    BY <1>2, <1>3

\* What a journal of a legal chain says about who takes part and who wins: each entry
\* that was accepted in time stands once in the list of its shard, and once in the list
\* that the draw selects from; no other does.
FairDraw(trans) ==
  LET r == Reconstruct(trans)
      list == Listed(Lists(r)) IN
  /\ r.phase \in {"frozen"} \cup Ended =>
       /\ \A s \in Shards, e \in Entries :
            Contains(Lists(r)[s], e) <=> ShardOf[e] = s /\ e \in InTime(trans)
       /\ \A e \in Entries : Contains(list, e) <=> e \in InTime(trans)
       /\ Distinct(list)
  /\ r.phase = "drawn" => r.winner \in InTime(trans)

\* The journal of every legal chain says who takes part, and its winner does.
LEMMA DrawIsFair ==
  ASSUME NEW c, Legal(c)
  PROVE  FairDraw(Transitions(c))
  <1> DEFINE f == Outputs(c)
             trans == Transitions(c)
             r == Reconstruct(trans)
             T == InTime(trans)
             lists == Lists(r)
  <1>1. Agree(f, r) /\ Selects(r) /\ Fair(c) /\ IsChain(c)
    BY ReconstructionAgrees, AlwaysSelects, AlwaysFair DEF Legal
  <1>2. ASSUME r.phase \in {"frozen"} \cup Ended
        PROVE  /\ lists \in [Shards -> Seq(Entries)]
               /\ \A s \in Shards : ListIsFair(c, s, lists[s])
    <2>1. f.prize \in {"frozen", "spent"}
      BY <1>1, <1>2 DEF Agree, SamePhase
    <2> QED
      BY <1>1, <2>1 DEF Fair, Agree, Projections, Lists
  <1>3. \A e \in Entries : e \in T <=> \E h \in Nat : Entered(c, e, h) /\ h <= ClosesAt
    BY <1>1, EnteredInTime
  <1>4. T \subseteq Entries
    BY DEF InTime
  <1> HIDE DEF f, T, trans, lists
  <1>5. ASSUME r.phase \in {"frozen"} \cup Ended
        PROVE  /\ \A s \in Shards : Distinct(lists[s])
               /\ \A s \in Shards, e \in Entries :
                    Contains(lists[s], e) <=> ShardOf[e] = s /\ e \in T
    BY <1>2, <1>3, <1>5 DEF ListIsFair
  <1>6. ASSUME r.phase \in {"frozen"} \cup Ended
        PROVE  /\ Listed(lists) \in Seq(Entries) /\ Distinct(Listed(lists))
               /\ \A e \in Entries : Contains(Listed(lists), e) <=> e \in T
    <2>1. \A s, z \in Shards, e \in Entries :
            Contains(lists[s], e) /\ Contains(lists[z], e) => s = z
      BY <1>5, <1>6
    <2>2. /\ Listed(lists) \in Seq(Entries) /\ Distinct(Listed(lists))
          /\ \A e \in Entries :
               Contains(Listed(lists), e) <=> \E s \in Shards : Contains(lists[s], e)
      BY <1>2, <1>5, <1>6, <2>1, ListedHolds
    <2>3. \A e \in Entries : ShardOf[e] \in Shards
      BY FamilyAssumption
    <2> QED
      BY <1>5, <1>6, <2>2, <2>3
  <1>7. ASSUME r.phase = "drawn"
        PROVE  r.winner \in T
    <2>1. r.phase \in {"frozen"} \cup Ended
      BY <1>7 DEF Ended
    <2>2. PICK candidate \in Nat : r.winner = Selected(lists, candidate)
      BY <1>1, <1>7 DEF Selects, lists
    <2>3. Listed(lists) # <<>>
      BY <1>1, <1>7 DEF Selects, lists
    <2>4. r.winner \in Entries /\ Contains(Listed(lists), r.winner)
      <3> DEFINE list == Listed(lists)
                 i == (candidate % Len(list)) + 1
      <3>1. list \in Seq(Entries) /\ list # <<>>
        BY <1>6, <2>1, <2>3
      <3> HIDE DEF list
      <3>2. Len(list) \in Nat /\ Len(list) > 0
        BY <3>1
      <3>3. i \in 1 .. Len(list)
        BY <3>2
      <3>4. r.winner = list[i]
        BY <2>2 DEF Selected, list
      <3>5. list[i] \in Entries
        BY <3>1, <3>3
      <3> HIDE DEF i
      <3> QED
        BY <3>3, <3>4, <3>5 DEF Contains, list
    <2> QED
      BY <1>6, <2>1, <2>4
  <1> QED
    BY <1>5, <1>6, <1>7 DEF FairDraw, r, T, trans, lists
=============================================================================
