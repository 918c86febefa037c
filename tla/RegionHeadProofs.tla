-------------------------- MODULE RegionHeadProofs --------------------------
(***************************************************************************)
(* buildCFG on every region with a block that reaches all: it finds such   *)
(* a block, keeps everything, and hands a flow graph to the analyses.      *)
(***************************************************************************)
EXTENDS RegionHead, FiniteSetTheorems, WellFoundedInduction, TLAPS

(* The depth-first searches, first: what dfs collects is the least set     *)
(* that holds its start and is closed under the edges it may follow.       *)
Closed(next, old, S) == \A x \in S : next[x] \ old \subseteq S
Grow(next, old, S) == S \cup ((UNION {next[x] : x \in S}) \ old)

(* The rounds of Dfs, up to round L.                                       *)
Rounds(f, next, b, old, L) ==
  /\ f \in [0 .. L -> SUBSET Block]
  /\ f[0] = {b} \ old
  /\ \A k \in 1 .. L : f[k] = Grow(next, old, f[k - 1])

-----------------------------------------------------------------------------
LEMMA Least ==
  ASSUME NEW T, T \subseteq Nat, T # {}
  PROVE  \E m \in T : \A k \in T : m <= k
<1>1. PICK m \in T : \A y \in T : ~(<<y, m>> \in OpToRel(<, Nat))
  BY NatLessThanWellFounded, WFMin
<1>2. \A y \in T : ~(y < m)
  BY <1>1 DEF OpToRel
<1> QED BY <1>2

LEMMA BlockFinite ==
  /\ IsFiniteSet(Block) /\ Cardinality(Block) = K
  /\ \A S \in SUBSET Block :
       /\ IsFiniteSet(S) /\ Cardinality(S) \in Nat /\ Cardinality(S) <= K
       /\ Cardinality(S) = K => S = Block
<1>1. IsFiniteSet(Block) /\ Cardinality(Block) = K
  BY KAssumption, FS_Interval DEF Block
<1>2. ASSUME NEW S \in SUBSET Block
      PROVE  /\ IsFiniteSet(S) /\ Cardinality(S) \in Nat /\ Cardinality(S) <= K
             /\ Cardinality(S) = K => S = Block
  <2>1. IsFiniteSet(S) /\ Cardinality(S) <= K /\ (K = Cardinality(S) => Block = S)
    BY <1>1, FS_Subset
  <2> QED BY <2>1, FS_CardinalityType
<1> QED BY <1>1, <1>2

LEMMA GrowType ==
  ASSUME NEW next \in [Block -> SUBSET Block], NEW old, NEW S \in SUBSET Block
  PROVE  /\ Grow(next, old, S) \in SUBSET Block
         /\ S \subseteq Grow(next, old, S)
         /\ Closed(next, old, S) => Grow(next, old, S) = S
         /\ ~Closed(next, old, S) => Grow(next, old, S) # S
BY DEF Grow, Closed

(* The recursive definition of Dfs has a solution.                         *)
LEMMA RoundsExist ==
  ASSUME NEW next \in [Block -> SUBSET Block], NEW b \in Block, NEW old
  PROVE  \E f : Rounds(f, next, b, old, K)
<1> DEFINE T == {L \in 0 .. K : ~(\E f : Rounds(f, next, b, old, L))}
<1>1. SUFFICES ASSUME T # {} PROVE FALSE
  BY KAssumption
<1>2. T \subseteq Nat
  BY KAssumption
<1>3. PICK m \in T : \A k \in T : m <= k
  <2> HIDE DEF T
  <2> QED BY <1>1, <1>2, Least
<1>4. CASE m = 0
  <2> DEFINE f == [k \in 0 .. 0 |-> {b} \ old]
  <2>1. f \in [0 .. 0 -> SUBSET Block] /\ f[0] = {b} \ old
    OBVIOUS
  <2>2. Rounds(f, next, b, old, 0)
    BY <2>1 DEF Rounds
  <2> QED BY <1>4, <2>2
<1>5. CASE m # 0
  <2>1. m \in 0 .. K /\ m - 1 \in 0 .. K /\ m - 1 \notin T
    BY <1>3, <1>5, KAssumption
  <2>2. PICK f : Rounds(f, next, b, old, m - 1)
    BY <2>1
  <2> DEFINE g == [k \in 0 .. m |-> IF k = m THEN Grow(next, old, f[m - 1]) ELSE f[k]]
  <2>3. f \in [0 .. (m - 1) -> SUBSET Block] /\ f[0] = {b} \ old
        /\ \A k \in 1 .. (m - 1) : f[k] = Grow(next, old, f[k - 1])
    BY <2>2 DEF Rounds
  <2>4. Grow(next, old, f[m - 1]) \in SUBSET Block
    <3>1. f[m - 1] \in SUBSET Block
      BY <1>5, <2>1, <2>3
    <3> QED BY <3>1, GrowType
  <2>5. g \in [0 .. m -> SUBSET Block] /\ g[0] = {b} \ old
    BY <1>5, <2>1, <2>3, <2>4
  <2>6. ASSUME NEW k \in 1 .. m PROVE g[k] = Grow(next, old, g[k - 1])
    <3>1. g[k - 1] = f[k - 1]
      BY <2>1
    <3>2. CASE k = m
      BY <3>1, <3>2, <2>1
    <3>3. CASE k # m
      BY <3>1, <3>3, <2>1, <2>3
    <3> QED BY <3>2, <3>3
  <2>7. Rounds(g, next, b, old, m)
    <3> HIDE DEF g
    <3> QED BY <2>5, <2>6 DEF Rounds
  <2> QED BY <2>7, <1>3
<1> QED BY <1>4, <1>5

LEMMA DfsRounds ==
  ASSUME NEW next \in [Block -> SUBSET Block], NEW b \in Block, NEW old
  PROVE  \E f : Rounds(f, next, b, old, K) /\ Dfs(next, b, old) = f[K]
<1> DEFINE Solves(f) ==
             f = [k \in 0 .. K |->
                    IF k = 0 THEN {b} \ old
                    ELSE f[k - 1] \cup ((UNION {next[x] : x \in f[k - 1]}) \ old)]
           h == CHOOSE f : Solves(f)
<1>1. PICK f : Rounds(f, next, b, old, K)
  BY RoundsExist
<1>2. Solves(f)
  <2>1. f = [k \in 0 .. K |-> f[k]]
    BY <1>1 DEF Rounds
  <2>2. ASSUME NEW k \in 0 .. K
        PROVE  f[k] = IF k = 0 THEN {b} \ old
                      ELSE f[k - 1] \cup ((UNION {next[x] : x \in f[k - 1]}) \ old)
    BY <1>1, KAssumption DEF Rounds, Grow
  <2> QED BY <2>1, <2>2, Zenon
<1>3. Solves(h)
  <2> HIDE DEF Solves
  <2> QED BY <1>2, Zenon
<1>4. Dfs(next, b, old) = h[K]
  BY Zenon DEF Dfs
<1>5. h[0] = {b} \ old
  <2> HIDE DEF h
  <2> QED BY <1>3, KAssumption
<1>6. ASSUME NEW k \in 1 .. K PROVE h[k] = Grow(next, old, h[k - 1])
  <2> HIDE DEF h
  <2> QED BY <1>3, KAssumption DEF Grow
<1>7. h \in [0 .. K -> SUBSET Block]
  <2> DEFINE T == {k \in 0 .. K : ~(h[k] \subseteq Block)}
  <2>1. DOMAIN h = 0 .. K /\ h = [k \in 0 .. K |-> h[k]]
    BY <1>3
  <2> HIDE DEF h
  <2>2. ASSUME T # {} PROVE FALSE
    <3>1. T \subseteq Nat
      BY KAssumption
    <3>2. PICK m \in T : \A k \in T : m <= k
      <4> HIDE DEF T
      <4> QED BY <2>2, <3>1, Least
    <3>3. m # 0
      BY <1>5, <3>2
    <3>4. m \in 1 .. K /\ m - 1 \in 0 .. K /\ m - 1 \notin T
      BY <3>2, <3>3, KAssumption
    <3>5. h[m - 1] \in SUBSET Block
      BY <3>4
    <3>6. h[m] \in SUBSET Block
      BY <1>6, <3>4, <3>5, GrowType
    <3> QED BY <3>2, <3>6
  <2> QED BY <2>1, <2>2
<1>8. Rounds(h, next, b, old, K)
  <2> HIDE DEF h
  <2> QED BY <1>5, <1>6, <1>7 DEF Rounds
<1> QED BY <1>4, <1>8

(* The rounds only add what a closed set with the start holds as well.     *)
LEMMA RoundsWithin ==
  ASSUME NEW next \in [Block -> SUBSET Block], NEW b \in Block, NEW old,
         NEW f, Rounds(f, next, b, old, K),
         NEW C, Closed(next, old, C), {b} \ old \subseteq C
  PROVE  \A k \in 0 .. K : f[k] \subseteq C
<1> DEFINE T == {k \in 0 .. K : ~(f[k] \subseteq C)}
<1>1. SUFFICES ASSUME T # {} PROVE FALSE
  OBVIOUS
<1>2. T \subseteq Nat
  BY KAssumption
<1>3. PICK m \in T : \A k \in T : m <= k
  <2> HIDE DEF T
  <2> QED BY <1>1, <1>2, Least
<1>4. m # 0
  BY <1>3 DEF Rounds
<1>5. m \in 1 .. K /\ m - 1 \in 0 .. K /\ m - 1 \notin T
  BY <1>3, <1>4, KAssumption
<1>6. f[m - 1] \subseteq C /\ f[m] = Grow(next, old, f[m - 1])
  BY <1>5 DEF Rounds
<1>7. f[m] \subseteq C
  BY <1>6 DEF Grow, Closed
<1> QED BY <1>3, <1>7

(* A round that adds nothing is the last one that could.                   *)
LEMMA RoundsStop ==
  ASSUME NEW next \in [Block -> SUBSET Block], NEW b \in Block, NEW old,
         NEW f, Rounds(f, next, b, old, K),
         NEW k \in 0 .. K, Closed(next, old, f[k])
  PROVE  f[K] = f[k]
<1> DEFINE T == {n \in k .. K : f[n] # f[k]}
<1>1. SUFFICES ASSUME T # {} PROVE FALSE
  BY KAssumption
<1>2. T \subseteq Nat
  BY KAssumption
<1>3. PICK m \in T : \A n \in T : m <= n
  <2> HIDE DEF T
  <2> QED BY <1>1, <1>2, Least
<1>4. m # k
  BY <1>3
<1>5. m \in 1 .. K /\ m - 1 \in k .. K /\ m - 1 \notin T
  BY <1>3, <1>4, KAssumption
<1>6. f[m - 1] = f[k] /\ f[k] \in SUBSET Block /\ f[m] = Grow(next, old, f[m - 1])
  BY <1>5 DEF Rounds
<1>7. f[m] = f[k]
  BY <1>6, GrowType
<1> QED BY <1>3, <1>7

(* As many rounds as there are blocks are enough: each round before the    *)
(* last one adds a block.                                                  *)
LEMMA RoundsEnough ==
  ASSUME NEW next \in [Block -> SUBSET Block], NEW b \in Block, NEW old,
         NEW f, Rounds(f, next, b, old, K)
  PROVE  Closed(next, old, f[K])
<1>1. SUFFICES ASSUME ~Closed(next, old, f[K]) PROVE FALSE
  OBVIOUS
<1>2. ASSUME NEW k \in 0 .. K
      PROVE  ~Closed(next, old, f[k]) /\ f[k] \in SUBSET Block
  <2>1. Closed(next, old, f[k]) => f[K] = f[k]
    BY RoundsStop
  <2> QED BY <1>1, <2>1 DEF Rounds
<1> DEFINE T == {k \in 0 .. K : ~(Cardinality(f[k]) >= k + 1)}
<1>3. ASSUME T # {} PROVE FALSE
  <2>1. T \subseteq Nat
    BY KAssumption
  <2>2. PICK m \in T : \A k \in T : m <= k
    <3> HIDE DEF T
    <3> QED BY <1>3, <2>1, Least
  <2>3. m # 0
    <3>1. ~Closed(next, old, f[0]) /\ f[0] = {b} \ old
      <4>1. ~Closed(next, old, f[0])
        BY <1>2, KAssumption
      <4> QED BY <4>1 DEF Rounds
    <3>2. f[0] = {b}
      BY <3>1 DEF Closed
    <3>3. Cardinality(f[0]) = 1
      BY <3>2, FS_Singleton
    <3>4. ASSUME m = 0 PROVE FALSE
      <4>1. ~(Cardinality(f[0]) >= 0 + 1)
        BY <2>2, <3>4
      <4> QED BY <3>3, <4>1
    <3> QED BY <3>4
  <2>4. m \in 1 .. K /\ m - 1 \in 0 .. K /\ m - 1 \notin T
    BY <2>2, <2>3, KAssumption
  <2> DEFINE c == Cardinality(f[m - 1])
             n == Cardinality(f[m])
  <2>5. c >= m
    BY <2>4
  <2>6. /\ f[m] = Grow(next, old, f[m - 1])
        /\ f[m - 1] \in SUBSET Block /\ f[m] \in SUBSET Block
        /\ ~Closed(next, old, f[m - 1])
    BY <1>2, <2>4 DEF Rounds
  <2>7. f[m - 1] \subseteq f[m] /\ f[m] # f[m - 1]
    BY <2>6, GrowType
  <2>8. IsFiniteSet(f[m]) /\ c \in Nat /\ n \in Nat
    BY <2>6, BlockFinite
  <2>9. c <= n /\ c # n
    BY <2>7, <2>8, FS_Subset
  <2>10. ~(n >= m + 1)
    BY <2>2
  <2> HIDE DEF c, n
  <2> QED BY <2>4, <2>5, <2>8, <2>9, <2>10, KAssumption
<1>4. Cardinality(f[K]) >= K + 1
  BY <1>3, KAssumption
<1>5. Cardinality(f[K]) \in Nat /\ Cardinality(f[K]) <= K
  BY <1>2, KAssumption, BlockFinite
<1> DEFINE c == Cardinality(f[K])
<1> HIDE DEF c
<1>6. c >= K + 1 /\ c \in Nat /\ c <= K
  BY <1>4, <1>5 DEF c
<1> QED BY <1>6, KAssumption

(* Dfs: the least closed set that holds the start.                         *)
LEMMA DfsLeast ==
  ASSUME NEW next \in [Block -> SUBSET Block], NEW b \in Block, NEW old
  PROVE  /\ Dfs(next, b, old) \in SUBSET Block
         /\ {b} \ old \subseteq Dfs(next, b, old)
         /\ Closed(next, old, Dfs(next, b, old))
         /\ \A C : Closed(next, old, C) /\ {b} \ old \subseteq C
                     => Dfs(next, b, old) \subseteq C
<1>1. PICK f : Rounds(f, next, b, old, K) /\ Dfs(next, b, old) = f[K]
  BY DfsRounds
<1>2. f[K] \in SUBSET Block
  BY <1>1, KAssumption DEF Rounds
<1>3. Closed(next, old, f[K])
  BY <1>1, RoundsEnough
<1>4. ASSUME NEW C, Closed(next, old, C), {b} \ old \subseteq C
      PROVE  f[K] \subseteq C
  BY <1>1, <1>4, KAssumption, RoundsWithin
<1>5. {b} \ old \subseteq f[K]
  <2> DEFINE T == {k \in 0 .. K : ~({b} \ old \subseteq f[k])}
  <2>1. ASSUME T # {} PROVE FALSE
    <3>1. T \subseteq Nat
      BY KAssumption
    <3>2. PICK m \in T : \A k \in T : m <= k
      <4> HIDE DEF T
      <4> QED BY <2>1, <3>1, Least
    <3>3. m # 0
      BY <1>1, <3>2 DEF Rounds
    <3>4. m \in 1 .. K /\ m - 1 \in 0 .. K /\ m - 1 \notin T
      BY <3>2, <3>3, KAssumption
    <3>5. {b} \ old \subseteq f[m - 1] /\ f[m] = Grow(next, old, f[m - 1])
      BY <1>1, <3>4 DEF Rounds
    <3> QED BY <3>2, <3>5 DEF Grow
  <2> QED BY <2>1, KAssumption
<1> QED BY <1>1, <1>2, <1>3, <1>4, <1>5

-----------------------------------------------------------------------------
(* A block from which everything is reached, and what is known of it.      *)
IsRoot(r) == r \in Block /\ Reach(r) = Block

LEMMA ReachType ==
  ASSUME succs \in [Block -> SUBSET Block], NEW b \in Block
  PROVE  Reach(b) \in SUBSET Block
BY DfsLeast DEF Reach

(* A block without predecessors is that block.                             *)
LEMMA RootOnly ==
  ASSUME succs \in [Block -> SUBSET Block], NEW r, IsRoot(r),
         NEW a \in Block, preds[a] = {}
  PROVE  a = r
<1> SUFFICES ASSUME a # r PROVE FALSE
  OBVIOUS
<1>1. \A x \in Block : a \notin succs[x]
  BY DEF preds
<1>2. Closed(succs, {}, Block \ {a})
  BY <1>1 DEF Closed
<1>3. {r} \ {} \subseteq Block \ {a} /\ r \in Block
  BY DEF IsRoot
<1>4. Dfs(succs, r, {}) \subseteq Block \ {a}
  BY <1>2, <1>3, DfsLeast
<1> QED BY <1>4 DEF IsRoot, Reach

(* What each of the loops of buildCFG has established so far.              *)
Counted ==
  /\ succs \in [Block -> SUBSET Block]
  /\ \E r : IsRoot(r)
  /\ phase \in {"predless", "components", "reach", "edges", "analyze"}

PredlessInv ==
  phase = "predless" =>
    /\ j \in 1 .. K + 1
    /\ blocks = 1 .. j - 1
    /\ head = NoHead \/ (head \in 1 .. j - 1 /\ preds[head] = {})

ComponentsInv ==
  phase = "components" => finish \subseteq Reach(1)

ReachInv ==
  /\ phase \in {"predless", "components"} => best = NoHead /\ maxReach = 0
  /\ phase = "reach" =>
       /\ j \in 1 .. K + 1
       /\ maxReach \in Nat
       /\ \A b \in Block : b < j => Cardinality(Reach(b)) <= maxReach
       /\ best # NoHead => best \in Block /\ maxReach = Cardinality(Reach(best))
       /\ best = NoHead => maxReach = 0

HeadInv ==
  /\ phase # "predless" => blocks = Block
  /\ phase \in {"edges", "analyze"} => IsRoot(head)
  /\ phase = "analyze" => cfg = succs

HeadInvariant == Counted /\ PredlessInv /\ ComponentsInv /\ ReachInv /\ HeadInv

(* What buildCFG keeps up to the analyses: the invariant of its loops.     *)
THEOREM HeadInvariance == Spec => []HeadInvariant
<1>1. ASSUME Init PROVE HeadInvariant
  <2>1. succs \in [Block -> SUBSET Block] /\ \E r : IsRoot(r)
    BY <1>1 DEF Init, Rooted, IsRoot, Reach
  <2>2. PredlessInv
    BY <1>1, KAssumption DEF Init, PredlessInv
  <2> QED BY <1>1, <2>1, <2>2
          DEF Init, HeadInvariant, Counted, ComponentsInv, ReachInv, HeadInv
<1>2. ASSUME HeadInvariant, [Next]_vars PROVE HeadInvariant'
  <2>0. succs \in [Block -> SUBSET Block] /\ \E r : IsRoot(r)
    BY <1>2 DEF HeadInvariant, Counted
  <2>1. CASE UNCHANGED vars
    BY <1>2, <2>1 DEF HeadInvariant, Counted, PredlessInv, ComponentsInv, ReachInv,
       HeadInv, IsRoot, Reach, preds, vars, search
  <2>2. CASE Predless
    <3> USE <2>2 DEF Predless
    <3>1. succs' = succs /\ preds' = preds
      BY DEF preds
    <3>2. /\ j \in 1 .. K /\ j \in Block /\ blocks = 1 .. j - 1
          /\ head = NoHead \/ (head \in 1 .. j - 1 /\ preds[head] = {})
      BY <1>2, KAssumption DEF HeadInvariant, PredlessInv, Block
    <3>3. ~(preds[j] = {} /\ head # NoHead)
      <4> SUFFICES ASSUME preds[j] = {}, head # NoHead PROVE FALSE
        OBVIOUS
      <4>1. PICK r : IsRoot(r)
        BY <2>0
      <4>2. head \in Block /\ head # j
        BY <3>2, KAssumption DEF Block
      <4>3. head = r
        BY <2>0, <3>2, <4>1, <4>2, RootOnly
      <4>4. j = r
        BY <2>0, <3>2, <4>1, RootOnly
      <4> QED BY <4>2, <4>3, <4>4
    <3>4. /\ head' = IF preds[j] = {} THEN j ELSE head
          /\ blocks' = blocks \cup {j} /\ j' = j + 1 /\ phase' = phase
      BY <3>3
    <3>5. PredlessInv'
      <4>1. j' \in 1 .. K + 1 /\ j' - 1 = j /\ blocks' = 1 .. j
        BY <3>2, <3>4, KAssumption
      <4>2. head' = NoHead \/ (head' \in 1 .. j /\ preds[head'] = {})
        BY <3>2, <3>4
      <4> QED BY <3>1, <4>1, <4>2 DEF PredlessInv
    <3>6. Counted'
      BY <1>2, <3>1, <3>4 DEF HeadInvariant, Counted, IsRoot, Reach
    <3> QED BY <1>2, <3>4, <3>5, <3>6
            DEF HeadInvariant, ComponentsInv, ReachInv, HeadInv
  <2>3. CASE EndPredless
    <3> USE <2>3 DEF EndPredless
    <3>1. succs' = succs /\ preds' = preds /\ head' = head /\ blocks' = blocks
      BY DEF preds
    <3>2. j = K + 1 /\ blocks = Block
      BY <1>2, KAssumption DEF HeadInvariant, PredlessInv, Block
    <3>3. Counted'
      BY <1>2, <3>1 DEF HeadInvariant, Counted, IsRoot, Reach
    <3>4. head # NoHead => IsRoot(head)
      <4> SUFFICES ASSUME head # NoHead PROVE IsRoot(head)
        OBVIOUS
      <4>1. head \in Block /\ preds[head] = {}
        BY <1>2, <3>2, KAssumption DEF HeadInvariant, PredlessInv, Block
      <4> QED BY <2>0, <4>1, RootOnly
    <3>5. phase' \in {"edges", "components"} /\ (phase' = "edges" => head # NoHead)
          /\ (phase' = "components" => finish' = Reach(1))
      OBVIOUS
    <3>6. ComponentsInv'
      BY <3>1, <3>5 DEF ComponentsInv, Reach
    <3> QED BY <1>2, <3>1, <3>2, <3>3, <3>4, <3>5, <3>6
            DEF HeadInvariant, PredlessInv, ReachInv, HeadInv, IsRoot, Reach
  <2>4. ASSUME NEW b \in Block, Component(b) PROVE HeadInvariant'
    <3> USE <2>4 DEF Component
    <3>1. succs' = succs /\ blocks' = blocks /\ phase = "components"
      OBVIOUS
    <3>2. finish \subseteq Reach(1) /\ Reach(1) \in SUBSET Block /\ 1 \in Block
      BY <1>2, <2>0, KAssumption, ReachType DEF HeadInvariant, ComponentsInv, Block
    <3>3. Cardinality(finish \cap seen') = K => IsRoot(1)
      BY <3>2, BlockFinite DEF IsRoot
    <3>4. \/ head' = 1 /\ phase' = "edges" /\ Cardinality(finish \cap seen') = K
          \/ head' = head /\ phase' = phase
      OBVIOUS
    <3>5. ComponentsInv'
      BY <3>1, <3>2 DEF ComponentsInv, Remaining, Reach
    <3>6. Counted'
      BY <1>2, <3>1, <3>4 DEF HeadInvariant, Counted, IsRoot, Reach
    <3>7. blocks = Block
      BY <1>2, <3>1 DEF HeadInvariant, HeadInv
    <3> QED BY <1>2, <3>1, <3>3, <3>4, <3>5, <3>6, <3>7
            DEF HeadInvariant, PredlessInv, ReachInv, HeadInv, IsRoot, Reach
  <2>5. CASE EndComponents
    <3> USE <2>5 DEF EndComponents
    <3>1. succs' = succs /\ blocks' = blocks /\ phase' = "reach"
      OBVIOUS
    <3>2. Counted'
      BY <1>2, <3>1 DEF HeadInvariant, Counted, IsRoot, Reach
    <3>3. blocks = Block
      BY <1>2 DEF HeadInvariant, HeadInv
    <3>4. ReachInv'
      <4>1. best' = NoHead /\ maxReach' = 0 /\ j' = 1
        BY <1>2 DEF HeadInvariant, ReachInv
      <4>2. \A b \in Block : ~(b < 1)
        BY DEF Block
      <4> QED BY <3>1, <4>1, <4>2, KAssumption DEF ReachInv
    <3> QED BY <3>1, <3>2, <3>3, <3>4
            DEF HeadInvariant, PredlessInv, ComponentsInv, HeadInv
  <2>6. CASE TryBlock
    <3> USE <2>6 DEF TryBlock
    <3>1. /\ succs' = succs /\ blocks' = blocks /\ phase' = phase
          /\ phase = "reach" /\ j' = j + 1
      OBVIOUS
    <3>2. Counted'
      BY <1>2, <3>1 DEF HeadInvariant, Counted, IsRoot, Reach
    <3>3. blocks = Block
      BY <1>2 DEF HeadInvariant, HeadInv
    <3> DEFINE c == [b \in Block |-> Cardinality(Reach(b))]
    <3>4. \A b \in Block : c[b] \in Nat
      BY <2>0, ReachType, BlockFinite
    <3>5. /\ j \in Block
          /\ maxReach \in Nat
          /\ \A b \in Block : b < j => c[b] <= maxReach
          /\ best # NoHead => best \in Block /\ maxReach = c[best]
          /\ best = NoHead => maxReach = 0
      BY <1>2, <3>1, KAssumption DEF HeadInvariant, ReachInv, Block
    <3>6. \/ best' = j /\ maxReach' = c[j] /\ c[j] > maxReach
          \/ best' = best /\ maxReach' = maxReach /\ ~(c[j] > maxReach)
      BY <3>5 DEF Better
    <3>7. ReachInv'
      <4>1. \A b \in Block : Cardinality(Reach(b))' = c[b]
        BY <3>1 DEF Reach
      <4> HIDE DEF c
      <4>2. j' \in 1 .. K + 1 /\ maxReach' \in Nat
        BY <3>1, <3>4, <3>5, <3>6, KAssumption DEF Block
      <4>3. \A b \in Block : b < j' => b < j \/ b = j
        BY <3>1, <3>5 DEF Block
      <4>4. \A b \in Block : b < j' => c[b] <= maxReach'
        BY <3>4, <3>5, <3>6, <4>3
      <4>5. j # NoHead
        BY <3>5 DEF Block, NoHead
      <4>6. /\ best' # NoHead => best' \in Block /\ maxReach' = c[best']
            /\ best' = NoHead => maxReach' = 0
        BY <3>5, <3>6, <4>5
      <4> QED BY <3>1, <4>1, <4>2, <4>4, <4>6 DEF ReachInv
    <3> QED BY <3>1, <3>2, <3>3, <3>7
            DEF HeadInvariant, PredlessInv, ComponentsInv, HeadInv
  <2>7. CASE TakeBest
    <3> USE <2>7 DEF TakeBest
    <3>1. succs' = succs /\ head' = best /\ blocks' = Reach(best) /\ phase' = "edges"
      OBVIOUS
    <3>2. Counted'
      BY <1>2, <3>1 DEF HeadInvariant, Counted, IsRoot, Reach
    <3>3. IsRoot(best)
      <4>1. PICK r : IsRoot(r)
        BY <2>0
      <4>2. r < j /\ r \in Block /\ Reach(r) = Block
        BY <1>2, <4>1, KAssumption DEF HeadInvariant, ReachInv, IsRoot, Block
      <4>3. Cardinality(Reach(r)) = K
        BY <4>2, BlockFinite
      <4>4. K <= maxReach
        BY <1>2, <4>2, <4>3 DEF HeadInvariant, ReachInv
      <4>5. best \in Block /\ maxReach = Cardinality(Reach(best))
        BY <1>2, <4>4, KAssumption DEF HeadInvariant, ReachInv
      <4>6. Reach(best) \in SUBSET Block
        BY <2>0, <4>5, ReachType
      <4>7. maxReach \in Nat /\ maxReach <= K
        BY <4>5, <4>6, BlockFinite
      <4>8. Cardinality(Reach(best)) = K
        BY <4>4, <4>5, <4>7, KAssumption
      <4> QED BY <4>5, <4>6, <4>8, BlockFinite DEF IsRoot
    <3> QED BY <3>1, <3>2, <3>3
            DEF HeadInvariant, PredlessInv, ComponentsInv, ReachInv, HeadInv, IsRoot, Reach
  <2>8. CASE LinkBlocks
    <3> USE <2>8 DEF LinkBlocks
    <3>1. succs' = succs /\ head' = head /\ blocks' = blocks
      OBVIOUS
    <3>2. blocks = Block /\ IsRoot(head)
      BY <1>2 DEF HeadInvariant, HeadInv
    <3>3. cfg' = succs
      <4>1. cfg' = [b \in Block |-> succs[b] \cap Block]
        BY <3>2 DEF CfgEdges
      <4>2. \A b \in Block : succs[b] \cap Block = succs[b]
        BY <2>0
      <4> QED BY <2>0, <4>1, <4>2
    <3>4. phase' = "analyze"
      BY <3>2, <3>3 DEF IsRoot, Reach
    <3>5. Counted'
      BY <1>2, <3>1, <3>4 DEF HeadInvariant, Counted, IsRoot, Reach
    <3> QED BY <3>1, <3>2, <3>3, <3>4, <3>5
            DEF HeadInvariant, PredlessInv, ComponentsInv, ReachInv, HeadInv, IsRoot, Reach
  <2>9. CASE Done
    BY <1>2, <2>9 DEF Done, HeadInvariant, Counted, PredlessInv, ComponentsInv, ReachInv,
       HeadInv, IsRoot, Reach, preds, vars, search
  <2> QED BY <1>2, <2>1, <2>2, <2>3, <2>4, <2>5, <2>6, <2>7, <2>8, <2>9 DEF Next
<1> QED BY <1>1, <1>2, PTL DEF Spec

(* No assertion and no die() of buildCFG is reached, and no executed block *)
(* is dropped from the region.                                             *)
THEOREM HeadKeepsAll == Spec => []RegionComplete
<1>1. HeadInvariant => RegionComplete
  BY DEF HeadInvariant, Counted, HeadInv, RegionComplete
<1> QED BY <1>1, HeadInvariance, PTL

(* What buildCFG hands on, with the entry block in front, is a flow graph: *)
(* every block is reached from the entry, and nothing leads back to it.    *)
THEOREM RegionIsFlowGraph == Spec => []EntersAnalysis
<1>1. ASSUME HeadInvariant PROVE EntersAnalysis
  <2> DEFINE N == Block \cup {NoHead}
             g == [b \in N |-> IF b = NoHead THEN {head} ELSE cfg[b]]
  <2>1. SUFFICES ASSUME phase = "analyze" PROVE g \in Analysis!FlowGraphs
    BY <1>1 DEF EntersAnalysis, HeadInvariant, Counted
  <2>2. /\ head \in Block /\ Reach(head) = Block
        /\ cfg = succs /\ succs \in [Block -> SUBSET Block]
    BY <1>1, <2>1 DEF HeadInvariant, HeadInv, Counted, IsRoot
  <2>3. NoHead \notin Block
    BY DEF NoHead, Block
  <2>4. g \in [N -> SUBSET (N \ {NoHead})] /\ g[NoHead] = {head}
    BY <2>2, <2>3
  <2>5. \A b \in Block : g[b] = succs[b]
    BY <2>2, <2>3
  <2>6. ASSUME NEW S \in SUBSET N, NoHead \in S, \A m \in S : g[m] \subseteq S
        PROVE  S = N
    <3>1. head \in S \cap Block
      BY <2>2, <2>4, <2>6
    <3>2. Closed(succs, {}, S \cap Block)
      BY <2>2, <2>5, <2>6 DEF Closed
    <3>3. Dfs(succs, head, {}) \subseteq S \cap Block
      BY <2>2, <3>1, <3>2, DfsLeast
    <3> QED BY <2>2, <2>6, <3>3 DEF Reach
  <2>7. Analysis!Connected(g)
    BY <2>6 DEF Analysis!Connected
  <2> QED BY <2>4, <2>7 DEF Analysis!FlowGraphs
<1> QED BY <1>1, HeadInvariance, PTL
=============================================================================
