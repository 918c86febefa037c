-------------------------- MODULE FlowGraphProofs --------------------------
(***************************************************************************)
(* Facts about flow graphs that the proofs about the analyses share:       *)
(*   - dominance is a partial order in which every block but the entry has *)
(*     an immediate dominator;                                             *)
(*   - a search visits every block once, and a set collected in rounds is  *)
(*     the least one that is closed;                                       *)
(*   - the tree a depth-first search leaves, and what the semidominators   *)
(*     of its blocks say about their immediate dominators.                 *)
(***************************************************************************)
EXTENDS FlowGraph, FiniteSetTheorems, WellFoundedInduction, TLAPS

LEMMA GraphFacts ==
  ASSUME NEW s \in FlowGraphs
  PROVE  /\ \A m \in Node : s[m] \subseteq Node /\ Entry \notin s[m]
         /\ \A T \in SUBSET Node :
              Entry \in T /\ (\A m \in T : s[m] \subseteq T) => T = Node
BY DEF FlowGraphs, Connected

(* Dominance is a partial order, with the entry at its head.               *)
LEMMA EntryDominates == ASSUME NEW s, NEW n PROVE Dominates(s, Entry, n)
<1>1. {} \in SUBSET (Node \ {Entry, n}) /\ Entry \in {} \cup {Entry}
  OBVIOUS
<1>2. \A m \in {} : s[m] \subseteq {} \cup {Entry}
  OBVIOUS
<1> QED BY <1>1, <1>2 DEF Dominates

LEMMA DominatesTrans ==
  ASSUME NEW s, NEW a, NEW b, NEW c, Dominates(s, a, b), Dominates(s, b, c)
  PROVE  Dominates(s, a, c)
<1>1. CASE a = b \/ b = c \/ a = c
  BY <1>1 DEF Dominates
<1>2. CASE a # b /\ b # c /\ a # c
  <2>1. PICK S \in SUBSET (Node \ {a, b}) :
          Entry \in S \cup {a} /\ \A m \in S : s[m] \subseteq S \cup {a}
    BY <1>2 DEF Dominates
  <2>2. PICK T \in SUBSET (Node \ {b, c}) :
          Entry \in T \cup {b} /\ \A m \in T : s[m] \subseteq T \cup {b}
    BY <1>2 DEF Dominates
  <2>3. S \cap T \in SUBSET (Node \ {a, c})
    BY <2>1, <2>2
  <2>4. Entry \in (S \cap T) \cup {a}
    BY <2>1, <2>2
  <2>5. \A m \in S \cap T : s[m] \subseteq (S \cap T) \cup {a}
    BY <2>1, <2>2
  <2> QED BY <2>3, <2>4, <2>5 DEF Dominates
<1> QED BY <1>1, <1>2

LEMMA DominatesAntisym ==
  ASSUME NEW s \in FlowGraphs, NEW a \in Node, NEW b \in Node,
         Dominates(s, a, b), Dominates(s, b, a)
  PROVE  a = b
<1> SUFFICES ASSUME a # b PROVE FALSE
  OBVIOUS
<1>1. PICK S \in SUBSET (Node \ {a, b}) :
        Entry \in S \cup {a} /\ \A m \in S : s[m] \subseteq S \cup {a}
  BY DEF Dominates
<1>2. PICK T \in SUBSET (Node \ {a, b}) :
        Entry \in T \cup {b} /\ \A m \in T : s[m] \subseteq T \cup {b}
  BY DEF Dominates
<1>3. Entry \in S \cap T
  BY <1>1, <1>2
<1>4. \A m \in S \cap T : s[m] \subseteq S \cap T
  BY <1>1, <1>2
<1>5. S \cap T = Node
  BY <1>3, <1>4, GraphFacts
<1> QED BY <1>1, <1>5

(* A dominator of a block, but itself, dominates its predecessors.         *)
LEMMA PredDominated ==
  ASSUME NEW s, NEW a, NEW p \in Node, NEW n \in s[p], a # n, Dominates(s, a, n)
  PROVE  Dominates(s, a, p)
BY DEF Dominates

(* Any dominators of a block include one that all the others dominate.     *)
LEMMA LowestDominator ==
  ASSUME NEW s \in FlowGraphs, NEW n \in Node, NEW T \in SUBSET Doms(s, n), T # {}
  PROVE  \E a \in T : \A b \in T : Dominates(s, b, a)
<1> DEFINE Has(x) == \A U \in SUBSET Doms(s, x) :
                       U # {} => \E a \in U : \A b \in U : Dominates(s, b, a)
           G == {x \in Node : Has(x)}
<1>1. Entry \in G
  <2>1. Doms(s, Entry) \subseteq {Entry}
    BY NodeAssumption, EntryDominates, DominatesAntisym DEF Doms
  <2>2. Dominates(s, Entry, Entry)
    BY EntryDominates
  <2> QED BY <2>1, <2>2, NodeAssumption
<1>2. ASSUME NEW p \in G, NEW x \in s[p] PROVE x \in G
  <2>1. x \in Node
    BY GraphFacts
  <2>2. ASSUME NEW U \in SUBSET Doms(s, x), U # {}
        PROVE  \E a \in U : \A b \in U : Dominates(s, b, a)
    <3>1. CASE x \in U
      BY <3>1 DEF Doms
    <3>2. CASE x \notin U
      <4>1. U \subseteq Doms(s, p)
        BY <3>2, PredDominated DEF Doms
      <4> QED BY <2>2, <4>1
    <3> QED BY <3>1, <3>2
  <2> QED BY <2>1, <2>2
<1>3. G = Node
  <2> HIDE DEF G
  <2>1. G \in SUBSET Node
    BY DEF G
  <2> QED BY <1>1, <1>2, <2>1, GraphFacts
<1> QED BY <1>3

(* So every block but the entry has an immediate dominator.                *)
LEMMA IdomFacts ==
  ASSUME NEW s \in FlowGraphs, NEW n \in Node \ {Entry}
  PROVE  /\ Idom(s, n) \in Node \ {n}
         /\ \A a \in Node : Dominates(s, a, Idom(s, n)) <=> a # n /\ Dominates(s, a, n)
<1> DEFINE strict == Doms(s, n) \ {n}
<1>1. Entry \in strict /\ strict \subseteq Node
  BY NodeAssumption, EntryDominates DEF Doms
<1>2. PICK a \in strict : \A b \in strict : Dominates(s, b, a)
  BY <1>1, LowestDominator
<1>3. a \in Node /\ a # n /\ Dominates(s, a, n)
  BY <1>2 DEF Doms
<1>4. ASSUME NEW b \in Node, Dominates(s, b, a)
      PROVE  b # n /\ Dominates(s, b, n)
  BY <1>3, <1>4, DominatesTrans, DominatesAntisym
<1>5. Doms(s, a) = strict
  BY <1>2, <1>4 DEF Doms
<1>6. Idom(s, n) \in strict /\ Doms(s, Idom(s, n)) = strict
  BY <1>2, <1>5 DEF Idom
<1> QED BY <1>6 DEF Doms

-----------------------------------------------------------------------------
(* A set of numbers up to L has a greatest one.                            *)
LEMMA Greatest ==
  ASSUME NEW L \in Nat, NEW S, S \subseteq 1 .. L, S # {}
  PROVE  \E k \in S : \A m \in S : m <= k
<1> DEFINE T == {L - k : k \in S}
<1>1. T \subseteq Nat /\ T # {}
  <2>1. \A k \in S : L - k \in Nat
    OBVIOUS
  <2> QED BY <2>1
<1>2. PICK x \in T : \A y \in T : ~(<<y, x>> \in OpToRel(<, Nat))
  BY <1>1, NatLessThanWellFounded, WFMin
<1>3. \A y \in T : ~(y < x)
  BY <1>1, <1>2 DEF OpToRel
<1>4. PICK k \in S : x = L - k
  OBVIOUS
<1>5. ASSUME NEW m \in S PROVE m <= k
  <2>1. ~(L - m < L - k)
    BY <1>3, <1>4
  <2> QED BY <2>1
<1> QED BY <1>5

(* The search is over when no visited block has a successor left.          *)
LEMMA FrameOver ==
  ASSUME NEW s, NEW ord \in Seq(Node), Frame(s, ord) = NoNode
  PROVE  \A k \in 1 .. Len(ord) : s[ord[k]] \subseteq Visited(ord)
<1> DEFINE open == {k \in 1 .. Len(ord) : ~(s[ord[k]] \subseteq Visited(ord))}
<1>1. SUFFICES ASSUME open # {} PROVE FALSE
  OBVIOUS
<1>2. Len(ord) \in Nat /\ open \subseteq 1 .. Len(ord)
  OBVIOUS
<1>3. \E k \in open : \A m \in open : m <= k
  BY <1>1, <1>2, Greatest
<1>4. Frame(s, ord) = ord[CHOOSE k \in open : \A m \in open : m <= k]
  BY <1>1 DEF Frame
<1>5. (CHOOSE k \in open : \A m \in open : m <= k) \in 1 .. Len(ord)
  BY <1>3
<1> HIDE DEF open
<1>6. Frame(s, ord) \in Node
  BY <1>4, <1>5
<1> QED BY <1>6, NodeAssumption

(* Then it has visited every block ... *)
LEMMA AllVisited ==
  ASSUME NEW s \in FlowGraphs, NEW ord \in Seq(Node), Len(ord) >= 1,
         ord[1] = Entry, Frame(s, ord) = NoNode
  PROVE  Visited(ord) = Node
<1>1. Visited(ord) \subseteq Node /\ Entry \in Visited(ord)
  BY DEF Visited
<1>2. \A n \in Visited(ord) : s[n] \subseteq Visited(ord)
  BY FrameOver DEF Visited
<1>3. Connected(s)
  BY DEF FlowGraphs
<1> QED BY <1>1, <1>2, <1>3 DEF Connected

(* ... so that the blocks are as many as the numbers.                      *)
LEMMA AllCounted ==
  ASSUME NEW ord \in Seq(Node), Visited(ord) = Node,
         \A k, m \in 1 .. Len(ord) : ord[k] = ord[m] => k = m
  PROVE  Len(ord) = Cardinality(Node)
<1> DEFINE I == 1 .. Len(ord)
<1>1. Len(ord) \in Nat /\ ord \in [I -> Node]
  OBVIOUS
<1>2. ord \in Injection(I, Node)
  BY <1>1 DEF Injection, IsInjective
<1>3. ord \in Surjection(I, Node)
  BY <1>1 DEF Surjection, Visited
<1>4. ExistsBijection(I, Node)
  BY <1>2, <1>3 DEF ExistsBijection, Bijection
<1>5. IsFiniteSet(I) /\ Cardinality(I) = Len(ord)
  BY SMTT(30), <1>1, FS_Interval
<1> QED BY <1>4, <1>5, FS_Bijection

-----------------------------------------------------------------------------
(* Sets that are collected in rounds, one more than there is to collect at *)
(* most: the result is the least set that holds the start and is closed.   *)
LEMMA Least ==
  ASSUME NEW T, T \subseteq Nat, T # {}
  PROVE  \E m \in T : \A k \in T : m <= k
<1>1. PICK m \in T : \A y \in T : ~(<<y, m>> \in OpToRel(<, Nat))
  BY NatLessThanWellFounded, WFMin
<1>2. \A y \in T : ~(y < m)
  BY <1>1 DEF OpToRel
<1> QED BY <1>2

ClosedIn(next, S) == \A x \in S : next[x] \subseteq S
Widen(next, S) == S \cup UNION {next[x] : x \in S}
Widens(f, U, next, A, L) ==
  /\ f \in [0 .. L -> SUBSET U]
  /\ f[0] = A
  /\ \A k \in 1 .. L : f[k] = Widen(next, f[k - 1])

LEMMA WidenType ==
  ASSUME NEW U, NEW next \in [U -> SUBSET U], NEW S \in SUBSET U
  PROVE  /\ Widen(next, S) \in SUBSET U
         /\ S \subseteq Widen(next, S)
         /\ ClosedIn(next, S) <=> Widen(next, S) = S
         /\ \A C : ClosedIn(next, C) /\ S \subseteq C => Widen(next, S) \subseteq C
BY DEF Widen, ClosedIn

LEMMA WideningExists ==
  ASSUME NEW U, NEW next \in [U -> SUBSET U], NEW A \in SUBSET U, NEW N \in Nat
  PROVE  \E f : Widens(f, U, next, A, N)
<1> DEFINE T == {L \in 0 .. N : ~(\E f : Widens(f, U, next, A, L))}
<1>1. SUFFICES ASSUME T # {} PROVE FALSE
  OBVIOUS
<1>2. T \subseteq Nat
  OBVIOUS
<1>3. PICK m \in T : \A k \in T : m <= k
  <2> HIDE DEF T
  <2> QED BY <1>1, <1>2, Least
<1>4. CASE m = 0
  <2> DEFINE f == [k \in 0 .. 0 |-> A]
  <2>1. Widens(f, U, next, A, 0)
    BY DEF Widens
  <2> QED BY <1>3, <1>4, <2>1
<1>5. CASE m # 0
  <2>1. m \in 0 .. N /\ m - 1 \in 0 .. N /\ m - 1 \notin T
    BY <1>3, <1>5
  <2>2. PICK f : Widens(f, U, next, A, m - 1)
    BY <2>1
  <2> DEFINE g == [k \in 0 .. m |-> IF k = m THEN Widen(next, f[m - 1]) ELSE f[k]]
  <2>3. /\ f \in [0 .. (m - 1) -> SUBSET U] /\ f[0] = A
        /\ \A k \in 1 .. (m - 1) : f[k] = Widen(next, f[k - 1])
    BY <2>2 DEF Widens
  <2>4. Widen(next, f[m - 1]) \in SUBSET U
    <3>1. f[m - 1] \in SUBSET U
      BY <1>5, <2>1, <2>3
    <3> QED BY <3>1, WidenType
  <2>5. g \in [0 .. m -> SUBSET U] /\ g[0] = A
    BY <1>5, <2>1, <2>3, <2>4
  <2>6. ASSUME NEW k \in 1 .. m PROVE g[k] = Widen(next, g[k - 1])
    <3>1. g[k - 1] = f[k - 1]
      BY <2>1
    <3>2. CASE k = m
      BY <3>1, <3>2, <2>1
    <3>3. CASE k # m
      BY <3>1, <3>3, <2>1, <2>3
    <3> QED BY <3>2, <3>3
  <2>7. Widens(g, U, next, A, m)
    <3> HIDE DEF g
    <3> QED BY <2>5, <2>6 DEF Widens
  <2> QED BY <2>7, <1>3
<1> QED BY <1>4, <1>5

(* A round that adds nothing is the last one that could.                   *)
LEMMA WideningStops ==
  ASSUME NEW U, NEW next \in [U -> SUBSET U], NEW A, NEW N \in Nat,
         NEW f, Widens(f, U, next, A, N),
         NEW k \in 0 .. N, ClosedIn(next, f[k])
  PROVE  f[N] = f[k]
<1> DEFINE T == {n \in k .. N : f[n] # f[k]}
<1>1. SUFFICES ASSUME T # {} PROVE FALSE
  OBVIOUS
<1>2. T \subseteq Nat
  OBVIOUS
<1>3. PICK m \in T : \A n \in T : m <= n
  <2> HIDE DEF T
  <2> QED BY <1>1, <1>2, Least
<1>4. m # k
  BY <1>3
<1>5. m \in 1 .. N /\ m - 1 \in k .. N /\ m - 1 \notin T
  BY <1>3, <1>4
<1>6. f[m - 1] = f[k] /\ f[k] \in SUBSET U /\ f[m] = Widen(next, f[m - 1])
  BY <1>5 DEF Widens
<1>7. f[m] = f[k]
  BY <1>6, WidenType
<1> QED BY <1>3, <1>7

LEMMA WideningEnough ==
  ASSUME NEW U, IsFiniteSet(U), NEW next \in [U -> SUBSET U], NEW A,
         NEW f, Widens(f, U, next, A, Cardinality(U))
  PROVE  ClosedIn(next, f[Cardinality(U)])
<1> DEFINE N == Cardinality(U)
<1>0. N \in Nat
  BY FS_CardinalityType
<1>1. SUFFICES ASSUME ~ClosedIn(next, f[N]) PROVE FALSE
  OBVIOUS
<1>W. Widens(f, U, next, A, N)
  OBVIOUS
<1> HIDE DEF N
<1>2. ASSUME NEW k \in 0 .. N
      PROVE  ~ClosedIn(next, f[k]) /\ f[k] \in SUBSET U
  <2>1. ClosedIn(next, f[k]) => f[N] = f[k]
    BY <1>0, <1>W, WideningStops
  <2> QED BY <1>1, <1>W, <2>1 DEF Widens
<1>S. ASSUME NEW S \in SUBSET U PROVE IsFiniteSet(S) /\ Cardinality(S) \in Nat /\ Cardinality(S) <= N
  BY FS_Subset, FS_CardinalityType DEF N
<1> DEFINE T == {k \in 0 .. N : ~(Cardinality(f[k]) >= k + 1)}
<1>3. ASSUME T # {} PROVE FALSE
  <2>1. T \subseteq Nat
    OBVIOUS
  <2>2. PICK m \in T : \A k \in T : m <= k
    <3> HIDE DEF T
    <3> QED BY <1>3, <2>1, Least
  <2>3. m # 0
    <3>1. f[0] # {} /\ f[0] \in SUBSET U
      BY <1>0, <1>2 DEF ClosedIn
    <3>2. Cardinality(f[0]) \in Nat /\ Cardinality(f[0]) # 0
      BY <1>S, <3>1, FS_EmptySet
    <3>3. ASSUME m = 0 PROVE FALSE
      <4>1. ~(Cardinality(f[0]) >= 0 + 1)
        BY <2>2, <3>3
      <4> QED BY <3>2, <4>1
    <3> QED BY <3>3
  <2>4. m \in 1 .. N /\ m - 1 \in 0 .. N /\ m - 1 \notin T
    BY <1>0, <2>2, <2>3
  <2> DEFINE c == Cardinality(f[m - 1])
             n == Cardinality(f[m])
  <2>5. c >= m
    BY <1>0, <2>4
  <2>6. /\ f[m] = Widen(next, f[m - 1])
        /\ f[m - 1] \in SUBSET U /\ f[m] \in SUBSET U
        /\ ~ClosedIn(next, f[m - 1])
    BY <1>0, <1>2, <1>W, <2>4 DEF Widens
  <2>7. f[m - 1] \subseteq f[m] /\ f[m] # f[m - 1]
    BY <2>6, WidenType
  <2>8. IsFiniteSet(f[m]) /\ c \in Nat /\ n \in Nat
    BY <2>6, <1>S
  <2>9. c <= n /\ c # n
    BY <2>7, <2>8, FS_Subset
  <2>10. ~(n >= m + 1)
    BY <2>2
  <2> HIDE DEF c, n
  <2> QED BY <1>0, <2>4, <2>5, <2>8, <2>9, <2>10
<1>4. Cardinality(f[N]) >= N + 1
  BY <1>0, <1>3
<1>5. Cardinality(f[N]) \in Nat /\ Cardinality(f[N]) <= N
  BY <1>0, <1>2, <1>S
<1> DEFINE c == Cardinality(f[N])
<1> HIDE DEF c
<1>6. c >= N + 1 /\ c \in Nat /\ c <= N
  BY <1>4, <1>5 DEF c
<1> QED BY <1>0, <1>6

(* The recursive definition of the rounds has a solution, so it is one.    *)
Rounds(f, next, A, N) ==
  f = [k \in 0 .. N |->
         IF k = 0 THEN A ELSE f[k - 1] \cup UNION {next[x] : x \in f[k - 1]}]

LEMMA RoundsSolved ==
  ASSUME NEW U, IsFiniteSet(U), NEW next \in [U -> SUBSET U], NEW A \in SUBSET U, NEW h,
         h = CHOOSE f : f = [k \in 0 .. Cardinality(U) |->
                               IF k = 0 THEN A
                               ELSE f[k - 1] \cup UNION {next[x] : x \in f[k - 1]}]
  PROVE  Rounds(h, next, A, Cardinality(U))
<1> DEFINE N == Cardinality(U)
           Solves(f) == f = [k \in 0 .. N |->
                               IF k = 0 THEN A
                               ELSE f[k - 1] \cup UNION {next[x] : x \in f[k - 1]}]
<1>0. N \in Nat
  BY FS_CardinalityType
<1>C. h = CHOOSE f : Solves(f)
  OBVIOUS
<1> HIDE DEF N
<1>1. PICK f : Widens(f, U, next, A, N)
  BY <1>0, WideningExists
<1>2. Solves(f)
  <2>1. f = [k \in 0 .. N |-> f[k]]
    BY <1>1 DEF Widens
  <2>2. ASSUME NEW k \in 0 .. N
        PROVE  f[k] = IF k = 0 THEN A
                      ELSE f[k - 1] \cup UNION {next[x] : x \in f[k - 1]}
    BY <1>0, <1>1 DEF Widens, Widen
  <2> QED BY <2>1, <2>2, Zenon
<1>3. Solves(h)
  <2> HIDE DEF Solves
  <2> QED BY <1>2, <1>C, Zenon
<1> QED BY <1>3 DEF N, Rounds

LEMMA Collected ==
  ASSUME NEW U, IsFiniteSet(U), NEW next \in [U -> SUBSET U], NEW A \in SUBSET U,
         NEW N, N = Cardinality(U), NEW h, Rounds(h, next, A, N)
  PROVE  h[N] \in SUBSET U /\ A \subseteq h[N] /\ ClosedIn(next, h[N])
<1>0. N \in Nat
  BY FS_CardinalityType
<1>5. h[0] = A
  <2>1. 0 \in 0 .. N
    BY <1>0
  <2> QED BY <2>1, Zenon DEF Rounds
<1>6. ASSUME NEW k \in 1 .. N PROVE h[k] = Widen(next, h[k - 1])
  <2>1. k \in 0 .. N /\ k # 0
    BY <1>0
  <2>2. h[k] = IF k = 0 THEN A ELSE h[k - 1] \cup UNION {next[x] : x \in h[k - 1]}
    BY <2>1, Zenon DEF Rounds
  <2> QED BY <2>1, <2>2, Zenon DEF Widen
<1>7. \A k \in 0 .. N : h[k] \in SUBSET U /\ A \subseteq h[k]
  <2> DEFINE T == {k \in 0 .. N : ~(h[k] \in SUBSET U /\ A \subseteq h[k])}
  <2>1. ASSUME T # {} PROVE FALSE
    <3>1. T \subseteq Nat
      OBVIOUS
    <3>2. PICK m \in T : \A k \in T : m <= k
      <4> HIDE DEF T
      <4> QED BY <2>1, <3>1, Least
    <3>3. m # 0
      BY <1>5, <3>2
    <3>4. m \in 1 .. N /\ m - 1 \in 0 .. N /\ m - 1 \notin T
      BY <1>0, <3>2, <3>3
    <3>5. h[m - 1] \in SUBSET U /\ A \subseteq h[m - 1]
      BY <3>4
    <3>6. h[m] \in SUBSET U /\ h[m - 1] \subseteq h[m]
      BY <1>6, <3>4, <3>5, WidenType
    <3> QED BY <3>2, <3>5, <3>6
  <2> QED BY <2>1
<1>8. Widens(h, U, next, A, N)
  <2>1. DOMAIN h = 0 .. N /\ h = [k \in DOMAIN h |-> h[k]]
    BY DEF Rounds
  <2>2. h \in [0 .. N -> SUBSET U]
    BY <1>7, <2>1
  <2> QED BY <1>5, <1>6, <2>2 DEF Widens
<1>9. h[N] \in SUBSET U /\ A \subseteq h[N]
  BY <1>0, <1>7
<1>10. ClosedIn(next, h[N])
  BY <1>8, WideningEnough
<1> QED BY <1>9, <1>10

-----------------------------------------------------------------------------
(* Trees given by the parent of every block.  a is an ancestor of n, or n, *)
(* when it is in every set that holds n and the parents of what it holds.  *)
Anc(par, a, n) ==
  \A S \in SUBSET Node :
    n \in S /\ (\A x \in S : par[x] \in Node => par[x] \in S) => a \in S

Tree(par, num) ==
  /\ num \in [Node -> Nat \ {0}]
  /\ \A x, y \in Node : num[x] = num[y] => x = y
  /\ par[Entry] = NoNode
  /\ \A n \in Node \ {Entry} : par[n] \in Node /\ num[par[n]] < num[n]

LEMMA AncSelf == ASSUME NEW par, NEW n PROVE Anc(par, n, n)
BY DEF Anc

LEMMA AncOfParent ==
  ASSUME NEW par, NEW a, NEW n, par[n] \in Node, Anc(par, a, par[n])
  PROVE  Anc(par, a, n)
BY DEF Anc

LEMMA AncIsNode == ASSUME NEW par, NEW a, NEW n \in Node, Anc(par, a, n) PROVE a \in Node
<1>1. Node \in SUBSET Node /\ n \in Node /\ \A x \in Node : par[x] \in Node => par[x] \in Node
  OBVIOUS
<1> QED BY <1>1, Zenon DEF Anc

LEMMA AncTrans ==
  ASSUME NEW par, NEW a, NEW b, NEW c, Anc(par, a, b), Anc(par, b, c)
  PROVE  Anc(par, a, c)
BY DEF Anc

(* What holds of n and goes up to parents holds of the ancestors of n.     *)
LEMMA AncUpwards ==
  ASSUME NEW par, NEW S \in SUBSET Node, NEW n \in S, NEW a,
         \A x \in S : par[x] \in Node => par[x] \in S,
         Anc(par, a, n)
  PROVE  a \in S
BY DEF Anc

(* A proper ancestor is one of the parent. *)
LEMMA AncOfChild ==
  ASSUME NEW par, NEW a, NEW n \in Node, Anc(par, a, n), a # n
  PROVE  par[n] \in Node /\ Anc(par, a, par[n])
<1>1. par[n] \in Node
  <2>1. SUFFICES ASSUME par[n] \notin Node PROVE FALSE
    OBVIOUS
  <2>2. a \in {n}
    BY <2>1 DEF Anc
  <2> QED BY <2>2
<1>2. ASSUME NEW S \in SUBSET Node, par[n] \in S,
             \A x \in S : par[x] \in Node => par[x] \in S
      PROVE  a \in S
  <2>1. a \in S \cup {n}
    <3>1. S \cup {n} \in SUBSET Node /\ n \in S \cup {n}
      OBVIOUS
    <3>2. \A x \in S \cup {n} : par[x] \in Node => par[x] \in S \cup {n}
      BY <1>2
    <3> QED BY <3>1, <3>2 DEF Anc
  <2> QED BY <2>1
<1> QED BY <1>1, <1>2 DEF Anc

LEMMA AncNumber ==
  ASSUME NEW par, NEW num, Tree(par, num), NEW n \in Node, NEW a, Anc(par, a, n)
  PROVE  a \in Node /\ num[a] <= num[n] /\ (a # n => num[a] < num[n])
<1> DEFINE S == {x \in Node : num[x] <= num[n]}
<1>1. S \in SUBSET Node /\ n \in S
  BY DEF Tree
<1>2. \A x \in S : par[x] \in Node => par[x] \in S
  BY NodeAssumption DEF Tree
<1>3. a \in S
  <2> HIDE DEF S
  <2> QED BY <1>1, <1>2, AncUpwards
<1> QED BY <1>3 DEF Tree

(* Induction over the numbers. *)
LEMMA LowestNumber ==
  ASSUME NEW num \in [Node -> Nat \ {0}], NEW S \in SUBSET Node, S # {}
  PROVE  \E x \in S : \A y \in S : num[x] <= num[y]
<1> DEFINE T == {num[x] : x \in S}
<1>1. T \subseteq Nat /\ T # {}
  OBVIOUS
<1>2. PICK m \in T : \A k \in T : m <= k
  <2> HIDE DEF T
  <2> QED BY <1>1, Least
<1> QED BY <1>2

(* What holds of a and goes down to children holds of the descendants.     *)
LEMMA AncDownwards ==
  ASSUME NEW par, NEW num, Tree(par, num), NEW a \in Node, NEW n \in Node, Anc(par, a, n),
         NEW S, a \in S,
         \A x \in Node \ {Entry} :
           Anc(par, a, par[x]) /\ num[a] < num[x] /\ par[x] \in S => x \in S
  PROVE  n \in S
<1> DEFINE B == {x \in Node : Anc(par, a, x) /\ x \notin S}
<1>1. SUFFICES ASSUME B # {} PROVE FALSE
  OBVIOUS
<1>2. B \in SUBSET Node /\ num \in [Node -> Nat \ {0}]
  BY DEF Tree
<1>3. PICK x \in B : \A y \in B : num[x] <= num[y]
  <2> HIDE DEF B
  <2> QED BY <1>1, <1>2, LowestNumber
<1>4. x \in Node /\ Anc(par, a, x) /\ x # a /\ x \notin S
  BY <1>3
<1>5. par[x] \in Node /\ Anc(par, a, par[x])
  BY <1>4, AncOfChild
<1>6. x # Entry /\ num[par[x]] < num[x]
  BY <1>4, <1>5, NodeAssumption DEF Tree
<1>7. num[a] < num[x]
  BY <1>4, AncNumber
<1>8. par[x] \notin B
  <2>1. num[x] \in Nat /\ num[par[x]] \in Nat
    BY <1>2, <1>4, <1>5
  <2> QED BY <1>3, <1>6, <2>1
<1> QED BY <1>4, <1>5, <1>6, <1>7, <1>8

(* The ancestors of a block are a chain. *)
LEMMA AncChain ==
  ASSUME NEW par, NEW num, Tree(par, num), NEW n \in Node, NEW a, NEW b,
         Anc(par, a, n), Anc(par, b, n), num[a] <= num[b]
  PROVE  Anc(par, a, b)
<1>0. a \in Node /\ b \in Node /\ num[a] \in Nat /\ num[b] \in Nat
  BY AncNumber DEF Tree
<1> DEFINE S == {x \in Node : Anc(par, b, x) /\ (Anc(par, a, x) => Anc(par, a, b))}
<1>1. b \in S
  BY <1>0, AncSelf
<1>2. ASSUME NEW x \in Node \ {Entry}, Anc(par, b, par[x]), num[b] < num[x], par[x] \in S
      PROVE  x \in S
  <2>1. par[x] \in Node /\ num[x] \in Nat
    BY <1>2 DEF Tree
  <2>2. Anc(par, b, x)
    BY <1>2, <2>1, AncOfParent
  <2>3. ASSUME Anc(par, a, x) PROVE Anc(par, a, b)
    <3>1. a # x
      BY <1>0, <1>2, <2>1
    <3>2. Anc(par, a, par[x])
      BY <2>3, <3>1, AncOfChild
    <3> QED BY <1>2, <3>2
  <2> QED BY <2>2, <2>3
<1>3. n \in S
  <2> HIDE DEF S
  <2> QED BY <1>0, <1>1, <1>2, AncDownwards
<1> QED BY <1>3

(* The child of an ancestor on the way down. *)
LEMMA ChildTowards ==
  ASSUME NEW par, NEW num, Tree(par, num), NEW n \in Node, NEW a \in Node \ {n}, Anc(par, a, n)
  PROVE  \E c \in Node \ {Entry} : par[c] = a /\ Anc(par, c, n) /\ num[a] < num[c]
<1> DEFINE S == {y \in Node : Anc(par, y, n) /\ num[a] < num[y]}
<1>1. /\ num \in [Node -> Nat \ {0}] /\ \A x, y \in Node : num[x] = num[y] => x = y
      /\ par[Entry] = NoNode
      /\ \A x \in Node \ {Entry} : par[x] \in Node /\ num[par[x]] < num[x]
  BY DEF Tree
<1>2. n \in S
  BY AncSelf, AncNumber
<1>3. PICK c \in S : \A y \in S : num[c] <= num[y]
  BY <1>1, <1>2, LowestNumber
<1>4. c \in Node /\ Anc(par, c, n) /\ num[a] < num[c]
  BY <1>3
<1>5. Anc(par, a, c)
  BY <1>1, <1>4, AncChain
<1>6. par[c] \in Node /\ Anc(par, a, par[c])
  BY <1>1, <1>4, <1>5, AncOfChild
<1>7. c # Entry
  BY <1>1, <1>6, NodeAssumption
<1>8. num[a] <= num[par[c]]
  BY <1>6, AncNumber
<1>9. Anc(par, par[c], n)
  BY <1>4, <1>6, AncSelf, AncOfParent, AncTrans
<1>10. ~(num[a] < num[par[c]])
  <2>1. num[par[c]] < num[c]
    BY <1>1, <1>4, <1>7
  <2>2. par[c] \notin S
    BY <1>1, <1>3, <1>4, <1>6, <2>1
  <2> QED BY <1>6, <1>9, <2>2
<1>11. par[c] = a
  BY <1>1, <1>6, <1>8, <1>10
<1> QED BY <1>4, <1>7, <1>11

-----------------------------------------------------------------------------
(* Depth-first trees: num numbers the blocks in the order in which they    *)
(* are visited.  An edge to a higher number goes to a descendant, and the  *)
(* descendants of a block have consecutive numbers.                        *)
DfsTree(s, par, num) ==
  /\ s \in FlowGraphs
  /\ Tree(par, num)
  /\ \A n \in Node \ {Entry} : n \in s[par[n]]
  /\ \A v \in Node : \A u \in s[v] : num[v] <= num[u] => Anc(par, v, u)
  /\ \A v, u, x \in Node :
       num[v] <= num[u] /\ num[u] <= num[x] /\ Anc(par, v, x) => Anc(par, v, u)

(* A dominator is an ancestor. *)
LEMMA DominatorAbove ==
  ASSUME NEW s, NEW par, NEW num, DfsTree(s, par, num),
         NEW a \in Node, NEW n \in Node, Dominates(s, a, n)
  PROVE  Anc(par, a, n)
<1> DEFINE B == {x \in Node : Dominates(s, a, x) /\ ~Anc(par, a, x)}
<1>1. SUFFICES ASSUME B # {} PROVE FALSE
  OBVIOUS
<1>2. B \in SUBSET Node /\ num \in [Node -> Nat \ {0}]
  BY DEF Tree, DfsTree
<1>3. PICK x \in B : \A y \in B : num[x] <= num[y]
  <2> HIDE DEF B
  <2> QED BY <1>1, <1>2, LowestNumber
<1>4. x \in Node /\ Dominates(s, a, x) /\ ~Anc(par, a, x) /\ x # a
  BY <1>3, AncSelf
<1>5. x # Entry
  BY <1>4, NodeAssumption DEF Dominates
<1>6. par[x] \in Node /\ num[par[x]] < num[x] /\ x \in s[par[x]]
  BY <1>4, <1>5 DEF DfsTree, Tree
<1>7. Dominates(s, a, par[x])
  BY <1>4, <1>6, PredDominated
<1>8. ~Anc(par, a, par[x])
  BY <1>4, <1>6, AncOfParent
<1>9. par[x] \in B /\ num[x] \in Nat /\ num[par[x]] \in Nat
  BY <1>2, <1>4, <1>6, <1>7, <1>8
<1> QED BY <1>3, <1>6, <1>9

LEMMA EntryLowest ==
  ASSUME NEW s, NEW par, NEW num, DfsTree(s, par, num), NEW n \in Node
  PROVE  num[Entry] <= num[n] /\ num[Entry] \in Nat /\ num[n] \in Nat
<1>1. Anc(par, Entry, n)
  BY EntryDominates, DominatorAbove, NodeAssumption
<1> QED BY <1>1, AncNumber, NodeAssumption DEF DfsTree, Tree

(* If d dominates w, it dominates what lies between them in the tree.      *)
LEMMA DominatesBetween ==
  ASSUME NEW s, NEW par, NEW num, DfsTree(s, par, num),
         NEW d \in Node, NEW u \in Node, NEW w \in Node,
         Dominates(s, d, w), Anc(par, u, w), num[d] < num[u]
  PROVE  Dominates(s, d, u)
<1>0. /\ num \in [Node -> Nat \ {0}] /\ Tree(par, num)
      /\ \A n \in Node \ {Entry} : n \in s[par[n]] /\ par[n] \in Node
  BY DEF Tree, DfsTree
<1>1. d # w /\ d # u
  <2>1. num[u] <= num[w]
    BY <1>0, AncNumber
  <2> QED BY <1>0, <2>1
<1>2. PICK S \in SUBSET (Node \ {d, w}) :
        Entry \in S \cup {d} /\ \A m \in S : s[m] \subseteq S \cup {d}
  BY <1>1 DEF Dominates
<1>3. CASE u \notin S
  BY <1>1, <1>2, <1>3 DEF Dominates
<1>4. CASE u \in S
  <2>1. \A x \in Node \ {Entry} : Anc(par, u, par[x]) /\ num[u] < num[x] /\ par[x] \in S => x \in S
    <3> SUFFICES ASSUME NEW x \in Node \ {Entry}, num[u] < num[x], par[x] \in S PROVE x \in S
      OBVIOUS
    <3>1. x \in S \cup {d}
      BY <1>0, <1>2
    <3>2. x # d
      BY <1>0
    <3> QED BY <3>1, <3>2
  <2>2. w \in S
    BY <1>0, <1>4, <2>1, AncDownwards
  <2> QED BY <1>2, <2>2
<1> QED BY <1>3, <1>4

-----------------------------------------------------------------------------
(* Semidominators.  High(w): the blocks from which a path leads to w       *)
(* through blocks numbered above w.                                        *)
HighClosed(s, num, w, S) ==
  \A p \in Node : num[p] > num[w] /\ s[p] \cap S # {} => p \in S
High(s, num, w) ==
  {x \in Node : \A S \in SUBSET Node : w \in S /\ HighClosed(s, num, w, S) => x \in S}

(* The number of the semidominator of w: the lowest number of a block with *)
(* an edge to one of these.                                                *)
From(s, num, w) == {num[p] : p \in {q \in Node : s[q] \cap High(s, num, w) # {}}}
Low(s, num, w) == CHOOSE k \in From(s, num, w) : \A j \in From(s, num, w) : k <= j

LEMMA HighFacts ==
  ASSUME NEW s, NEW num, NEW w \in Node
  PROVE  /\ High(s, num, w) \in SUBSET Node
         /\ w \in High(s, num, w)
         /\ HighClosed(s, num, w, High(s, num, w))
         /\ \A S \in SUBSET Node :
              w \in S /\ HighClosed(s, num, w, S) => High(s, num, w) \subseteq S
<1> DEFINE H == High(s, num, w)
<1>1. H \in SUBSET Node /\ w \in H
  BY DEF High
<1>2. \A S \in SUBSET Node : w \in S /\ HighClosed(s, num, w, S) => H \subseteq S
  BY DEF High
<1>3. HighClosed(s, num, w, H)
  <2> SUFFICES ASSUME NEW p \in Node, num[p] > num[w], NEW x \in s[p], x \in H
               PROVE  p \in H
    BY DEF HighClosed
  <2> SUFFICES ASSUME NEW S \in SUBSET Node, w \in S, HighClosed(s, num, w, S)
               PROVE  p \in S
    BY DEF High
  <2>1. x \in S
    BY <1>2
  <2> QED BY <2>1 DEF HighClosed
<1> QED BY <1>1, <1>2, <1>3

LEMMA HighNumber ==
  ASSUME NEW s, NEW num \in [Node -> Nat \ {0}], NEW w \in Node, NEW x \in High(s, num, w)
  PROVE  x \in Node /\ (x # w => num[x] > num[w])
<1> DEFINE S == {y \in Node : y # w => num[y] > num[w]}
<1>1. w \in S /\ HighClosed(s, num, w, S) /\ S \in SUBSET Node
  BY DEF HighClosed
<1> HIDE DEF S
<1>2. x \in S
  BY <1>1, HighFacts
<1> QED BY <1>2 DEF S

(* An edge from below w to one of these comes from an ancestor of w.       *)
LEMMA BelowHigh ==
  ASSUME NEW s, NEW par, NEW num, DfsTree(s, par, num),
         NEW w \in Node, NEW q \in Node, NEW x \in High(s, num, w), x \in s[q],
         num[q] < num[w]
  PROVE  Anc(par, q, w)
<1>1. num \in [Node -> Nat \ {0}]
  BY DEF Tree, DfsTree
<1>2. x \in Node /\ num[w] <= num[x]
  BY <1>1, HighNumber
<1>3. num[q] \in Nat /\ num[w] \in Nat /\ num[x] \in Nat
  BY <1>1, <1>2
<1>4. num[q] <= num[w] /\ num[q] <= num[x]
  BY <1>2, <1>3
<1>5. Anc(par, q, x)
  BY <1>4 DEF DfsTree
<1> QED BY <1>2, <1>4, <1>5 DEF DfsTree

(* The semidominator is a proper ancestor. *)
LEMMA LowFacts ==
  ASSUME NEW s, NEW par, NEW num, DfsTree(s, par, num), NEW w \in Node \ {Entry}
  PROVE  /\ \E q \in Node : /\ Low(s, num, w) = num[q]
                            /\ \E x \in High(s, num, w) : x \in s[q]
                            /\ num[q] < num[w] /\ Anc(par, q, w)
         /\ \A q \in Node, x \in High(s, num, w) : x \in s[q] => Low(s, num, w) <= num[q]
<1> DEFINE F == From(s, num, w)
<1>1. num \in [Node -> Nat \ {0}] /\ par[w] \in Node /\ num[par[w]] < num[w] /\ w \in s[par[w]]
  BY DEF Tree, DfsTree
<1>2. F \subseteq Nat
  BY <1>1 DEF From
<1>3. \A q \in Node, x \in High(s, num, w) : x \in s[q] => num[q] \in F
  BY DEF From
<1>4. num[par[w]] \in F
  BY <1>1, <1>3, HighFacts
<1> HIDE DEF F
<1>5. \E k \in F : \A j \in F : k <= j
  BY <1>2, <1>4, Least
<1>6. Low(s, num, w) \in F /\ \A j \in F : Low(s, num, w) <= j
  BY <1>5 DEF Low, F
<1>7. PICK q \in Node : Low(s, num, w) = num[q] /\ s[q] \cap High(s, num, w) # {}
  BY <1>6 DEF From, F
<1>8. num[q] <= num[par[w]]
  BY <1>4, <1>6, <1>7
<1>9. num[q] < num[w]
  <2>1. num[q] \in Nat /\ num[w] \in Nat /\ num[par[w]] \in Nat
    BY <1>1
  <2> QED BY <1>1, <1>8, <2>1
<1>10. PICK x \in High(s, num, w) : x \in s[q]
  BY <1>7
<1>11. Anc(par, q, w)
  BY <1>9, <1>10, BelowHigh
<1> QED BY <1>3, <1>6, <1>7, <1>9, <1>10, <1>11

(* A dominator of w, other than w, dominates the semidominator of w.       *)
LEMMA DominatesLow ==
  ASSUME NEW s, NEW par, NEW num, DfsTree(s, par, num), NEW w \in Node \ {Entry},
         NEW q \in Node, Low(s, num, w) = num[q],
         NEW d \in Node, Dominates(s, d, w), d # w
  PROVE  Dominates(s, d, q)
<1>1. /\ num \in [Node -> Nat \ {0}] /\ Tree(par, num)
      /\ \A x, y \in Node : num[x] = num[y] => x = y
  BY DEF Tree, DfsTree
<1>2. PICK x \in High(s, num, w) : x \in s[q]
  BY <1>1, LowFacts
<1>3. num[d] < num[w]
  BY <1>1, DominatorAbove, AncNumber
<1>4. PICK S \in SUBSET (Node \ {d, w}) :
        Entry \in S \cup {d} /\ \A m \in S : s[m] \subseteq S \cup {d}
  BY DEF Dominates
<1> DEFINE C == Node \ (S \cup {d})
<1>5. w \in C /\ C \in SUBSET Node
  BY <1>4
<1>6. HighClosed(s, num, w, C)
  <2> SUFFICES ASSUME NEW p \in Node, num[p] > num[w], NEW y \in s[p], y \in C
               PROVE  p \in C
    BY DEF HighClosed
  <2>1. p \notin S
    BY <1>4
  <2>2. p # d
    BY <1>1, <1>3
  <2> QED BY <2>1, <2>2
<1>7. x \in C
  <2> HIDE DEF C
  <2> QED BY <1>5, <1>6, HighFacts
<1>8. q \notin S
  BY <1>2, <1>4, <1>7
<1> QED BY <1>4, <1>8 DEF Dominates

(* A block above w dominates it when no semidominator of the blocks        *)
(* between them is above that block.                                       *)
LEMMA AboveDominates ==
  ASSUME NEW s, NEW par, NEW num, DfsTree(s, par, num), NEW w \in Node,
         NEW a \in Node, Anc(par, a, w),
         \A y \in Node : Anc(par, y, w) /\ num[a] < num[y] => num[a] <= Low(s, num, y)
  PROVE  Dominates(s, a, w)
<1>1. /\ num \in [Node -> Nat \ {0}] /\ Tree(par, num) /\ s \in FlowGraphs
      /\ \A x, y \in Node : num[x] = num[y] => x = y
      /\ \A n \in Node \ {Entry} : par[n] \in Node /\ num[par[n]] < num[n]
  BY DEF Tree, DfsTree
<1>2. SUFFICES ASSUME a # w PROVE Dominates(s, a, w)
  BY DEF Dominates
<1> DEFINE P == {y \in Node : Anc(par, y, w) /\ num[a] < num[y]}
           U == UNION {High(s, num, y) : y \in P}
           S == Node \ ({a} \cup U)
<1>3. w \in P
  BY <1>1, <1>2, AncSelf, AncNumber
<1>4. w \in U
  BY <1>3, HighFacts
<1>5. \A x \in U : x \in Node /\ num[a] < num[x]
  <2> SUFFICES ASSUME NEW y \in P, NEW x \in High(s, num, y) PROVE x \in Node /\ num[a] < num[x]
    OBVIOUS
  <2>1. x \in Node /\ (x # y => num[x] > num[y])
    BY <1>1, HighNumber
  <2> QED BY <1>1, <2>1
<1>6. \A y \in P : y # Entry
  <2> SUFFICES ASSUME Entry \in P PROVE FALSE
    OBVIOUS
  <2>1. Anc(par, Entry, w)
    OBVIOUS
  <2>2. num[Entry] \in Nat /\ num[a] \in Nat /\ num[a] < num[Entry]
    BY <1>1
  <2>3. Anc(par, a, Entry)
    <3>1. num[a] <= num[Entry]
      BY <2>2
    <3> QED BY <1>1, <2>1, <3>1, AncChain
  <2>4. a = Entry
    BY <1>1, <2>3, AncOfChild, NodeAssumption DEF Tree
  <2> QED BY <2>2, <2>4
<1>7. Entry \in S \cup {a}
  <2> SUFFICES ASSUME Entry \in U PROVE FALSE
    BY NodeAssumption
  <2>1. PICK y \in P : Entry \in High(s, num, y)
    OBVIOUS
  <2>2. Entry # y /\ y \in Node
    BY <1>6, <2>1
  <2>3. num[Entry] > num[y]
    BY <1>1, <2>1, <2>2, HighNumber
  <2>4. num[Entry] <= num[y] /\ num[y] \in Nat /\ num[Entry] \in Nat
    BY <2>2, EntryLowest
  <2> QED BY <2>3, <2>4
<1>8. ASSUME NEW m \in S, NEW x \in s[m] PROVE x \in S \cup {a}
  <2>1. x \in Node /\ m \in Node /\ m # a /\ m \notin U
    BY <1>1, GraphFacts
  <2>2. SUFFICES ASSUME x \in U PROVE FALSE
    BY <2>1
  <2>3. PICK y \in P : x \in High(s, num, y)
    BY <2>2
  <2>4. m \notin High(s, num, y) /\ y \in Node /\ y # Entry
    BY <1>6, <2>1, <2>3
  <2>5. ~(num[m] > num[y]) /\ m # y
    <3>1. HighClosed(s, num, y, High(s, num, y)) /\ y \in High(s, num, y)
      BY <2>4, HighFacts
    <3> QED BY <2>1, <2>3, <2>4, <3>1 DEF HighClosed
  <2>6. num[m] < num[y]
    BY <1>1, <2>1, <2>4, <2>5
  <2>7. Anc(par, m, y)
    BY <2>1, <2>3, <2>4, <2>6, BelowHigh
  <2>8. Low(s, num, y) <= num[m]
    BY <2>1, <2>3, <2>4, LowFacts
  <2>9. num[a] <= Low(s, num, y) /\ Low(s, num, y) \in Nat
    <3>1. Low(s, num, y) \in Nat
      BY <1>1, <2>4, LowFacts
    <3>2. y \in Node /\ Anc(par, y, w) /\ num[a] < num[y]
      OBVIOUS
    <3> QED BY <3>1, <3>2
  <2>10. num[a] < num[m]
    BY <1>1, <2>1, <2>8, <2>9
  <2>11. Anc(par, m, w)
    BY <2>7, AncTrans
  <2>12. m \in P
    BY <2>1, <2>10, <2>11
  <2>13. m \in U
    <3>1. m \in High(s, num, m)
      BY <2>1, HighFacts
    <3> QED BY <2>12, <3>1
  <2> QED BY <2>1, <2>13
<1>9. S \in SUBSET (Node \ {a, w})
  BY <1>4
<1>10. \A m \in S : s[m] \subseteq S \cup {a}
  BY <1>8
<1> HIDE DEF S
<1> QED BY <1>7, <1>9, <1>10 DEF Dominates

-----------------------------------------------------------------------------
(* The immediate dominator is the only strict dominator that all dominate. *)
LEMMA IdomUnique ==
  ASSUME NEW s \in FlowGraphs, NEW n \in Node \ {Entry}, NEW d \in Node \ {n},
         Dominates(s, d, n),
         \A a \in Node : Dominates(s, a, n) /\ a # n => Dominates(s, a, d)
  PROVE  Idom(s, n) = d
<1>1. Idom(s, n) \in Node /\ Dominates(s, d, Idom(s, n))
  BY IdomFacts
<1>2. Idom(s, n) # n /\ Dominates(s, Idom(s, n), n)
  BY IdomFacts DEF Dominates
<1>3. Dominates(s, Idom(s, n), d)
  BY <1>1, <1>2
<1> QED BY <1>1, <1>3, DominatesAntisym

(* No block between w and its semidominator has a lower semidominator:     *)
(* the semidominator is the immediate dominator.                           *)
LEMMA LowIsIdom ==
  ASSUME NEW s, NEW par, NEW num, DfsTree(s, par, num), NEW w \in Node \ {Entry},
         NEW q \in Node, Low(s, num, w) = num[q],
         \A y \in Node : Anc(par, y, w) /\ num[q] < num[y] => Low(s, num, w) <= Low(s, num, y)
  PROVE  Idom(s, w) = q
<1>1. /\ num \in [Node -> Nat \ {0}] /\ s \in FlowGraphs
      /\ \A x, y \in Node : num[x] = num[y] => x = y
  BY DEF Tree, DfsTree
<1>2. Anc(par, q, w) /\ num[q] < num[w]
  BY <1>1, LowFacts
<1>3. Dominates(s, q, w)
  BY <1>2, AboveDominates
<1>4. q # w
  BY <1>1, <1>2
<1>5. \A a \in Node : Dominates(s, a, w) /\ a # w => Dominates(s, a, q)
  BY DominatesLow
<1> QED BY <1>1, <1>3, <1>4, <1>5, IdomUnique

(* Otherwise a block between them with the lowest one has the same         *)
(* immediate dominator.                                                    *)
LEMMA SameIdom ==
  ASSUME NEW s, NEW par, NEW num, DfsTree(s, par, num), NEW w \in Node \ {Entry},
         NEW q \in Node, Low(s, num, w) = num[q],
         NEW u \in Node, Anc(par, u, w), num[q] < num[u],
         Low(s, num, u) <= Low(s, num, w),
         \A y \in Node : Anc(par, y, w) /\ num[q] < num[y] => Low(s, num, u) <= Low(s, num, y)
  PROVE  Idom(s, u) = Idom(s, w)
<1>1. /\ num \in [Node -> Nat \ {0}] /\ s \in FlowGraphs /\ Tree(par, num)
      /\ \A x, y \in Node : num[x] = num[y] => x = y
  BY DEF Tree, DfsTree
<1>2. Anc(par, q, w) /\ num[q] < num[w]
  BY <1>1, LowFacts
<1>3. num[u] <= num[w]
  BY <1>1, AncNumber
<1>4. Anc(par, q, u)
  <2>1. num[q] <= num[u]
    BY <1>1
  <2> QED BY <1>1, <1>2, <2>1, AncChain
<1>5. u \in Node \ {Entry}
  <2>1. u # q
    BY <1>1
  <2>2. par[u] \in Node
    BY <1>4, <2>1, AncOfChild
  <2> QED BY <1>1, <2>2, NodeAssumption DEF Tree
<1> DEFINE d == Idom(s, w)
           e == Idom(s, u)
<1>6. /\ d \in Node \ {w} /\ Dominates(s, d, w)
      /\ \A a \in Node : a # w /\ Dominates(s, a, w) => Dominates(s, a, d)
  <2>1. Dominates(s, d, d)
    BY DEF Dominates
  <2> QED BY <1>1, <2>1, IdomFacts
<1>7. /\ e \in Node \ {u} /\ Dominates(s, e, u)
      /\ \A a \in Node : a # u /\ Dominates(s, a, u) => Dominates(s, a, e)
  <2>1. Dominates(s, e, e)
    BY DEF Dominates
  <2> QED BY <1>1, <1>5, <2>1, IdomFacts
<1> HIDE DEF d, e
<1>8. num[d] <= num[q]
  <2>1. Dominates(s, d, q)
    BY <1>6, DominatesLow
  <2> QED BY <1>1, <1>6, <2>1, DominatorAbove, AncNumber
<1>9. num[d] < num[u]
  BY <1>1, <1>6, <1>8
<1>10. Dominates(s, d, e)
  <2>1. Dominates(s, d, u)
    BY <1>6, <1>9, DominatesBetween
  <2> QED BY <1>1, <1>6, <1>7, <1>9, <2>1
<1>11. PICK v \in Node : Low(s, num, u) = num[v] /\ num[v] < num[u]
  BY <1>5, LowFacts
<1>12. num[e] <= num[v]
  <2>1. Dominates(s, e, v)
    BY <1>5, <1>7, <1>11, DominatesLow
  <2> QED BY <1>1, <1>7, <1>11, <2>1, DominatorAbove, AncNumber
<1>13. Anc(par, e, u) /\ num[e] < num[u]
  BY <1>1, <1>7, DominatorAbove, AncNumber
<1>14. Anc(par, e, w)
  BY <1>13, AncTrans
<1>15. ASSUME NEW y \in Node, Anc(par, y, w), num[e] < num[y]
       PROVE  num[e] <= Low(s, num, y)
  <2>1. CASE num[q] < num[y]
    <3>1. num[v] <= Low(s, num, y)
      BY <1>11, <1>15, <2>1
    <3>2. Low(s, num, y) \in Nat
      <4>1. y # Entry
        <5>1. Anc(par, q, y)
          <6>1. num[q] <= num[y]
            BY <1>1, <2>1
          <6> QED BY <1>1, <1>2, <1>15, <6>1, AncChain
        <5>2. q # y
          BY <1>1, <2>1
        <5>3. par[y] \in Node
          BY <5>1, <5>2, AncOfChild
        <5> QED BY <1>1, <5>3, NodeAssumption DEF Tree
      <4> QED BY <1>1, <4>1, LowFacts
    <3> QED BY <1>1, <1>7, <1>11, <1>12, <3>1, <3>2
  <2>2. CASE ~(num[q] < num[y])
    <3>1. num[y] <= num[u]
      BY <1>1, <2>2
    <3>2. Anc(par, y, u)
      BY <1>1, <1>15, <3>1, AncChain
    <3>3. Dominates(s, e, y)
      BY <1>7, <1>15, <3>2, DominatesBetween
    <3>4. e # y
      BY <1>1, <1>15
    <3>5. y # Entry
      BY <1>7, <3>3, <3>4, NodeAssumption DEF Dominates
    <3>6. PICK z \in Node : Low(s, num, y) = num[z]
      BY <3>5, LowFacts
    <3>7. Dominates(s, e, z)
      BY <1>7, <3>3, <3>4, <3>5, <3>6, DominatesLow
    <3> QED BY <1>1, <1>7, <3>6, <3>7, DominatorAbove, AncNumber
  <2> QED BY <2>1, <2>2
<1>16. Dominates(s, e, w)
  BY <1>7, <1>14, <1>15, AboveDominates
<1>17. Dominates(s, e, d)
  <2>1. e # w
    BY <1>1, <1>3, <1>7, <1>13
  <2> QED BY <1>6, <1>7, <1>16, <2>1
<1>18. d = e
  BY <1>1, <1>6, <1>7, <1>10, <1>17, DominatesAntisym
<1> QED BY <1>18 DEF d, e

-----------------------------------------------------------------------------
(* How the semidominator of w is found: from the predecessors below w and  *)
(* from the semidominators of the ancestors above w of the others.         *)

(* The blocks above w that lead to w lead there with their ancestors.      *)
LEMMA HighUpwards ==
  ASSUME NEW s, NEW par, NEW num, DfsTree(s, par, num), NEW w \in Node,
         NEW p \in High(s, num, w), NEW y, Anc(par, y, p), num[y] > num[w]
  PROVE  y \in High(s, num, w)
<1>1. /\ num \in [Node -> Nat \ {0}] /\ Tree(par, num)
      /\ \A n \in Node \ {Entry} : n \in s[par[n]] /\ par[n] \in Node /\ num[par[n]] < num[n]
  BY DEF DfsTree, Tree
<1> DEFINE H == High(s, num, w)
           S == {x \in Node : num[x] > num[w] => x \in H}
<1>2. H \in SUBSET Node /\ HighClosed(s, num, w, H)
  BY HighFacts
<1>3. p \in S
  BY <1>2
<1>4. ASSUME NEW x \in S, par[x] \in Node PROVE par[x] \in S
  <2>1. x # Entry
    BY <1>1, <1>4, NodeAssumption DEF Tree
  <2>2. num[par[x]] > num[w] => num[x] > num[w]
    <3>1. num[par[x]] \in Nat /\ num[x] \in Nat /\ num[w] \in Nat /\ num[par[x]] < num[x]
      BY <1>1, <1>4, <2>1
    <3> QED BY <3>1
  <2>3. x \in s[par[x]]
    BY <1>1, <2>1
  <2> QED BY <1>2, <1>4, <2>2, <2>3 DEF HighClosed
<1>5. y \in S
  <2> HIDE DEF S
  <2>1. S \in SUBSET Node
    BY DEF S
  <2> QED BY <1>3, <1>4, <2>1, AncUpwards
<1> QED BY <1>5

(* Such a block's semidominator is not below that of w.                    *)
LEMMA LowOfHigh ==
  ASSUME NEW s, NEW par, NEW num, DfsTree(s, par, num), NEW w \in Node \ {Entry},
         NEW y \in High(s, num, w), y # Entry
  PROVE  Low(s, num, w) <= Low(s, num, y)
<1>1. num \in [Node -> Nat \ {0}]
  BY DEF DfsTree, Tree
<1>2. y \in Node /\ (y # w => num[y] > num[w])
  BY <1>1, HighNumber
<1> DEFINE H == High(s, num, w)
<1>3. H \in SUBSET Node /\ HighClosed(s, num, w, H) /\ y \in H
  BY HighFacts
<1>4. HighClosed(s, num, y, H)
  <2> SUFFICES ASSUME NEW p \in Node, num[p] > num[y], s[p] \cap H # {} PROVE p \in H
    BY DEF HighClosed
  <2>1. num[p] > num[w]
    <3>1. num[p] \in Nat /\ num[y] \in Nat /\ num[w] \in Nat
      BY <1>1, <1>2
    <3> QED BY <1>2, <3>1
  <2> QED BY <1>3, <2>1 DEF HighClosed
<1>5. High(s, num, y) \subseteq H
  <2> HIDE DEF H
  <2> QED BY <1>2, <1>3, <1>4, HighFacts
<1>6. PICK q \in Node : Low(s, num, y) = num[q] /\ \E x \in High(s, num, y) : x \in s[q]
  BY <1>2, LowFacts
<1>7. Low(s, num, w) <= num[q]
  BY <1>5, <1>6, LowFacts
<1> QED BY <1>6, <1>7

(* m bounds what w learns from its predecessor p.                          *)
Bounds(s, par, num, w, p, m) ==
  IF num[p] <= num[w] THEN m <= num[p]
  ELSE \A y \in Node : Anc(par, y, p) /\ num[y] > num[w] => m <= Low(s, num, y)

(* What it learns is not below its semidominator ... *)
LEMMA LowBounds ==
  ASSUME NEW s, NEW par, NEW num, DfsTree(s, par, num), NEW w \in Node \ {Entry},
         NEW p \in Node, w \in s[p]
  PROVE  Bounds(s, par, num, w, p, Low(s, num, w))
<1>1. num \in [Node -> Nat \ {0}]
  BY DEF DfsTree, Tree
<1>2. w \in High(s, num, w) /\ HighClosed(s, num, w, High(s, num, w))
  BY HighFacts
<1>3. Low(s, num, w) <= num[p]
  BY <1>2, LowFacts
<1>4. ASSUME num[p] > num[w], NEW y \in Node, Anc(par, y, p), num[y] > num[w]
      PROVE  Low(s, num, w) <= Low(s, num, y)
  <2>1. p \in High(s, num, w)
    BY <1>2, <1>4 DEF HighClosed
  <2>2. y \in High(s, num, w)
    BY <1>4, <2>1, HighUpwards
  <2>3. y # Entry
    <3>1. SUFFICES ASSUME y = Entry PROVE FALSE
      OBVIOUS
    <3>2. num[Entry] <= num[w] /\ num[Entry] \in Nat /\ num[w] \in Nat
      BY EntryLowest
    <3> QED BY <1>4, <3>1, <3>2
  <2> QED BY <2>2, <2>3, LowOfHigh
<1> QED BY <1>1, <1>3, <1>4 DEF Bounds

(* ... and nothing more bounds it: it is the least of what w learns.       *)
LEMMA LowIsLeast ==
  ASSUME NEW s, NEW par, NEW num, DfsTree(s, par, num), NEW w \in Node \ {Entry},
         NEW m \in Nat, \A p \in Node : w \in s[p] => Bounds(s, par, num, w, p, m)
  PROVE  m <= Low(s, num, w)
<1>1. /\ num \in [Node -> Nat \ {0}] /\ Tree(par, num) /\ s \in FlowGraphs
      /\ par[w] \in Node /\ num[par[w]] < num[w] /\ w \in s[par[w]]
      /\ \A x, y \in Node : num[x] = num[y] => x = y
      /\ \A v \in Node : \A u \in s[v] : num[v] <= num[u] => Anc(par, v, u)
      /\ \A v, u, x \in Node :
           num[v] <= num[u] /\ num[u] <= num[x] /\ Anc(par, v, x) => Anc(par, v, u)
  BY DEF DfsTree, Tree
<1>E. \A y \in Node : num[y] > num[w] => y # Entry
  <2>1. num[Entry] <= num[w] /\ num[Entry] \in Nat /\ num[w] \in Nat
    BY EntryLowest
  <2> QED BY <2>1
<1>L. \A y \in Node \ {Entry} : Low(s, num, y) \in Nat
  BY <1>1, LowFacts
<1> DEFINE Fine(x) == \A y \in Node : Anc(par, y, x) /\ num[y] > num[w] => m <= Low(s, num, y)
           B == {x \in Node : num[x] > num[w] /\ Fine(x)} \cup {w}
<1>2. ASSUME NEW p \in Node, num[p] > num[w], NEW x \in s[p], x \in B
      PROVE  p \in B
  <2>1. CASE x = w
    <3>1. Bounds(s, par, num, w, p, m)
      BY <1>2, <2>1
    <3>2. ~(num[p] <= num[w])
      BY <1>1, <1>2
    <3> QED BY <1>2, <3>1, <3>2 DEF Bounds
  <2>2. CASE x # w
    <3>1. x \in Node /\ num[x] > num[w] /\ Fine(x)
      BY <1>2, <2>2
    <3>2. ASSUME NEW y \in Node, Anc(par, y, p), num[y] > num[w]
          PROVE  m <= Low(s, num, y)
      <4>0. num[x] \in Nat /\ num[y] \in Nat /\ num[p] \in Nat /\ num[w] \in Nat
        BY <1>1, <3>1
      <4>1. CASE Anc(par, y, x)
        BY <3>1, <3>2, <4>1
      <4>2. CASE ~Anc(par, y, x)
        <5>1. ~(num[p] <= num[x])
          <6>1. SUFFICES ASSUME num[p] <= num[x] PROVE FALSE
            OBVIOUS
          <6>2. Anc(par, p, x)
            BY <1>1, <1>2, <6>1
          <6> QED BY <3>2, <4>2, <6>2, AncTrans
        <5>2. ~(num[y] <= num[x])
          <6>1. num[x] <= num[p]
            BY <4>0, <5>1
          <6> QED BY <1>1, <3>1, <3>2, <4>2, <6>1
        <5>3. num[p] > num[x] /\ num[y] > num[x]
          BY <4>0, <5>1, <5>2
        <5>4. x \in High(s, num, x) /\ HighClosed(s, num, x, High(s, num, x))
          BY <3>1, HighFacts
        <5>5. p \in High(s, num, x)
          BY <1>2, <5>3, <5>4 DEF HighClosed
        <5>6. y \in High(s, num, x)
          BY <3>1, <3>2, <5>3, <5>5, HighUpwards
        <5>7. x # Entry /\ y # Entry
          BY <1>E, <3>1, <3>2
        <5>8. Low(s, num, x) <= Low(s, num, y)
          BY <3>1, <5>6, <5>7, LowOfHigh
        <5>9. m <= Low(s, num, x)
          BY <3>1, AncSelf
        <5> QED BY <1>L, <3>1, <5>7, <5>8, <5>9
      <4> QED BY <4>1, <4>2
    <3> QED BY <1>2, <3>2
  <2> QED BY <2>1, <2>2
<1>3. w \in B /\ B \in SUBSET Node /\ HighClosed(s, num, w, B)
  <2>1. HighClosed(s, num, w, B)
    <3> HIDE DEF B
    <3> QED BY <1>2 DEF HighClosed
  <2> QED BY <2>1
<1>4. High(s, num, w) \subseteq B
  <2> HIDE DEF B
  <2> QED BY <1>3, HighFacts
<1>5. PICK q \in Node : /\ Low(s, num, w) = num[q] /\ num[q] < num[w]
                        /\ \E x \in High(s, num, w) : x \in s[q]
  BY LowFacts
<1>6. PICK x \in High(s, num, w) : x \in s[q]
  BY <1>5
<1>7. CASE x = w
  <2>1. num[q] <= num[w]
    BY <1>1, <1>5
  <2> QED BY <1>5, <1>6, <1>7, <2>1 DEF Bounds
<1>8. CASE x # w
  <2>1. x \in Node /\ num[x] > num[w] /\ Fine(x)
    BY <1>4, <1>8
  <2>2. m <= Low(s, num, x)
    BY <2>1, AncSelf
  <2>3. x \in High(s, num, x) /\ x # Entry
    BY <1>E, <2>1, HighFacts
  <2>4. Low(s, num, x) <= num[q]
    BY <1>5, <1>6, <2>1, <2>3, LowFacts
  <2>5. Low(s, num, x) \in Nat /\ num[q] \in Nat
    BY <1>1, <1>L, <2>1, <2>3
  <2> QED BY <1>5, <2>2, <2>4, <2>5
<1> QED BY <1>7, <1>8

-----------------------------------------------------------------------------
(* The depth-first search: an edge to the present from a call that has not *)
(* returned.                                                               *)
LEMMA FrameIsLast ==
  ASSUME NEW s, NEW ord \in Seq(Node), Frame(s, ord) # NoNode
  PROVE  \E f \in 1 .. Len(ord) :
           /\ Frame(s, ord) = ord[f]
           /\ ~(s[ord[f]] \subseteq Visited(ord))
           /\ \A k \in 1 .. Len(ord) : ~(s[ord[k]] \subseteq Visited(ord)) => k <= f
<1> DEFINE open == {k \in 1 .. Len(ord) : ~(s[ord[k]] \subseteq Visited(ord))}
<1>1. open # {}
  BY DEF Frame
<1>2. Len(ord) \in Nat /\ open \subseteq 1 .. Len(ord)
  OBVIOUS
<1>3. \E k \in open : \A m \in open : m <= k
  <2> HIDE DEF open
  <2> QED BY <1>1, <1>2, Greatest
<1>4. Frame(s, ord) = ord[CHOOSE k \in open : \A m \in open : m <= k]
  BY <1>1 DEF Frame
<1> DEFINE f == CHOOSE k \in open : \A m \in open : m <= k
<1>5. f \in open /\ \A m \in open : m <= f
  <2> HIDE DEF open
  <2> QED BY <1>3
<1> HIDE DEF f
<1>6. Frame(s, ord) = ord[f]
  BY <1>4 DEF f
<1> QED BY <1>5, <1>6

(* A new leaf changes nobody's ancestors. *)
LEMMA AncKept ==
  ASSUME NEW par \in [Node -> Node \cup {NoNode}], NEW V \in SUBSET Node,
         \A x \in V : par[x] \in Node => par[x] \in V,
         NEW n \in Node \ V, NEW f \in Node, NEW a, NEW b \in V
  PROVE  Anc([par EXCEPT ![n] = f], a, b) <=> Anc(par, a, b)
<1> DEFINE q == [par EXCEPT ![n] = f]
<1>1. \A x \in V : q[x] = par[x]
  OBVIOUS
<1> HIDE DEF q
<1>2. ASSUME Anc(par, a, b), NEW S \in SUBSET Node, b \in S,
             \A x \in S : q[x] \in Node => q[x] \in S
      PROVE  a \in S
  <2>1. \A x \in S \cap V : par[x] \in Node => par[x] \in S \cap V
    BY <1>1, <1>2
  <2>2. a \in S \cap V
    BY <1>2, <2>1, AncUpwards
  <2> QED BY <2>2
<1>3. ASSUME Anc(q, a, b), NEW S \in SUBSET Node, b \in S,
             \A x \in S : par[x] \in Node => par[x] \in S
      PROVE  a \in S
  <2>1. \A x \in S \cap V : q[x] \in Node => q[x] \in S \cap V
    BY <1>1, <1>3
  <2>2. a \in S \cap V
    BY <1>3, <2>1, AncUpwards
  <2> QED BY <2>2
<1>4. Anc(par, a, b) => Anc(q, a, b)
  BY <1>2 DEF Anc
<1>5. Anc(q, a, b) => Anc(par, a, b)
  BY <1>3 DEF Anc
<1> QED BY <1>4, <1>5 DEF q

(* The tree grown so far.  An edge from an open call leads down, and the   *)
(* blocks below one are visited one after the other.                       *)
Open(s, ord, k) == ~(s[ord[k]] \subseteq Visited(ord))

SearchTree(s, ord, par) ==
  /\ ord \in Seq(Node) /\ Len(ord) >= 1 /\ ord[1] = Entry
  /\ \A j, k \in 1 .. Len(ord) : ord[j] = ord[k] => j = k
  /\ par \in [Node -> Node \cup {NoNode}] /\ par[Entry] = NoNode
  /\ \A k \in 2 .. Len(ord) : \E j \in 1 .. k - 1 : par[ord[k]] = ord[j] /\ ord[k] \in s[ord[j]]
  /\ \A j, k \in 1 .. Len(ord) : j <= k /\ Open(s, ord, j) => Anc(par, ord[j], ord[k])
  /\ \A j, k \in 1 .. Len(ord) : j <= k /\ ord[k] \in s[ord[j]] => Anc(par, ord[j], ord[k])
  /\ \A h, j, k \in 1 .. Len(ord) :
       h <= j /\ j <= k /\ Anc(par, ord[h], ord[k]) => Anc(par, ord[h], ord[j])

LEMMA SearchTreeStep ==
  ASSUME NEW s \in FlowGraphs, NEW ord, NEW par, SearchTree(s, ord, par),
         NEW n \in Node, Visits(s, ord, n)
  PROVE  SearchTree(s, Append(ord, n), [par EXCEPT ![n] = Frame(s, ord)])
<1> DEFINE L == Len(ord)
           new == Append(ord, n)
           q == [par EXCEPT ![n] = Frame(s, ord)]
           V == Visited(ord)
<1>1. /\ ord \in Seq(Node) /\ L >= 1 /\ ord[1] = Entry /\ L \in Nat
      /\ \A j, k \in 1 .. L : ord[j] = ord[k] => j = k
      /\ par \in [Node -> Node \cup {NoNode}] /\ par[Entry] = NoNode
  BY SMTT(30) DEF SearchTree
<1>2. PICK f \in 1 .. L : /\ Frame(s, ord) = ord[f] /\ Open(s, ord, f)
                          /\ \A k \in 1 .. L : Open(s, ord, k) => k <= f
  BY <1>1, FrameIsLast DEF Visits, Open
<1>3. ord[f] \in Node /\ n \in s[ord[f]] /\ n \notin V
  BY <1>1, <1>2 DEF Visits
<1>4. /\ new \in Seq(Node) /\ Len(new) = L + 1 /\ new[L + 1] = n
      /\ \A k \in 1 .. L : new[k] = ord[k] /\ ord[k] \in V /\ ord[k] \in Node
  BY <1>1 DEF Visited
<1>5. V \in SUBSET Node /\ V \subseteq Visited(new)
  <2>1. V \in SUBSET Node
    BY <1>1 DEF Visited
  <2>2. \A k \in 1 .. L : ord[k] \in Visited(new)
    BY <1>1, <1>4 DEF Visited
  <2> QED BY <2>1, <2>2 DEF Visited
<1>6. \A x \in V : par[x] \in Node => par[x] \in V
  <2> SUFFICES ASSUME NEW k \in 1 .. L, par[ord[k]] \in Node PROVE par[ord[k]] \in V
    BY DEF Visited
  <2>1. k # 1
    BY <1>1, NodeAssumption
  <2>2. k \in 2 .. L
    BY <1>1, <2>1
  <2>3. PICK j \in 1 .. k - 1 : par[ord[k]] = ord[j]
    BY <2>2 DEF SearchTree
  <2>4. j \in 1 .. L
    BY <1>1, <2>2
  <2> QED BY <1>4, <2>3, <2>4
<1>7. \A a : \A b \in V : Anc(q, a, b) <=> Anc(par, a, b)
  BY <1>1, <1>2, <1>3, <1>5, <1>6, AncKept
<1>8. q \in [Node -> Node \cup {NoNode}] /\ q[n] = ord[f] /\ q[Entry] = NoNode
      /\ \A k \in 1 .. L : q[ord[k]] = par[ord[k]]
  <2>1. Entry \in V
    BY <1>1, <1>4
  <2> QED BY <1>1, <1>2, <1>3, <1>4, <2>1, NodeAssumption
<1> HIDE DEF new, q, L, V
<1>9. \A k \in 1 .. L : Open(s, new, k) => Open(s, ord, k)
  BY <1>4, <1>5 DEF Open, V
<1>10. \A j \in 1 .. L : Open(s, ord, j) => Anc(q, ord[j], n)
  <2> SUFFICES ASSUME NEW j \in 1 .. L, Open(s, ord, j) PROVE Anc(q, ord[j], n)
    OBVIOUS
  <2>1. j <= f
    BY <1>2
  <2>2. Anc(par, ord[j], ord[f])
    BY <2>1, <1>2 DEF SearchTree, L
  <2>3. Anc(q, ord[j], ord[f])
    BY <2>2, <1>2, <1>4, <1>7
  <2> QED BY <1>3, <1>8, <2>3, AncOfParent
<1>11. \A j, k \in 1 .. L + 1 : j <= k =>
          (j \in 1 .. L /\ k \in 1 .. L) \/ (j \in 1 .. L /\ k = L + 1) \/ (j = L + 1 /\ k = L + 1)
  BY <1>1
<1>12. ASSUME NEW j \in 1 .. L + 1, NEW k \in 1 .. L + 1, j <= k, Open(s, new, j)
       PROVE  Anc(q, new[j], new[k])
  <2>1. CASE j \in 1 .. L /\ k \in 1 .. L
    <3>1. Anc(par, ord[j], ord[k])
      BY <1>9, <1>12, <2>1 DEF SearchTree, L
    <3> QED BY <1>4, <1>7, <2>1, <3>1
  <2>2. CASE j \in 1 .. L /\ k = L + 1
    BY <1>4, <1>9, <1>10, <1>12, <2>2
  <2>3. CASE j = L + 1 /\ k = L + 1
    BY <2>3, AncSelf
  <2> QED BY <1>11, <1>12, <2>1, <2>2, <2>3
<1>13. ASSUME NEW j \in 1 .. L + 1, NEW k \in 1 .. L + 1, j <= k, new[k] \in s[new[j]]
       PROVE  Anc(q, new[j], new[k])
  <2>1. CASE j \in 1 .. L /\ k \in 1 .. L
    <3>1. ord[k] \in s[ord[j]]
      BY <1>4, <1>13, <2>1
    <3>2. Anc(par, ord[j], ord[k])
      BY <1>13, <2>1, <3>1 DEF SearchTree, L
    <3> QED BY <1>4, <1>7, <2>1, <3>2
  <2>2. CASE j \in 1 .. L /\ k = L + 1
    <3>1. n \in s[ord[j]]
      BY <1>4, <1>13, <2>2
    <3>2. Open(s, ord, j)
      BY <1>3, <3>1 DEF Open, V
    <3> QED BY <1>4, <1>10, <2>2, <3>2
  <2>3. CASE j = L + 1 /\ k = L + 1
    BY <2>3, AncSelf
  <2> QED BY <1>11, <1>13, <2>1, <2>2, <2>3
<1>14. ASSUME NEW h \in 1 .. L + 1, NEW j \in 1 .. L + 1, NEW k \in 1 .. L + 1,
              h <= j, j <= k, Anc(q, new[h], new[k])
       PROVE  Anc(q, new[h], new[j])
  <2>1. CASE k \in 1 .. L
    <3>1. h \in 1 .. L /\ j \in 1 .. L
      BY <1>1, <1>14, <2>1
    <3>2. Anc(par, ord[h], ord[k])
      BY <1>4, <1>7, <1>14, <2>1, <3>1
    <3>3. Anc(par, ord[h], ord[j])
      BY <1>14, <2>1, <3>1, <3>2 DEF SearchTree, L
    <3> QED BY <1>4, <1>7, <3>1, <3>3
  <2>2. CASE k = L + 1 /\ j = L + 1
    BY <1>14, <2>2
  <2>3. CASE k = L + 1 /\ j \in 1 .. L
    <3>1. h \in 1 .. L
      BY <1>1, <1>14, <2>3
    <3>2. Anc(q, ord[h], n) /\ ord[h] # n
      BY <1>3, <1>4, <1>14, <2>3, <3>1
    <3>3. Anc(par, ord[h], ord[f])
      BY <1>2, <1>3, <1>4, <1>7, <1>8, <3>2, AncOfChild
    <3>4. CASE j <= f
      <4>1. Anc(par, ord[h], ord[j])
        BY <1>2, <1>14, <2>3, <3>1, <3>3, <3>4 DEF SearchTree, L
      <4> QED BY <1>4, <1>7, <2>3, <3>1, <4>1
    <3>5. CASE ~(j <= f)
      <4>1. f <= j
        BY <1>2, <2>3, <3>5, <1>1
      <4>2. Anc(par, ord[f], ord[j])
        BY <1>2, <2>3, <4>1 DEF SearchTree, L
      <4>3. Anc(par, ord[h], ord[j])
        BY <3>3, <4>2, AncTrans
      <4> QED BY <1>4, <1>7, <2>3, <3>1, <4>3
    <3> QED BY <3>4, <3>5
  <2> QED BY <1>1, <1>14, <2>1, <2>2, <2>3
<1>15. ASSUME NEW k \in 2 .. L + 1
       PROVE  \E j \in 1 .. k - 1 : q[new[k]] = new[j] /\ new[k] \in s[new[j]]
  <2>1. CASE k = L + 1
    <3>1. f \in 1 .. k - 1
      BY <1>1, <1>2, <2>1
    <3> QED BY <1>2, <1>3, <1>4, <1>8, <2>1, <3>1
  <2>2. CASE k # L + 1
    <3>1. k \in 2 .. L /\ k \in 1 .. L
      BY <1>1, <2>2
    <3>2. PICK j \in 1 .. k - 1 : par[ord[k]] = ord[j] /\ ord[k] \in s[ord[j]]
      BY <3>1 DEF SearchTree, L
    <3>3. j \in 1 .. L
      BY <1>1, <3>1
    <3> QED BY <1>4, <1>8, <3>1, <3>2, <3>3
  <2> QED BY <2>1, <2>2
<1>16. ASSUME NEW j \in 1 .. L + 1, NEW k \in 1 .. L + 1, new[j] = new[k]
       PROVE  j = k
  <2>1. \A x \in 1 .. L : ord[x] # n
    BY <1>3, <1>4
  <2> QED BY <1>1, <1>4, <1>16, <2>1
<1>17. new[1] = Entry /\ Len(new) >= 1
  BY <1>1, <1>4
<1>18. SearchTree(s, new, q)
  BY <1>4, <1>8, <1>12, <1>13, <1>14, <1>15, <1>16, <1>17 DEF SearchTree
<1> QED BY <1>18 DEF new, q

(* When every block has been visited it is a depth-first tree. *)
LEMMA SearchedTree ==
  ASSUME NEW s \in FlowGraphs, NEW ord, NEW par, SearchTree(s, ord, par),
         Visited(ord) = Node, NEW num, num = [n \in Node |-> Number(ord, n)]
  PROVE  /\ DfsTree(s, par, num)
         /\ \A k \in 1 .. Len(ord) : num[ord[k]] = k
         /\ \A n \in Node : num[n] \in 1 .. Len(ord) /\ ord[num[n]] = n
<1>1. /\ ord \in Seq(Node) /\ Len(ord) \in Nat /\ ord[1] = Entry
      /\ \A j, k \in 1 .. Len(ord) : ord[j] = ord[k] => j = k
      /\ par[Entry] = NoNode
  BY DEF SearchTree
<1>2. ASSUME NEW n \in Node PROVE num[n] \in 1 .. Len(ord) /\ ord[num[n]] = n
  <2>1. PICK j \in 1 .. Len(ord) : ord[j] = n
    BY DEF Visited
  <2>2. num[n] = CHOOSE k \in 1 .. Len(ord) : ord[k] = n
    BY DEF Number
  <2> QED BY <2>1, <2>2
<1>3. ASSUME NEW k \in 1 .. Len(ord) PROVE num[ord[k]] = k
  BY SMTT(30), <1>1, <1>2
<1>4. num \in [Node -> Nat \ {0}] /\ \A x, y \in Node : num[x] = num[y] => x = y
  <2>1. \A n \in Node : num[n] \in Nat \ {0}
    BY <1>1, <1>2
  <2> QED BY <1>2, <2>1
<1>5. ASSUME NEW n \in Node \ {Entry}
      PROVE  par[n] \in Node /\ num[par[n]] < num[n] /\ n \in s[par[n]]
  <2>1. num[n] \in 2 .. Len(ord)
    <3>1. num[n] # 1
      BY <1>1, <1>2
    <3> QED BY <1>1, <1>2, <3>1
  <2>2. PICK j \in 1 .. num[n] - 1 : par[ord[num[n]]] = ord[j] /\ ord[num[n]] \in s[ord[j]]
    BY <2>1 DEF SearchTree
  <2>3. j \in 1 .. Len(ord) /\ j < num[n]
    BY <1>1, <2>1
  <2>4. par[n] = ord[j] /\ n \in s[ord[j]]
    BY <1>2, <2>2
  <2>5. ord[j] \in Node /\ num[ord[j]] = j
    BY <1>1, <1>3, <2>3
  <2> QED BY <2>3, <2>4, <2>5
<1>6. ASSUME NEW v \in Node, NEW u \in s[v], num[v] <= num[u]
      PROVE  Anc(par, v, u)
  <2>1. u \in Node
    BY GraphFacts
  <2> QED BY SMTT(30), <1>2, <1>6, <2>1 DEF SearchTree
<1>7. ASSUME NEW v \in Node, NEW u \in Node, NEW x \in Node,
             num[v] <= num[u], num[u] <= num[x], Anc(par, v, x)
      PROVE  Anc(par, v, u)
  BY SMTT(30), <1>2, <1>7 DEF SearchTree
<1>8. Tree(par, num)
  BY <1>1, <1>4, <1>5 DEF Tree
<1>9. DfsTree(s, par, num)
  BY <1>5, <1>6, <1>7, <1>8 DEF DfsTree
<1> QED BY <1>2, <1>3, <1>9

-----------------------------------------------------------------------------
(* A function that is defined by its value at a block with a lower number  *)
(* exists.                                                                 *)
Recurs(f, stop, up, base, comb) ==
  \A n \in Node : f[n] = IF n \in stop THEN base[n] ELSE comb[<<n, f[up[n]]>>]

LEMMA RecursionUpwards ==
  ASSUME NEW V, NEW num \in [Node -> Nat \ {0}], NEW K \in Nat, \A n \in Node : num[n] < K,
         NEW stop, NEW up, \A n \in Node \ stop : up[n] \in Node /\ num[up[n]] < num[n],
         NEW base \in [Node -> V], NEW comb \in [Node \X V -> V]
  PROVE  \E f \in [Node -> V] : Recurs(f, stop, up, base, comb)
<1> DEFINE Next(f) == [n \in Node |-> IF n \in stop THEN base[n] ELSE comb[<<n, f[up[n]]>>]]
           Upto(f, k) == \A n \in Node : num[n] < k => f[n] = Next(f)[n]
           T == {k \in Nat : ~(\E f \in [Node -> V] : Upto(f, k))}
<1>1. \A f \in [Node -> V] : Next(f) \in [Node -> V]
  <2> SUFFICES ASSUME NEW f \in [Node -> V], NEW n \in Node
               PROVE  (IF n \in stop THEN base[n] ELSE comb[<<n, f[up[n]]>>]) \in V
    OBVIOUS
  <2>1. CASE n \in stop
    BY <2>1
  <2>2. CASE n \notin stop
    <3>1. <<n, f[up[n]]>> \in Node \X V
      BY <2>2
    <3> QED BY <2>2, <3>1
  <2> QED BY <2>1, <2>2
<1>2. T = {}
  <2>1. SUFFICES ASSUME T # {} PROVE FALSE
    OBVIOUS
  <2>2. T \subseteq Nat
    OBVIOUS
  <2>3. PICK m \in T : \A k \in T : m <= k
    <3> HIDE DEF T
    <3> QED BY <2>1, <2>2, Least
  <2>4. CASE m = 0
    <3>1. Upto(base, 0)
      OBVIOUS
    <3> QED BY <2>3, <2>4, <3>1
  <2>5. CASE m # 0
    <3>1. m - 1 \in Nat /\ ~(m <= m - 1)
      BY <2>3, <2>5
    <3>2. PICK f \in [Node -> V] : Upto(f, m - 1)
      BY <2>3, <3>1
    <3> DEFINE h == Next(f)
    <3>3. h \in [Node -> V]
      BY <1>1
    <3>4. ASSUME NEW n \in Node, num[n] < m PROVE h[n] = Next(h)[n]
      <4>1. CASE n \in stop
        BY SMTT(30), <4>1
      <4>2. CASE n \notin stop
        <5>1. up[n] \in Node /\ num[up[n]] < m - 1
          <6>1. up[n] \in Node /\ num[up[n]] < num[n]
            BY <4>2
          <6>2. num[n] \in Nat /\ num[up[n]] \in Nat /\ m \in Nat
            BY <6>1, <2>3
          <6> QED BY <3>4, <6>1, <6>2
        <5>2. f[up[n]] = h[up[n]]
          BY <3>2, <5>1
        <5>3. h[n] = comb[<<n, f[up[n]]>>] /\ Next(h)[n] = comb[<<n, h[up[n]]>>]
          BY <4>2
        <5> QED BY <5>2, <5>3, Zenon
      <4> QED BY <4>1, <4>2
    <3>5. Upto(h, m)
      <4> HIDE DEF h, Next
      <4> QED BY <3>4
    <3> HIDE DEF h, Upto
    <3> QED BY <2>3, <3>3, <3>5
  <2> QED BY <2>4, <2>5
<1>3. PICK f \in [Node -> V] : Upto(f, K)
  BY <1>2
<1>4. \A n \in Node : f[n] = Next(f)[n]
  <2> HIDE DEF Next
  <2> QED BY <1>3
<1> QED BY <1>3, <1>4 DEF Recurs

(* A function defined by recursion over 0 .. L exists. *)
Counts(r, A, step, L) == r[0] = A /\ \A k \in 1 .. L : r[k] = step[<<k, r[k - 1]>>]

LEMMA CountedRecursion ==
  ASSUME NEW V, NEW A \in V, NEW L \in Nat,
         NEW step, \A k \in 1 .. L : \A d \in V : step[<<k, d>>] \in V
  PROVE  \E r \in [0 .. L -> V] : Counts(r, A, step, L)
<1> DEFINE Upto(r, m) == /\ r \in [0 .. m -> V] /\ r[0] = A
                         /\ \A k \in 1 .. m : r[k] = step[<<k, r[k - 1]>>]
           T == {m \in 0 .. L : ~(\E r : Upto(r, m))}
<1>1. SUFFICES ASSUME T # {} PROVE FALSE
  <2>1. L \notin T
    OBVIOUS
  <2>2. L \in 0 .. L
    OBVIOUS
  <2>3. \E r : Upto(r, L)
    BY <2>1, <2>2, Zenon
  <2> QED BY <2>3 DEF Counts
<1>2. PICK m \in T : \A x \in T : m <= x
  <2>1. T \subseteq Nat
    OBVIOUS
  <2> HIDE DEF T
  <2> QED BY <1>1, <2>1, Least
<1>3. m \in 0 .. L /\ ~(\E r : Upto(r, m))
  OBVIOUS
<1>4. m # 0
  <2>1. SUFFICES ASSUME m = 0 PROVE FALSE
    OBVIOUS
  <2>2. Upto([k \in 0 .. 0 |-> A], 0)
    OBVIOUS
  <2> HIDE DEF Upto
  <2> QED BY <1>3, <2>1, <2>2
<1>5. m - 1 \in 0 .. L /\ ~(m <= m - 1) /\ m \in 1 .. L
  BY <1>3, <1>4
<1>6. m - 1 \notin T
  BY <1>2, <1>5
<1>7. PICK r : Upto(r, m - 1)
  BY <1>5, <1>6
<1> DEFINE q == [k \in 0 .. m |-> IF k = m THEN step[<<m, r[m - 1]>>] ELSE r[k]]
<1>8. r[m - 1] \in V
  BY <1>5, <1>7
<1>9. step[<<m, r[m - 1]>>] \in V
  BY <1>5, <1>8
<1>10. q \in [0 .. m -> V] /\ q[0] = A
  BY <1>4, <1>5, <1>7, <1>9
<1>11. ASSUME NEW k \in 1 .. m PROVE q[k] = step[<<k, q[k - 1]>>]
  <2>1. k - 1 \in 0 .. m /\ k - 1 # m /\ q[k - 1] = r[k - 1]
    BY <1>5
  <2>2. CASE k = m
    BY <2>1, <2>2
  <2>3. CASE k # m
    BY <1>5, <1>7, <2>1, <2>3
  <2> QED BY <2>2, <2>3
<1>12. Upto(q, m)
  <2> HIDE DEF q
  <2> QED BY <1>10, <1>11
<1> HIDE DEF Upto, q
<1> QED BY <1>3, <1>12
=============================================================================
