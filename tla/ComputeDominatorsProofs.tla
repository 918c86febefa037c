---------------------- MODULE ComputeDominatorsProofs -----------------------
(***************************************************************************)
(* The two algorithms of analyzeGraph on every flow graph, of any size and *)
(* with the successors in any order: the sweeps of computeDominance lose   *)
(* no dominator and leave nothing else; path compression in the forest of  *)
(* Lengauer-Tarjan forgets nothing; either one leaves the dominator tree.  *)
(***************************************************************************)
EXTENDS ComputeDominators, FlowGraphProofs

(* The order the search leaves: from the entry, no block twice, and all of *)
(* them when it is over.                                                   *)
Ordered ==
  /\ order \in Seq(Node) /\ Len(order) >= 1
  /\ order[1] = Entry
  /\ \A k, m \in 1 .. Len(order) : order[k] = order[m] => k = m
Covers == phase # "dfs" => Visited(order) = Node /\ Len(order) = Cardinality(Node)

Sets ==
  /\ DOMAIN dom = Node
  /\ phase \in {"dfs", "sweep"} => dom \in [Node -> SUBSET Node]
  /\ phase \in {"sweep", "extract"} => bId \in Nat \ {0}

(* What the sweep in progress knows: nothing but the entry dominates the   *)
(* entry, and while no set has changed those passed are in balance.        *)
Balanced ==
  phase = "sweep" =>
    /\ dom[Entry] = {Entry}
    /\ ~changed =>
         \A k \in 1 .. Len(order) :
           k < bId => Sweeps!Meet(dom, order[k]) = dom[order[k]]

SweepInv ==
  /\ succs \in FlowGraphs
  /\ Ordered /\ Covers /\ Sets /\ Balanced
  /\ Sweeps!NoneLost /\ Sweeps!SweepsExact

-----------------------------------------------------------------------------
(* Dominators sees the same graph. *)
LEMMA SameGraph ==
  /\ \A s, n : Sweeps!Preds(s, n) = Preds(s, n)
  /\ \A s, n : Sweeps!Doms(s, n) = Doms(s, n)
  /\ \A s, ord : Sweeps!Frame(s, ord) = Frame(s, ord)
  /\ Sweeps!FlowGraphs = FlowGraphs
  /\ Sweeps!N = Cardinality(Node)
<1>1. \A s, a, n : Sweeps!Dominates(s, a, n) = Dominates(s, a, n)
  BY DEF Dominates, Sweeps!Dominates
<1>2. \A s, n : Sweeps!Preds(s, n) = Preds(s, n)
  BY DEF Preds, Sweeps!Preds
<1>3. \A s, n : Sweeps!Doms(s, n) = Doms(s, n)
  BY <1>1 DEF Doms, Sweeps!Doms
<1>4. \A s, ord : Sweeps!Frame(s, ord) = Frame(s, ord)
  BY DEF Frame, Sweeps!Frame, Visited, Sweeps!Visited
<1>5. Sweeps!FlowGraphs = FlowGraphs
  BY DEF FlowGraphs, Sweeps!FlowGraphs, Connected, Sweeps!Connected
<1>6. Sweeps!N = Cardinality(Node)
  BY DEF Sweeps!N, Sweeps!Cardinality, Cardinality
<1> QED BY <1>2, <1>3, <1>4, <1>5, <1>6

(* Only the entry dominates the entry. *)
LEMMA EntryDoms == ASSUME NEW s PROVE Doms(s, Entry) = {Entry}
  BY NodeAssumption DEF Doms, Dominates

(* A dominator of a block, other than itself, dominates its predecessors.  *)
LEMMA DomsOfPred ==
  ASSUME NEW s, NEW n \in Node, NEW a \in Doms(s, n) \ {n}, NEW p \in Preds(s, n)
  PROVE  a \in Doms(s, p)
<1>1. PICK S \in SUBSET (Node \ {a, n}) :
        Entry \in S \cup {a} /\ \A m \in S : s[m] \subseteq S \cup {a}
  BY DEF Doms, Dominates
<1>2. p \notin S
  BY <1>1 DEF Preds, Doms
<1>3. p \in Node /\ a \in Node
  BY DEF Preds, Doms
<1> QED BY <1>1, <1>2, <1>3 DEF Doms, Dominates

(* So the meet never strikes off a dominator.                              *)
LEMMA MeetKeepsDoms ==
  ASSUME NEW d, NEW n \in Node, \A m \in Node : Doms(succs, m) \subseteq d[m]
  PROVE  Doms(succs, n) \subseteq Sweeps!Meet(d, n)
<1> SUFFICES ASSUME NEW a \in Doms(succs, n) PROVE a \in Sweeps!Meet(d, n)
  OBVIOUS
<1>1. CASE a = n
  BY <1>1 DEF Sweeps!Meet
<1>2. CASE a # n
  <2>1. \A p \in Preds(succs, n) : a \in d[p]
    BY <1>2, DomsOfPred DEF Preds
  <2>2. a \in Node
    BY DEF Doms
  <2>3. a \in d[n]
    OBVIOUS
  <2> QED BY <2>1, <2>2, <2>3, SameGraph DEF Sweeps!Meet
<1> QED BY <1>1, <1>2

(* When all sets are in balance they hold only dominators: the blocks that *)
(* a is not said to dominate can only be left through a.                   *)
LEMMA BalanceIsExact ==
  ASSUME succs \in FlowGraphs, NEW d \in [Node -> SUBSET Node],
         d[Entry] = {Entry},
         \A n \in Node : Sweeps!Meet(d, n) = d[n],
         NEW n \in Node
  PROVE  d[n] \subseteq Doms(succs, n)
<1> SUFFICES ASSUME NEW a \in d[n], a # n PROVE Dominates(succs, a, n)
  BY DEF Doms, Dominates
<1> DEFINE S == {m \in Node : a \notin d[m]}
<1>1. a \in Node
  OBVIOUS
<1>2. a \in d[a]
  BY <1>1 DEF Sweeps!Meet
<1>3. S \in SUBSET (Node \ {a, n})
  BY <1>2
<1>4. Entry \in S \cup {a}
  BY NodeAssumption
<1>5. ASSUME NEW m \in S, NEW x \in succs[m], x \in Node, x # a
      PROVE  x \in S
  <2>1. m \in Preds(succs, x)
    BY <1>5 DEF Preds
  <2>2. a \notin Sweeps!Meet(d, x)
    BY <2>1, <1>5, SameGraph DEF Sweeps!Meet
  <2> QED BY <2>2, <1>5
<1>6. \A m \in S : succs[m] \subseteq S \cup {a}
  <2>1. \A m \in S : succs[m] \subseteq Node
    BY DEF FlowGraphs
  <2> QED BY <1>5, <2>1
<1> QED BY <1>3, <1>4, <1>6 DEF Dominates

-----------------------------------------------------------------------------
LEMMA InitSweeps == Init => SweepInv
<1> SUFFICES ASSUME Init PROVE SweepInv
  OBVIOUS
<1> USE DEF Init, Start, Sweeps!Start
<1>1. order = <<Entry>> /\ phase = "dfs"
  OBVIOUS
<1>2. Ordered
  BY <1>1, NodeAssumption DEF Ordered
<1>3. Sets
  BY DEF Sets
<1>4. Sweeps!NoneLost
  BY SameGraph DEF Sweeps!NoneLost, Doms
<1> QED BY <1>1, <1>2, <1>3, <1>4
        DEF SweepInv, Covers, Balanced, Sweeps!SweepsExact

LEMMA VisitKeeps ==
  ASSUME SweepInv, NEW n \in Node, Sweeps!Visit(n)
  PROVE  SweepInv'
<1> USE DEF Sweeps!Visit
<1>1. n \notin Visited(order)
  BY DEF Sweeps!Visits, Sweeps!Visited, Visited
<1>2. Ordered'
  <2>1. order \in Seq(Node) /\ Len(order) \in Nat \ {0} /\ order' = Append(order, n)
    BY DEF SweepInv, Ordered
  <2>2. order' \in Seq(Node) /\ Len(order') = Len(order) + 1 /\ order'[1] = Entry
    BY <2>1 DEF SweepInv, Ordered
  <2>3. ASSUME NEW k \in 1 .. Len(order'), NEW m \in 1 .. Len(order'), order'[k] = order'[m]
        PROVE  k = m
    <3>1. \A x \in 1 .. Len(order) : order'[x] = order[x] /\ order[x] # n
      BY <2>1, <1>1 DEF Visited
    <3>2. order'[Len(order) + 1] = n
      BY <2>1
    <3>3. \A x, y \in 1 .. Len(order) : order[x] = order[y] => x = y
      BY DEF SweepInv, Ordered
    <3> QED BY <2>1, <2>2, <2>3, <3>1, <3>2, <3>3
  <2> QED BY <2>1, <2>2, <2>3 DEF Ordered
<1>3. Sets'
  BY DEF SweepInv, Sets
<1>4. Sweeps!NoneLost'
  BY DEF SweepInv, Sweeps!NoneLost
<1>5. phase' = "dfs" /\ succs' \in FlowGraphs
  BY DEF SweepInv
<1> QED BY <1>2, <1>3, <1>4, <1>5 DEF SweepInv, Covers, Balanced, Sweeps!SweepsExact

LEMMA StartSweepsKeeps ==
  ASSUME SweepInv, Sweeps!StartSweeps
  PROVE  SweepInv'
<1> USE DEF Sweeps!StartSweeps
<1>1. Ordered' /\ succs' \in FlowGraphs
  BY DEF SweepInv, Ordered
<1>2. Covers'
  <2>1. Visited(order) = Node
    BY AllVisited, SameGraph DEF SweepInv, Ordered
  <2>2. Len(order) = Cardinality(Node)
    BY <2>1, AllCounted DEF SweepInv, Ordered
  <2> QED BY <2>1, <2>2 DEF Covers, Visited
<1>3. dom \in [Node -> SUBSET Node] /\ dom' = [dom EXCEPT ![Entry] = {Entry}]
  BY DEF SweepInv, Sets
<1>4. dom' \in [Node -> SUBSET Node] /\ dom'[Entry] = {Entry}
  BY <1>3, NodeAssumption
<1>5. Sets'
  BY <1>4 DEF Sets
<1>6. Balanced'
  BY <1>4, <1>1 DEF Balanced, Ordered
<1>7. Sweeps!NoneLost'
  <2>1. \A n \in Node : Doms(succs, n) \subseteq dom[n]
    BY SameGraph DEF SweepInv, Sweeps!NoneLost
  <2>2. \A n \in Node : Doms(succs, n) \subseteq dom'[n]
    BY <2>1, <1>3, <1>4, EntryDoms
  <2> QED BY <2>2, SameGraph DEF Sweeps!NoneLost
<1>8. Sweeps!SweepsExact'
  BY DEF Sweeps!SweepsExact
<1> QED BY <1>1, <1>2, <1>5, <1>6, <1>7, <1>8 DEF SweepInv

LEMMA SweepBlockKeeps ==
  ASSUME SweepInv, Sweeps!SweepBlock
  PROVE  SweepInv'
<1> DEFINE n == order[bId]
<1>1. /\ phase = "sweep" /\ phase' = "sweep" /\ bId' = bId + 1
      /\ bId <= Cardinality(Node)
      /\ dom' = [dom EXCEPT ![n] = Sweeps!Meet(dom, n)]
      /\ changed' = (changed \/ Sweeps!Meet(dom, n) # dom[n])
      /\ succs' = succs /\ order' = order
  BY SameGraph DEF Sweeps!SweepBlock
<1>2. /\ bId \in Nat \ {0} /\ Len(order) \in Nat
      /\ Len(order) = Cardinality(Node) /\ order \in Seq(Node)
  BY <1>1 DEF SweepInv, Sets, Covers, Ordered
<1>3. bId \in 1 .. Len(order) /\ n \in Node
  BY <1>1, <1>2
<1>4. dom \in [Node -> SUBSET Node]
  BY <1>1 DEF SweepInv, Sets
<1> HIDE DEF n
<1>5. Sweeps!Meet(dom, n) \subseteq Node
  BY <1>3, <1>4 DEF Sweeps!Meet
<1>6. dom' \in [Node -> SUBSET Node]
  BY <1>1, <1>3, <1>4, <1>5
<1>7. Ordered' /\ Covers' /\ succs' \in FlowGraphs
  BY <1>1 DEF SweepInv, Ordered, Covers, Visited
<1>8. Sets'
  BY <1>1, <1>2, <1>6 DEF Sets
<1>9. Balanced'
  <2>1. dom'[Entry] = {Entry}
    <3>1. dom[Entry] = {Entry}
      BY <1>1 DEF SweepInv, Balanced
    <3>2. CASE n = Entry
      <4>1. Sweeps!Meet(dom, n) = {Entry}
        BY <3>1, <3>2 DEF Sweeps!Meet
      <4> QED BY <4>1, <3>2, <1>1, <1>4, <1>3
    <3>3. CASE n # Entry
      BY <3>1, <3>3, <1>1, <1>4, NodeAssumption
    <3> QED BY <3>2, <3>3
  <2>2. ASSUME ~changed', NEW k \in 1 .. Len(order), k < bId + 1
        PROVE  Sweeps!Meet(dom, order[k])' = dom'[order[k]]
    <3>1. ~changed /\ Sweeps!Meet(dom, n) = dom[n]
      BY <2>2, <1>1
    <3>2. dom' = dom
      BY <3>1, <1>1, <1>3, <1>4
    <3>3. Sweeps!Meet(dom, order[k]) = dom[order[k]]
      <4>1. CASE k = bId
        BY <4>1, <3>1 DEF n
      <4>2. CASE k < bId
        BY <4>2, <3>1, <1>1 DEF SweepInv, Balanced
      <4> QED BY <4>1, <4>2, <2>2, <1>2
    <3>4. Sweeps!Meet(dom, order[k])' = Sweeps!Meet(dom, order[k])
      BY <3>2, <1>1 DEF Sweeps!Meet
    <3> QED BY <3>2, <3>3, <3>4
  <2> QED BY <1>1, <2>1, <2>2 DEF Balanced
<1>10. Sweeps!NoneLost'
  <2>1. \A m \in Node : Doms(succs, m) \subseteq dom[m]
    BY <1>1, SameGraph DEF SweepInv, Sweeps!NoneLost
  <2>2. Doms(succs, n) \subseteq Sweeps!Meet(dom, n)
    BY <2>1, <1>3, MeetKeepsDoms
  <2>3. \A m \in Node : Doms(succs, m) \subseteq dom'[m]
    BY <2>1, <2>2, <1>1, <1>4
  <2> QED BY <2>3, <1>1, SameGraph DEF Sweeps!NoneLost
<1>11. Sweeps!SweepsExact'
  BY <1>1 DEF Sweeps!SweepsExact
<1> QED BY <1>7, <1>8, <1>9, <1>10, <1>11 DEF SweepInv

LEMMA SweepAgainKeeps ==
  ASSUME SweepInv, Sweeps!SweepAgain
  PROVE  SweepInv'
<1> USE DEF Sweeps!SweepAgain
<1>1. Ordered' /\ Covers' /\ Sets' /\ succs' \in FlowGraphs
  BY DEF SweepInv, Ordered, Covers, Visited, Sets
<1>2. Balanced'
  BY DEF SweepInv, Balanced, Ordered
<1>3. Sweeps!NoneLost' /\ Sweeps!SweepsExact'
  BY DEF SweepInv, Sweeps!NoneLost, Sweeps!SweepsExact
<1> QED BY <1>1, <1>2, <1>3 DEF SweepInv

LEMMA EndSweepsKeeps ==
  ASSUME SweepInv, Sweeps!EndSweeps
  PROVE  SweepInv'
<1> USE DEF Sweeps!EndSweeps
<1>1. Ordered' /\ Covers' /\ Sets' /\ Balanced' /\ succs' \in FlowGraphs
  BY DEF SweepInv, Ordered, Covers, Visited, Sets, Balanced
<1>2. /\ dom \in [Node -> SUBSET Node] /\ dom[Entry] = {Entry}
      /\ Visited(order) = Node
      /\ Len(order) = Cardinality(Node) /\ Len(order) \in Nat
      /\ succs \in FlowGraphs /\ order \in Seq(Node)
  BY DEF SweepInv, Sets, Balanced, Covers, Ordered
<1>3. bId > Len(order) /\ bId \in Nat
  BY <1>2, SameGraph DEF SweepInv, Sets
<1>4. \A n \in Node : Sweeps!Meet(dom, n) = dom[n]
  <2> SUFFICES ASSUME NEW n \in Node PROVE Sweeps!Meet(dom, n) = dom[n]
    OBVIOUS
  <2>1. PICK k \in 1 .. Len(order) : order[k] = n
    BY <1>2 DEF Visited
  <2>2. k < bId
    BY <1>2, <1>3
  <2> QED BY <2>1, <2>2 DEF SweepInv, Balanced
<1>5. \A n \in Node : dom[n] = Doms(succs, n)
  <2> SUFFICES ASSUME NEW n \in Node PROVE dom[n] = Doms(succs, n)
    OBVIOUS
  <2>1. dom[n] \subseteq Doms(succs, n)
    BY <1>2, <1>4, BalanceIsExact
  <2>2. Doms(succs, n) \subseteq dom[n]
    BY SameGraph DEF SweepInv, Sweeps!NoneLost
  <2> QED BY <2>1, <2>2
<1>6. Sweeps!SweepsExact'
  <2>1. \A k \in 1 .. Len(order) : order[k] \in Node
    BY <1>2
  <2>2. \A k \in 2 .. Cardinality(Node) : dom[order[k]] = Doms(succs, order[k])
    BY <1>2, <1>5, <2>1
  <2> QED BY <2>2, SameGraph DEF Sweeps!SweepsExact
<1>7. Sweeps!NoneLost'
  BY DEF Sweeps!NoneLost
<1> QED BY <1>1, <1>6, <1>7 DEF SweepInv

LEMMA ExtractKeeps ==
  ASSUME SweepInv, Sweeps!Extract
  PROVE  SweepInv'
<1> DEFINE n == order[bId]
<1>1. /\ phase = "extract" /\ phase' = "extract" /\ bId' = bId + 1
      /\ bId <= Cardinality(Node)
      /\ dom' = [dom EXCEPT ![n] = Sweeps!Reduced(n)]
      /\ succs' = succs /\ order' = order
  BY SameGraph DEF Sweeps!Extract
<1>2. /\ bId \in Nat \ {0} /\ Len(order) \in Nat
      /\ Len(order) = Cardinality(Node) /\ order \in Seq(Node)
      /\ DOMAIN dom = Node
  BY <1>1 DEF SweepInv, Sets, Covers, Ordered
<1>3. Ordered' /\ Covers' /\ succs' \in FlowGraphs
  BY <1>1 DEF SweepInv, Ordered, Covers, Visited
<1>4. Sets'
  BY <1>1, <1>2 DEF Sets
<1>5. Balanced' /\ Sweeps!NoneLost'
  BY <1>1 DEF Balanced, Sweeps!NoneLost
<1>6. Sweeps!SweepsExact'
  <2> SUFFICES ASSUME NEW k \in bId + 1 .. Cardinality(Node)
               PROVE  dom'[order[k]] = Doms(succs, order[k])
    BY <1>1, SameGraph DEF Sweeps!SweepsExact
  <2>1. k \in 1 .. Len(order) /\ bId \in 1 .. Len(order) /\ k # bId /\ k \in bId .. Cardinality(Node)
    BY <1>1, <1>2
  <2>2. order[k] # n /\ order[k] \in Node
    BY <2>1, <1>2 DEF SweepInv, Ordered
  <2>3. dom[order[k]] = Doms(succs, order[k])
    BY <1>1, <2>1, SameGraph DEF SweepInv, Sweeps!SweepsExact
  <2> HIDE DEF n
  <2>4. dom'[order[k]] = dom[order[k]]
    BY <1>1, <1>2, <2>2
  <2> QED BY <2>3, <2>4
<1> QED BY <1>3, <1>4, <1>5, <1>6 DEF SweepInv

LEMMA EndExtractKeeps ==
  ASSUME SweepInv, Sweeps!EndExtract
  PROVE  SweepInv'
BY DEF Sweeps!EndExtract, SweepInv, Ordered, Covers, Visited, Sets, Balanced,
       Sweeps!NoneLost, Sweeps!SweepsExact

LEMMA StutterKeeps ==
  ASSUME SweepInv, UNCHANGED <<succs, order, dom, bId, changed, phase>>
  PROVE  SweepInv'
<1>1. Ordered' /\ Covers' /\ Sets' /\ succs' \in FlowGraphs
  BY DEF SweepInv, Ordered, Covers, Visited, Sets
<1>2. Balanced'
  BY DEF SweepInv, Balanced, Sweeps!Meet
<1>3. Sweeps!NoneLost' /\ Sweeps!SweepsExact'
  BY DEF SweepInv, Sweeps!NoneLost, Sweeps!SweepsExact
<1> QED BY <1>1, <1>2, <1>3 DEF SweepInv

LEMMA SweepStep == ASSUME SweepInv, Sweeps!Next PROVE SweepInv'
<1>1. CASE \E n \in Node : Sweeps!Visit(n)
  BY <1>1, VisitKeeps
<1>2. CASE Sweeps!StartSweeps
  BY <1>2, StartSweepsKeeps
<1>3. CASE Sweeps!SweepBlock
  BY <1>3, SweepBlockKeeps
<1>4. CASE Sweeps!SweepAgain
  BY <1>4, SweepAgainKeeps
<1>5. CASE Sweeps!EndSweeps
  BY <1>5, EndSweepsKeeps
<1>6. CASE Sweeps!Extract
  BY <1>6, ExtractKeeps
<1>7. CASE Sweeps!EndExtract
  BY <1>7, EndExtractKeeps
<1>8. CASE Sweeps!Done
  BY <1>8, StutterKeeps DEF Sweeps!Done, Sweeps!vars
<1> QED BY <1>1, <1>2, <1>3, <1>4, <1>5, <1>6, <1>7, <1>8 DEF Sweeps!Next

(* analyzeGraph below 512 blocks: for every flow graph and every order of  *)
(* successors, the sweeps of computeDominance never strike off a dominator *)
(* and stop at sets that hold nothing else, from which the immediate       *)
(* dominators are extracted.                                               *)
THEOREM SweepsAreSound == Spec => []SweepsSound
<1> DEFINE Inv == ~large => SweepInv
<1>1. Init => Inv
  BY InitSweeps
<1>2. Inv /\ [Next]_vars => Inv'
  <2> SUFFICES ASSUME Inv, [Next]_vars, ~large' PROVE SweepInv'
    OBVIOUS
  <2>1. CASE ~large /\ Sweeps!Next
    BY <2>1, SweepStep
  <2>2. CASE large /\ LT!Next /\ UNCHANGED <<large, ofSweeps>>
    BY <2>2
  <2>3. CASE UNCHANGED vars
    BY <2>3, StutterKeeps DEF vars, ofSweeps
  <2> QED BY <2>1, <2>2, <2>3 DEF Next
<1>3. Inv => SweepsSound
  BY DEF SweepInv, SweepsSound
<1> QED BY <1>1, <1>2, <1>3, PTL DEF Spec

-----------------------------------------------------------------------------
(* Lengauer-Tarjan.  The numbers of the search, the number of the          *)
(* semidominator, and the ancestors in the search tree.                    *)
Num == [n \in Node |-> Number(ndfs, n)]
LowOf(n) == Low(succs, Num, n)
Up(a, n) == Anc(parent, a, n)

(* The blocks that have been linked into the forest: those from w on. *)
Joined(n) == Num[n] > i \/ (phase = "bucket" /\ Num[n] = i)

(* u has the lowest semidominator on the path from n up to t, t excluded,  *)
(* and all of that path is linked.                                         *)
Lowest(u, t, n) ==
  /\ Up(u, n) /\ Num[t] < Num[u]
  /\ \A y \in Node : Up(y, n) /\ Num[t] < Num[y] => Joined(y) /\ LowOf(u) <= LowOf(y)

(* Every link leads up over blocks that are linked, and the label is the   *)
(* lowest of them.                                                         *)
Linking(n) ==
  IF Joined(n) THEN /\ ancestor[n] \in Node \ {n} /\ Up(ancestor[n], n)
                    /\ label[n] \in Node /\ Lowest(label[n], ancestor[n], n)
  ELSE ancestor[n] = NoNode /\ label[n] = n

(* What the search leaves. *)
Searched ==
  /\ DfsTree(succs, parent, Num)
  /\ ndfs \in Seq(Node) /\ Len(ndfs) \in Nat /\ ndfs[1] = Entry
  /\ \A k \in 1 .. Len(ndfs) : Num[ndfs[k]] = k
  /\ \A n \in Node : Num[n] \in 1 .. Len(ndfs) /\ ndfs[Num[n]] = n

(* Blocks that are linked know their semidominator. *)
Knowing == \A n \in Node : Joined(n) => sdno[n] = LowOf(n)

LEMMA SearchedFacts ==
  ASSUME Searched
  PROVE  /\ Num \in [Node -> Nat \ {0}] /\ Tree(parent, Num) /\ succs \in FlowGraphs
         /\ \A x, y \in Node : Num[x] = Num[y] => x = y
         /\ \A n \in Node : (n = Entry <=> Num[n] = 1) /\ Num[n] <= Len(ndfs) /\ Num[n] \in Nat
         /\ \A n \in Node \ {Entry} : /\ parent[n] \in Node /\ Num[parent[n]] < Num[n]
                                      /\ n \in succs[parent[n]] /\ LowOf(n) \in Nat
         /\ parent[Entry] = NoNode
<1>1. /\ Num \in [Node -> Nat \ {0}] /\ Tree(parent, Num) /\ succs \in FlowGraphs
      /\ \A x, y \in Node : Num[x] = Num[y] => x = y
      /\ \A n \in Node \ {Entry} : /\ parent[n] \in Node /\ Num[parent[n]] < Num[n]
                                   /\ n \in succs[parent[n]]
      /\ parent[Entry] = NoNode
  BY DEF Searched, DfsTree, Tree
<1>2. \A n \in Node \ {Entry} : LowOf(n) \in Nat
  <2> SUFFICES ASSUME NEW n \in Node \ {Entry} PROVE LowOf(n) \in Nat
    OBVIOUS
  <2>1. PICK q \in Node : Low(succs, Num, n) = Num[q]
    BY LowFacts DEF Searched
  <2> QED BY <1>1, <2>1 DEF LowOf
<1>3. \A n \in Node : (n = Entry <=> Num[n] = 1) /\ Num[n] <= Len(ndfs) /\ Num[n] \in Nat
  <2> SUFFICES ASSUME NEW n \in Node
               PROVE  (n = Entry <=> Num[n] = 1) /\ Num[n] <= Len(ndfs) /\ Num[n] \in Nat
    OBVIOUS
  <2>1. Num[n] \in 1 .. Len(ndfs) /\ ndfs[Num[n]] = n /\ ndfs[1] = Entry /\ Len(ndfs) \in Nat
    BY DEF Searched
  <2>2. Num[ndfs[1]] = 1
    <3>1. 1 \in 1 .. Len(ndfs)
      BY <2>1
    <3> QED BY <3>1 DEF Searched
  <2> HIDE DEF Num
  <2> QED BY <2>1, <2>2
<1> QED BY <1>1, <1>2, <1>3

(* The recursive definitions have the values they describe. *)
LEMMA BestUnfolds ==
  ASSUME Searched, sdno \in [Node -> Nat],
         \A n \in Node : Linking(n)
  PROVE  /\ \A n \in Node :
              LT!Best[n] = IF LT!IsRoot(n) \/ LT!IsRoot(ancestor[n]) THEN label[n]
                           ELSE IF sdno[LT!Best[ancestor[n]]] < sdno[label[n]]
                                THEN LT!Best[ancestor[n]] ELSE label[n]
         /\ \A n \in Node :
              LT!Top[n] = IF LT!IsRoot(n) \/ LT!IsRoot(ancestor[n]) THEN ancestor[n]
                          ELSE LT!Top[ancestor[n]]
<1>1. /\ Num \in [Node -> Nat \ {0}] /\ Len(ndfs) + 1 \in Nat
      /\ \A n \in Node : Num[n] < Len(ndfs) + 1
  BY SearchedFacts DEF Searched
<1> DEFINE stop == {n \in Node : LT!IsRoot(n) \/ LT!IsRoot(ancestor[n])}
<1>2. \A n \in Node \ stop : ancestor[n] \in Node /\ Num[ancestor[n]] < Num[n]
  <2> SUFFICES ASSUME NEW n \in Node, ancestor[n] # NoNode
               PROVE  ancestor[n] \in Node /\ Num[ancestor[n]] < Num[n]
    BY DEF LT!IsRoot
  <2>1. ancestor[n] \in Node \ {n} /\ Up(ancestor[n], n)
    BY DEF Linking
  <2> QED BY <2>1, SearchedFacts, AncNumber DEF Up
<1>3. \A n \in Node : label[n] \in Node /\ ancestor[n] \in Node \cup {NoNode}
  BY DEF Linking
<1> DEFINE bestBase == [n \in Node |-> label[n]]
           bestComb == [p \in Node \X Node |->
                          IF sdno[p[2]] < sdno[label[p[1]]] THEN p[2] ELSE label[p[1]]]
           bestSolves(b) == b = [n \in Node |->
             IF LT!IsRoot(n) \/ LT!IsRoot(ancestor[n]) THEN label[n]
             ELSE LET up == b[ancestor[n]]
                  IN  IF sdno[up] < sdno[label[n]] THEN up ELSE label[n]]
<1>4. \E b : bestSolves(b) /\ b \in [Node -> Node]
  <2>1. bestBase \in [Node -> Node] /\ bestComb \in [Node \X Node -> Node]
    BY <1>3
  <2> HIDE DEF bestBase, bestComb, stop
  <2>2. PICK b \in [Node -> Node] : Recurs(b, stop, ancestor, bestBase, bestComb)
    <3> HIDE DEF Num
    <3> QED BY <1>1, <1>2, <2>1, RecursionUpwards
  <2>3. ASSUME NEW n \in Node
        PROVE  b[n] = IF LT!IsRoot(n) \/ LT!IsRoot(ancestor[n]) THEN label[n]
                      ELSE LET up == b[ancestor[n]]
                           IN  IF sdno[up] < sdno[label[n]] THEN up ELSE label[n]
    <3>1. b[n] = IF n \in stop THEN bestBase[n] ELSE bestComb[<<n, b[ancestor[n]]>>]
      BY <2>2 DEF Recurs
    <3>2. CASE n \in stop
      BY <3>1, <3>2 DEF stop, bestBase
    <3>3. CASE n \notin stop
      <4>1. b[ancestor[n]] \in Node
        BY <1>2, <2>2, <3>3
      <4>2. b[n] = bestComb[<<n, b[ancestor[n]]>>]
        BY <3>1, <3>3
      <4>3. bestComb[<<n, b[ancestor[n]]>>] =
              IF sdno[b[ancestor[n]]] < sdno[label[n]] THEN b[ancestor[n]] ELSE label[n]
        BY <4>1 DEF bestComb
      <4> QED BY <3>3, <4>2, <4>3 DEF stop
    <3> QED BY <3>2, <3>3
  <2>4. bestSolves(b)
    <3>1. b = [n \in Node |-> b[n]]
      OBVIOUS
    <3> QED BY <2>3, <3>1, Zenon
  <2> QED BY <2>2, <2>4
<1>5. LT!Best = CHOOSE b : bestSolves(b)
  BY Zenon DEF LT!Best
<1>6. bestSolves(LT!Best)
  <2> HIDE DEF bestSolves
  <2> QED BY <1>4, <1>5, Zenon
<1>7. \A n \in Node :
        LT!Best[n] = IF LT!IsRoot(n) \/ LT!IsRoot(ancestor[n]) THEN label[n]
                     ELSE IF sdno[LT!Best[ancestor[n]]] < sdno[label[n]]
                          THEN LT!Best[ancestor[n]] ELSE label[n]
  <2> DEFINE B == LT!Best
  <2>1. bestSolves(B)
    BY <1>6
  <2> HIDE DEF B
  <2>2. \A n \in Node :
        B[n] = IF LT!IsRoot(n) \/ LT!IsRoot(ancestor[n]) THEN label[n]
                     ELSE IF sdno[B[ancestor[n]]] < sdno[label[n]]
                          THEN B[ancestor[n]] ELSE label[n]
    BY <2>1, Zenon
  <2> QED BY <2>2 DEF B
<1> DEFINE topBase == [n \in Node |-> ancestor[n]]
           topComb == [p \in Node \X (Node \cup {NoNode}) |-> p[2]]
           topSolves(t) == t = [n \in Node |->
             IF LT!IsRoot(n) \/ LT!IsRoot(ancestor[n]) THEN ancestor[n] ELSE t[ancestor[n]]]
<1>8. \E t : topSolves(t) /\ t \in [Node -> Node \cup {NoNode}]
  <2> DEFINE V == Node \cup {NoNode}
  <2>1. topBase \in [Node -> V] /\ topComb \in [Node \X V -> V]
    BY <1>3
  <2> HIDE DEF topBase, topComb, stop, V
  <2>2. PICK t \in [Node -> V] : Recurs(t, stop, ancestor, topBase, topComb)
    <3> HIDE DEF Num
    <3> QED BY <1>1, <1>2, <2>1, RecursionUpwards
  <2>3. ASSUME NEW n \in Node
        PROVE  t[n] = IF LT!IsRoot(n) \/ LT!IsRoot(ancestor[n]) THEN ancestor[n]
                      ELSE t[ancestor[n]]
    <3>1. t[n] = IF n \in stop THEN topBase[n] ELSE topComb[<<n, t[ancestor[n]]>>]
      BY <2>2 DEF Recurs
    <3>2. CASE n \in stop
      BY <3>1, <3>2 DEF stop, topBase
    <3>3. CASE n \notin stop
      <4>1. t[ancestor[n]] \in V
        BY <1>2, <2>2, <3>3
      <4> QED BY <3>1, <3>3, <4>1 DEF stop, topComb, V
    <3> QED BY <3>2, <3>3
  <2>4. topSolves(t)
    <3>1. t = [n \in Node |-> t[n]]
      OBVIOUS
    <3> QED BY <2>3, <3>1, Zenon
  <2> QED BY <2>2, <2>4 DEF V
<1>9. LT!Top = CHOOSE t : topSolves(t)
  BY Zenon DEF LT!Top
<1>10. topSolves(LT!Top)
  <2> HIDE DEF topSolves
  <2> QED BY <1>8, <1>9, Zenon
<1>11. \A n \in Node :
        LT!Top[n] = IF LT!IsRoot(n) \/ LT!IsRoot(ancestor[n]) THEN ancestor[n]
                    ELSE LT!Top[ancestor[n]]
  <2> DEFINE B == LT!Top
  <2>1. topSolves(B)
    BY <1>10
  <2> HIDE DEF B
  <2>2. \A n \in Node :
        B[n] = IF LT!IsRoot(n) \/ LT!IsRoot(ancestor[n]) THEN ancestor[n] ELSE B[ancestor[n]]
    BY <2>1, Zenon
  <2> QED BY <2>2 DEF B
<1> QED BY <1>7, <1>11

(* Best and Top give the lowest block and the root of the whole path.      *)
LEMMA CompressedPath ==
  ASSUME Searched, sdno \in [Node -> Nat], Knowing,
         \A n \in Node : Linking(n), NEW n \in Node
  PROVE  IF Joined(n) THEN /\ LT!Top[n] \in Node \ {n} /\ Up(LT!Top[n], n)
                           /\ ~Joined(LT!Top[n])
                           /\ LT!Best[n] \in Node /\ Lowest(LT!Best[n], LT!Top[n], n)
         ELSE LT!Top[n] = NoNode /\ LT!Best[n] = n
<1> DEFINE P(x) == /\ LT!Top[x] \in Node \ {x} /\ Up(LT!Top[x], x) /\ ~Joined(LT!Top[x])
                   /\ LT!Best[x] \in Node /\ Lowest(LT!Best[x], LT!Top[x], x)
           B == {x \in Node : Joined(x) /\ ~P(x)}
<1>0. /\ Num \in [Node -> Nat \ {0}] /\ Tree(parent, Num)
      /\ \A x, y \in Node : Num[x] = Num[y] => x = y
      /\ \A x \in Node \ {Entry} : LowOf(x) \in Nat
  BY SearchedFacts
<1> HIDE DEF Num
<1>1. CASE ~Joined(n)
  <2>1. ancestor[n] = NoNode /\ label[n] = n
    BY <1>1 DEF Linking
  <2> QED BY <1>1, <2>1, BestUnfolds DEF LT!IsRoot
<1>2. CASE Joined(n)
  <2>1. SUFFICES ASSUME B # {} PROVE FALSE
    BY <1>2
  <2>2. PICK x \in B : \A y \in B : Num[x] <= Num[y]
    <3>1. B \in SUBSET Node
      OBVIOUS
    <3> HIDE DEF B
    <3> QED BY <1>0, <2>1, <3>1, LowestNumber
  <2> DEFINE up == ancestor[x]
             l == label[x]
  <2>3. /\ x \in Node /\ Joined(x) /\ ~P(x)
        /\ up \in Node \ {x} /\ Up(up, x) /\ l \in Node /\ Lowest(l, up, x)
    BY <2>2 DEF Linking
  <2>4. ~LT!IsRoot(x)
    BY <2>3, NodeAssumption DEF LT!IsRoot
  <2>5. CASE ~Joined(up)
    <3>1. LT!IsRoot(up)
      BY <2>3, <2>5 DEF Linking, LT!IsRoot
    <3>2. LT!Top[x] = up /\ LT!Best[x] = l
      BY <2>3, <3>1, BestUnfolds
    <3> QED BY <2>3, <2>5, <3>2
  <2>6. CASE Joined(up)
    <3>1. ~LT!IsRoot(up)
      BY <2>3, <2>6, NodeAssumption DEF Linking, LT!IsRoot
    <3>2. Num[up] < Num[x]
      BY <1>0, <2>3, AncNumber DEF Up
    <3>3. P(up)
      <4>1. ~(Num[x] <= Num[up])
        BY <1>0, <2>3, <3>2
      <4>2. up \notin B
        BY <2>2, <4>1
      <4> QED BY <2>3, <2>6, <4>2
    <3> DEFINE t == LT!Top[up]
               b == LT!Best[up]
    <3>4. /\ t \in Node \ {up} /\ Up(t, up) /\ ~Joined(t)
          /\ b \in Node /\ Lowest(b, t, up)
      BY <3>3
    <3>5. /\ LT!Top[x] = t
          /\ LT!Best[x] = IF sdno[b] < sdno[l] THEN b ELSE l
      BY <2>3, <2>4, <3>1, BestUnfolds
    <3> HIDE DEF up, l, t, b, B, P
    <3>6. Up(t, x) /\ Num[t] < Num[up] /\ Num[t] < Num[x] /\ t # x
      <4>1. Up(t, x)
        BY <2>3, <3>4, AncTrans DEF Up
      <4>2. Num[t] < Num[up]
        BY <1>0, <2>3, <3>4, AncNumber DEF Up
      <4> QED BY <1>0, <2>3, <3>2, <3>4, <4>1, <4>2
    <3>7. /\ Joined(b) /\ Joined(l) /\ b # Entry /\ l # Entry
          /\ Up(b, x) /\ Up(l, x) /\ Num[t] < Num[b] /\ Num[t] < Num[l]
      <4>1. Up(b, up) /\ Num[t] < Num[b] /\ Up(l, x) /\ Num[up] < Num[l]
        BY <2>3, <3>4 DEF Lowest
      <4>2. Joined(b) /\ Joined(l)
        BY <2>3, <3>4, <4>1 DEF Lowest
      <4>3. Up(b, x)
        BY <2>3, <4>1, AncTrans DEF Up
      <4>4. Num[t] < Num[l]
        BY <1>0, <2>3, <3>4, <3>6, <4>1
      <4>5. \A y \in Node : Num[t] < Num[y] => y # Entry
        <5>1. Num[t] \in Nat /\ 1 <= Num[t] /\ Num[Entry] = 1
          BY <1>0, <3>4, SearchedFacts, NodeAssumption
        <5> QED BY <5>1
      <4> QED BY <2>3, <3>4, <4>1, <4>2, <4>3, <4>4, <4>5
    <3>8. ASSUME NEW y \in Node, Up(y, x), Num[t] < Num[y]
          PROVE  Joined(y) /\ (LowOf(b) <= LowOf(y) \/ LowOf(l) <= LowOf(y))
      <4>1. CASE Num[up] < Num[y]
        BY <2>3, <3>8, <4>1 DEF Lowest
      <4>2. CASE ~(Num[up] < Num[y])
        <5>1. Num[y] <= Num[up]
          BY <1>0, <2>3, <4>2
        <5>2. Up(y, up)
          BY <1>0, <2>3, <3>8, <5>1, AncChain DEF Up
        <5> QED BY <3>4, <3>8, <5>2 DEF Lowest
      <4> QED BY <4>1, <4>2
    <3>9. sdno[b] = LowOf(b) /\ sdno[l] = LowOf(l) /\ LowOf(b) \in Nat /\ LowOf(l) \in Nat
      BY <1>0, <2>3, <3>4, <3>7 DEF Knowing
    <3>10. \A y \in Node : Up(y, x) /\ Num[t] < Num[y] => LowOf(y) \in Nat
      <4>1. \A y \in Node : Num[t] < Num[y] => y # Entry
        <5>1. Num[t] \in Nat /\ 1 <= Num[t] /\ Num[Entry] = 1
          BY <1>0, <3>4, SearchedFacts, NodeAssumption
        <5> QED BY <5>1
      <4> QED BY <1>0, <4>1
    <3>11. CASE sdno[b] < sdno[l]
      <4>1. \A y \in Node : Up(y, x) /\ Num[t] < Num[y] => LowOf(b) <= LowOf(y)
        BY <3>8, <3>9, <3>10, <3>11
      <4>2. Lowest(b, t, x)
        BY <3>7, <3>8, <4>1 DEF Lowest
      <4>3. LT!Best[x] = b
        BY <3>5, <3>11
      <4> QED BY <2>3, <3>4, <3>5, <3>6, <4>2, <4>3 DEF P
    <3>12. CASE ~(sdno[b] < sdno[l])
      <4>1. \A y \in Node : Up(y, x) /\ Num[t] < Num[y] => LowOf(l) <= LowOf(y)
        BY <3>8, <3>9, <3>10, <3>12
      <4>2. Lowest(l, t, x)
        BY <3>7, <3>8, <4>1 DEF Lowest
      <4>3. LT!Best[x] = l
        BY <3>5, <3>12
      <4> QED BY <2>3, <3>4, <3>5, <3>6, <4>2, <4>3 DEF P
    <3> QED BY <3>11, <3>12
  <2> QED BY <2>5, <2>6
<1> QED BY <1>1, <1>2

-----------------------------------------------------------------------------
(* Lengauer-Tarjan as LengauerTarjan states it sees the same graph and the *)
(* same search.                                                            *)
LEMMA SameSearch ==
  /\ \A s, n : LT!Preds(s, n) = Preds(s, n)
  /\ \A s, ord : LT!Frame(s, ord) = Frame(s, ord)
  /\ \A s, ord, n : LT!Visits(s, ord, n) <=> Visits(s, ord, n)
  /\ LT!FlowGraphs = FlowGraphs
<1>1. \A s, n : LT!Preds(s, n) = Preds(s, n)
  BY DEF Preds, LT!Preds
<1>2. \A s, ord : LT!Frame(s, ord) = Frame(s, ord)
  BY DEF Frame, LT!Frame, Visited, LT!Visited
<1>3. \A s, ord, n : LT!Visits(s, ord, n) <=> Visits(s, ord, n)
  BY <1>2 DEF Visits, LT!Visits, Visited, LT!Visited
<1>4. LT!FlowGraphs = FlowGraphs
  BY DEF FlowGraphs, LT!FlowGraphs, Connected, LT!Connected
<1> QED BY <1>1, <1>2, <1>3, <1>4

(* What a block is given when its bucket is emptied: its immediate         *)
(* dominator, which is then its semidominator, or a block above it that    *)
(* has the same one.                                                       *)
Provided(v) ==
  /\ idom[v] \in Node
  /\ IF Num[idom[v]] = LowOf(v) THEN Idom(succs, v) = idom[v]
     ELSE /\ LowOf(v) < Num[idom[v]] /\ Num[idom[v]] < Num[v]
          /\ Idom(succs, v) = Idom(succs, idom[v])

(* Who is in a bucket hangs below its owner by a child not linked yet.     *)
Waiting ==
  /\ buckets \in [Node -> SUBSET Node]
  /\ \A a \in Node : \A v \in buckets[a] :
       /\ Joined(v) /\ v # Entry /\ Num[a] = LowOf(v)
       /\ \A c \in Node : parent[c] = a /\ Up(c, v) => Num[c] <= i
  /\ \A v \in Node : Joined(v) => Provided(v) \/ \E a \in Node : v \in buckets[a]

(* What w has learnt from the predecessors it has asked. *)
Asking ==
  /\ todo \subseteq Preds(succs, ndfs[i])
  /\ LowOf(ndfs[i]) <= sdno[ndfs[i]] /\ sdno[ndfs[i]] <= i
  /\ \A p \in Preds(succs, ndfs[i]) \ todo :
       Bounds(succs, parent, Num, ndfs[i], p, sdno[ndfs[i]])

Emptying ==
  /\ todo \subseteq buckets[parent[ndfs[i]]]
  /\ \A v \in buckets[parent[ndfs[i]]] \ todo : Provided(v)

GrowInv ==
  /\ SearchTree(succs, ndfs, parent)
  /\ sdno \in [Node -> Nat] /\ \A k \in 1 .. Len(ndfs) : sdno[ndfs[k]] = k
  /\ \A n \in Node : ancestor[n] = NoNode /\ label[n] = n
  /\ DOMAIN ancestor = Node /\ DOMAIN label = Node
  /\ buckets = [n \in Node |-> {}]
  /\ idom = [n \in Node |-> NoNode]

PassInv ==
  /\ Searched
  /\ i \in 2 .. Len(ndfs)
  /\ sdno \in [Node -> Nat]
  /\ DOMAIN ancestor = Node /\ DOMAIN label = Node
  /\ \A n \in Node : Linking(n)
  /\ Knowing
  /\ \A n \in Node : Num[n] < i => sdno[n] = Num[n]
  /\ Waiting
  /\ idom \in [Node -> Node \cup {NoNode}] /\ idom[Entry] = NoNode
  /\ phase = "preds" => Asking
  /\ phase = "bucket" => Emptying

SecondInv ==
  /\ Searched
  /\ i \in 2 .. Len(ndfs) + 1
  /\ idom \in [Node -> Node \cup {NoNode}] /\ idom[Entry] = NoNode
  /\ \A n \in Node \ {Entry} :
       /\ sdno[n] = LowOf(n)
       /\ IF Num[n] < i THEN idom[n] = Idom(succs, n) ELSE Provided(n)

TreeRight == idom = [n \in Node |-> Idom(succs, n)] /\ dtree = DomTree(succs)

LinkInv ==
  /\ succs \in FlowGraphs
  /\ phase \in {"dfs", "preds", "bucket", "second", "done"}
  /\ phase = "dfs" => GrowInv
  /\ phase \in {"preds", "bucket"} => PassInv
  /\ phase = "second" => SecondInv
  /\ phase = "done" => TreeRight

(* The search tree does not change after the search. *)
LEMMA SameTree ==
  ASSUME UNCHANGED <<succs, ndfs, parent>>
  PROVE  /\ Num' = Num /\ (\A n : LowOf(n)' = LowOf(n)) /\ (\A a, n : Up(a, n)' = Up(a, n))
         /\ Searched' = Searched
<1>1. Num' = Num
  BY DEF Num
<1>2. \A n : LowOf(n)' = LowOf(n)
  BY <1>1 DEF LowOf
<1>3. \A a, n : Up(a, n)' = Up(a, n)
  BY DEF Up
<1>4. Searched' = Searched
  BY <1>1 DEF Searched
<1> QED BY <1>1, <1>2, <1>3, <1>4

LEMMA InitLinks == Init => LinkInv
<1> SUFFICES ASSUME Init PROVE LinkInv
  OBVIOUS
<1> USE DEF Init, Start, LT!Start
<1>1. /\ ndfs = <<Entry>> /\ parent = [n \in Node |-> NoNode]
      /\ sdno = [n \in Node |-> IF n = Entry THEN 1 ELSE 0]
      /\ phase = "dfs" /\ succs \in FlowGraphs
  OBVIOUS
<1>2. ndfs \in Seq(Node) /\ Len(ndfs) = 1 /\ ndfs[1] = Entry
  BY <1>1, NodeAssumption
<1>3. \A k \in 1 .. Len(ndfs) : k = 1
  BY <1>2
<1>4. SearchTree(succs, ndfs, parent)
  <2>1. \A j, k \in 1 .. Len(ndfs) : Anc(parent, ndfs[j], ndfs[k]) /\ j = k
    BY <1>3, AncSelf
  <2>2. 2 .. Len(ndfs) = {}
    BY <1>2
  <2>3. parent \in [Node -> Node \cup {NoNode}] /\ parent[Entry] = NoNode
    BY <1>1, NodeAssumption
  <2> QED BY <1>2, <2>1, <2>2, <2>3 DEF SearchTree
<1>5. sdno \in [Node -> Nat] /\ \A k \in 1 .. Len(ndfs) : sdno[ndfs[k]] = k
  BY <1>1, <1>2, <1>3, NodeAssumption
<1>6. GrowInv
  BY <1>4, <1>5 DEF GrowInv
<1> QED BY <1>1, <1>6 DEF LinkInv

LEMMA VisitLinks ==
  ASSUME LinkInv, NEW n \in Node, LT!Visit(n)
  PROVE  LinkInv'
<1>1. /\ phase = "dfs" /\ phase' = "dfs" /\ Visits(succs, ndfs, n)
      /\ ndfs' = Append(ndfs, n) /\ sdno' = [sdno EXCEPT ![n] = Len(ndfs) + 1]
      /\ parent' = [parent EXCEPT ![n] = Frame(succs, ndfs)]
      /\ UNCHANGED <<succs, ancestor, label, buckets, idom>>
  BY SameSearch DEF LT!Visit, LT!forest
<1>2. GrowInv /\ succs \in FlowGraphs
  BY <1>1 DEF LinkInv
<1>3. SearchTree(succs, ndfs, parent)'
  BY <1>1, <1>2, SearchTreeStep DEF GrowInv
<1>4. /\ ndfs \in Seq(Node) /\ Len(ndfs) \in Nat /\ n \notin Visited(ndfs)
      /\ sdno \in [Node -> Nat] /\ \A k \in 1 .. Len(ndfs) : sdno[ndfs[k]] = k
  BY <1>1, <1>2 DEF GrowInv, SearchTree, Visits
<1>5. sdno' \in [Node -> Nat]
  BY <1>1, <1>4
<1>6. ASSUME NEW k \in 1 .. Len(ndfs') PROVE sdno'[ndfs'[k]] = k
  <2>1. CASE k = Len(ndfs) + 1
    BY <1>1, <1>4, <2>1
  <2>2. CASE k # Len(ndfs) + 1
    <3>1. k \in 1 .. Len(ndfs) /\ ndfs'[k] = ndfs[k]
      BY <1>1, <1>4, <2>2
    <3>2. ndfs[k] \in Visited(ndfs) /\ ndfs[k] \in Node
      BY <1>4, <3>1 DEF Visited
    <3> QED BY <1>1, <1>4, <3>1, <3>2
  <2> QED BY <2>1, <2>2
<1>7. GrowInv'
  BY <1>1, <1>2, <1>3, <1>5, <1>6 DEF GrowInv
<1> QED BY <1>1, <1>2, <1>7 DEF LinkInv

-----------------------------------------------------------------------------
(* The first pass, from the last block visited up: the block in hand asks  *)
(* its predecessors, is linked, and the bucket of its parent is emptied.   *)
LEMMA StartPassesLinks ==
  ASSUME LinkInv, LT!StartPasses
  PROVE  LinkInv'
<1>1. /\ phase = "dfs" /\ phase' = "preds" /\ Frame(succs, ndfs) = NoNode
      /\ i' = Len(ndfs) /\ todo' = Preds(succs, ndfs[Len(ndfs)])
      /\ UNCHANGED <<succs, ndfs, sdno, parent, ancestor, label, buckets, idom>>
  BY SameSearch DEF LT!StartPasses, LT!Process, LT!forest
<1>2. GrowInv /\ succs \in FlowGraphs
  BY <1>1 DEF LinkInv
<1>3. /\ ndfs \in Seq(Node) /\ Len(ndfs) \in Nat /\ Len(ndfs) >= 1 /\ ndfs[1] = Entry
      /\ SearchTree(succs, ndfs, parent)
  BY <1>2 DEF GrowInv, SearchTree
<1>4. Visited(ndfs) = Node
  BY <1>1, <1>2, <1>3, AllVisited
<1>5. Searched
  <2>1. /\ DfsTree(succs, parent, Num)
        /\ \A k \in 1 .. Len(ndfs) : Num[ndfs[k]] = k
        /\ \A n \in Node : Num[n] \in 1 .. Len(ndfs) /\ ndfs[Num[n]] = n
    BY <1>2, <1>3, <1>4, SearchedTree DEF Num
  <2> QED BY <1>3, <2>1 DEF Searched
<1>6. /\ \A k \in 1 .. Len(ndfs) : Num[ndfs[k]] = k
      /\ \A n \in Node : Num[n] \in 1 .. Len(ndfs) /\ ndfs[Num[n]] = n
  BY <1>5 DEF Searched
<1> HIDE DEF Num
<1>7. Len(ndfs) \in 2 .. Len(ndfs)
  <2>1. Num[CfgHead] \in 1 .. Len(ndfs) /\ ndfs[Num[CfgHead]] # ndfs[1]
    BY <1>3, <1>6, NodeAssumption
  <2> QED BY <1>3, <2>1
<1>8. \A n \in Node : ~Joined(n)'
  BY <1>1, <1>3, <1>6, SameTree DEF Joined
<1>9. Searched' /\ Num' = Num /\ \A n : LowOf(n)' = LowOf(n)
  BY <1>1, <1>5, SameTree
<1>10. \A n \in Node : Linking(n)'
  BY <1>1, <1>2, <1>8 DEF Linking, GrowInv
<1>11. \A n \in Node : sdno[n] = Num[n]
  BY <1>2, <1>6 DEF GrowInv
<1>12. Waiting'
  BY <1>1, <1>2, <1>8 DEF Waiting, GrowInv
<1> DEFINE w == ndfs[Len(ndfs)]
<1>13. w \in Node \ {Entry} /\ Num[w] = Len(ndfs)
  <2>1. w \in Node /\ Num[w] = Len(ndfs)
    BY <1>3, <1>6, <1>7
  <2>2. Num[Entry] = 1
    BY <1>3, <1>6
  <2> QED BY <2>1, <2>2, <1>7
<1>14. LowOf(w) <= Len(ndfs)
  <2>1. PICK q \in Node : Low(succs, Num, w) = Num[q] /\ Num[q] < Num[w]
    BY <1>5, <1>13, LowFacts DEF Searched
  <2> HIDE DEF w
  <2> QED BY <1>6, <1>13, <2>1 DEF LowOf
<1>15. Asking'
  <2>1. ndfs'[i'] = w /\ sdno'[w] = Len(ndfs) /\ todo' = Preds(succs, w)
    BY <1>1, <1>11, <1>13
  <2>2. LowOf(w)' <= sdno'[w] /\ sdno'[w] <= i'
    BY <1>1, <1>3, <1>9, <1>14, <2>1
  <2> QED BY <1>1, <2>1, <2>2 DEF Asking
<1>16. Knowing' /\ \A n \in Node : Num'[n] < i' => sdno'[n] = Num'[n]
  BY <1>1, <1>8, <1>9, <1>11 DEF Knowing
<1>17. PassInv'
  <2>1. i' \in 2 .. Len(ndfs')
    BY <1>1, <1>7
  <2>2. sdno' \in [Node -> Nat] /\ DOMAIN ancestor' = Node /\ DOMAIN label' = Node
        /\ idom' \in [Node -> Node \cup {NoNode}] /\ idom'[Entry] = NoNode
    BY <1>1, <1>2, NodeAssumption DEF GrowInv
  <2> QED BY <1>1, <1>9, <1>10, <1>12, <1>15, <1>16, <2>1, <2>2 DEF PassInv
<1> QED BY <1>1, <1>2, <1>17 DEF LinkInv

(* Compression of any part of the forest keeps what the links are for.     *)
LEMMA CompressKeeps ==
  ASSUME PassInv, NEW P,
         label' = [x \in Node |-> IF x \in P THEN LT!Best[x] ELSE label[x]],
         ancestor' = [x \in Node |-> IF x \in P THEN LT!Top[x] ELSE ancestor[x]],
         UNCHANGED <<succs, ndfs, parent, i, phase>>
  PROVE  (\A n \in Node : Linking(n)') /\ DOMAIN ancestor' = Node /\ DOMAIN label' = Node
<1>1. /\ Num' = Num /\ (\A n : LowOf(n)' = LowOf(n)) /\ (\A a, n : Up(a, n)' = Up(a, n))
  BY SameTree
<1> HIDE DEF Num
<1>2. \A n : Joined(n)' = Joined(n)
  BY <1>1 DEF Joined
<1>3. \A u, t, n : Lowest(u, t, n) => Lowest(u, t, n)'
  BY <1>1, <1>2 DEF Lowest
<1>4. ASSUME NEW n \in Node PROVE Linking(n)'
  <2>1. CASE n \in P
    <3>1. label'[n] = LT!Best[n] /\ ancestor'[n] = LT!Top[n]
      BY <2>1
    <3>2. IF Joined(n) THEN /\ LT!Top[n] \in Node \ {n} /\ Up(LT!Top[n], n)
                            /\ ~Joined(LT!Top[n])
                            /\ LT!Best[n] \in Node /\ Lowest(LT!Best[n], LT!Top[n], n)
          ELSE LT!Top[n] = NoNode /\ LT!Best[n] = n
      BY CompressedPath DEF PassInv
    <3> QED BY <1>1, <1>2, <1>3, <3>1, <3>2 DEF Linking
  <2>2. CASE n \notin P
    <3>1. label'[n] = label[n] /\ ancestor'[n] = ancestor[n] /\ Linking(n)
      BY <2>2 DEF PassInv
    <3> QED BY <1>1, <1>2, <1>3, <3>1 DEF Linking
  <2> QED BY <2>1, <2>2
<1> QED BY <1>4

(* What Eval finds: a block that is not linked, or the lowest one on the   *)
(* path to where the linked blocks end.                                    *)
LEMMA EvalFacts ==
  ASSUME PassInv, NEW n \in Node
  PROVE  IF Joined(n) THEN /\ LT!Eval(n) \in Node /\ Joined(LT!Eval(n))
                           /\ sdno[LT!Eval(n)] = LowOf(LT!Eval(n))
                           /\ LT!Top[n] \in Node \ {n} /\ Up(LT!Top[n], n)
                           /\ ~Joined(LT!Top[n]) /\ Lowest(LT!Eval(n), LT!Top[n], n)
         ELSE LT!Eval(n) = n
<1>1. Linking(n)
  BY DEF PassInv
<1>2. CASE ~Joined(n)
  BY <1>1, <1>2 DEF Linking, LT!Eval, LT!IsRoot
<1>3. CASE Joined(n)
  <2>1. LT!Eval(n) = LT!Best[n]
    BY <1>1, <1>3, NodeAssumption DEF Linking, LT!Eval, LT!IsRoot
  <2>2. /\ LT!Top[n] \in Node \ {n} /\ Up(LT!Top[n], n) /\ ~Joined(LT!Top[n])
        /\ LT!Best[n] \in Node /\ Lowest(LT!Best[n], LT!Top[n], n)
    BY <1>3, CompressedPath DEF PassInv
  <2>3. Joined(LT!Best[n])
    BY <2>2 DEF Lowest
  <2>4. sdno[LT!Best[n]] = LowOf(LT!Best[n])
    BY <2>2, <2>3 DEF PassInv, Knowing
  <2> QED BY <1>3, <2>1, <2>2, <2>3, <2>4
<1> QED BY <1>2, <1>3

(* The block in hand. *)
LEMMA InHand ==
  ASSUME PassInv
  PROVE  /\ LT!w = ndfs[i] /\ ndfs[i] \in Node \ {Entry} /\ Num[ndfs[i]] = i /\ i \in Nat \ {0, 1}
         /\ LowOf(ndfs[i]) \in 1 .. i - 1 /\ Len(ndfs) \in Nat
         /\ \A n \in Node : Num[n] = i => n = ndfs[i]
<1>1. i \in 2 .. Len(ndfs) /\ Searched /\ Len(ndfs) \in Nat /\ ndfs \in Seq(Node)
  BY DEF PassInv, Searched
<1>2. i \in 1 .. Len(ndfs) /\ i \in Nat \ {0, 1}
  BY <1>1
<1>3. ndfs[i] \in Node /\ Num[ndfs[i]] = i
  BY <1>1, <1>2 DEF Searched
<1>4. ndfs[i] # Entry
  BY <1>1, <1>2, <1>3, SearchedFacts, NodeAssumption
<1>5. LowOf(ndfs[i]) \in 1 .. i - 1
  <2>1. PICK q \in Node : Low(succs, Num, ndfs[i]) = Num[q] /\ Num[q] < Num[ndfs[i]]
    BY <1>1, <1>3, <1>4, LowFacts DEF Searched
  <2>2. Num[q] \in Nat \ {0}
    BY <1>1, SearchedFacts
  <2> HIDE DEF Num
  <2> QED BY <1>2, <1>3, <2>1, <2>2 DEF LowOf
<1>6. LT!w = ndfs[i]
  BY DEF LT!w
<1>7. \A n \in Node : Num[n] = i => n = ndfs[i]
  BY <1>1, <1>3, SearchedFacts
<1> QED BY <1>1, <1>2, <1>3, <1>4, <1>5, <1>6, <1>7

LEMMA LaterIsNotEntry ==
  ASSUME Searched, NEW y \in Node, NEW k \in Nat \ {0}, k < Num[y]
  PROVE  y # Entry /\ LowOf(y) \in Nat /\ Num[y] \in Nat
<1>1. y # Entry
  <2>1. Num[Entry] = 1
    BY SearchedFacts, NodeAssumption
  <2> HIDE DEF Num
  <2> QED BY <2>1
<1> QED BY <1>1, SearchedFacts

LEMMA EvalPredLinks ==
  ASSUME LinkInv, NEW p \in Node, LT!EvalPred(p)
  PROVE  LinkInv'
<1> DEFINE w == ndfs[i]
           m == sdno[w]
           e == LT!Eval(p)
           k == LT!Lower(p)
<1>1. /\ phase = "preds" /\ phase' = "preds" /\ p \in todo /\ todo' = todo \ {p}
      /\ sdno' = [sdno EXCEPT ![w] = k]
      /\ label' = [x \in Node |-> IF x \in LT!Path[p] THEN LT!Best[x] ELSE label[x]]
      /\ ancestor' = [x \in Node |-> IF x \in LT!Path[p] THEN LT!Top[x] ELSE ancestor[x]]
      /\ UNCHANGED <<succs, ndfs, parent, buckets, idom, i>>
  BY DEF LT!EvalPred, LT!Compress, LT!w
<1>2. PassInv /\ Asking /\ succs \in FlowGraphs
  BY <1>1 DEF LinkInv, PassInv
<1>3. /\ w \in Node \ {Entry} /\ Num[w] = i /\ i \in Nat \ {0, 1}
      /\ LowOf(w) \in 1 .. i - 1
      /\ \A n \in Node : Num[n] = i => n = w
      /\ LT!w = w
  BY <1>2, InHand
<1>4. /\ Searched /\ DfsTree(succs, parent, Num) /\ sdno \in [Node -> Nat]
      /\ \A n \in Node : Num[n] < i => sdno[n] = Num[n]
      /\ \A n \in Node : Num[n] \in Nat \ {0}
  BY <1>2, SearchedFacts DEF PassInv, Searched
<1>5. /\ todo \subseteq Preds(succs, w)
      /\ LowOf(w) <= m /\ m <= i /\ m \in Nat
      /\ \A q \in Preds(succs, w) \ todo : Bounds(succs, parent, Num, w, q, m)
  BY <1>2, <1>3, <1>4 DEF Asking
<1>6. p \in Preds(succs, w) /\ w \in succs[p]
  BY <1>1, <1>5 DEF Preds
<1>7. Bounds(succs, parent, Num, w, p, LowOf(w))
  BY <1>3, <1>4, <1>6, LowBounds DEF LowOf
<1>8. Searched' /\ Num' = Num /\ (\A n : LowOf(n)' = LowOf(n)) /\ (\A a, n : Up(a, n)' = Up(a, n))
  BY <1>1, <1>4, SameTree
<1>9. \A n \in Node : Joined(n) <=> Num[n] > i
  BY <1>1 DEF Joined
<1> HIDE DEF Num, w
<1>10. k = IF sdno[e] < m THEN sdno[e] ELSE m
  BY <1>3 DEF LT!Lower
<1> HIDE DEF k, m
<1>11. k \in Nat /\ k <= m /\ LowOf(w) <= k /\ Bounds(succs, parent, Num, w, p, k)
  <2>1. CASE Num[p] <= i
    <3>1. ~Joined(p)
      BY <1>3, <1>4, <1>9, <2>1
    <3>2. e = p
      BY <1>2, <3>1, EvalFacts
    <3>3. LowOf(w) <= Num[p]
      BY <1>3, <1>7, <2>1 DEF Bounds
    <3>4. k \in Nat /\ k <= m /\ LowOf(w) <= k /\ k <= Num[p]
      <4>1. CASE Num[p] < i
        <5>1. sdno[p] = Num[p]
          BY <1>4, <4>1
        <5> QED BY <1>3, <1>4, <1>5, <1>10, <3>2, <3>3, <5>1
      <4>2. CASE Num[p] = i
        <5>1. sdno[p] = m
          BY <1>3, <4>2 DEF m
        <5> QED BY <1>3, <1>4, <1>5, <1>10, <3>2, <3>3, <4>2, <5>1
      <4> QED BY <1>3, <1>4, <2>1, <4>1, <4>2
    <3>5. Bounds(succs, parent, Num, w, p, k)
      BY <1>3, <2>1, <3>4 DEF Bounds
    <3> QED BY <3>4, <3>5
  <2>2. CASE ~(Num[p] <= i)
    <3>1. Joined(p)
      BY <1>3, <1>4, <1>9, <2>2
    <3> DEFINE t == LT!Top[p]
    <3>2. /\ e \in Node /\ Joined(e) /\ sdno[e] = LowOf(e)
          /\ t \in Node /\ ~Joined(t) /\ Lowest(e, t, p)
      BY <1>2, <3>1, EvalFacts
    <3> HIDE DEF e, t
    <3>3. LowOf(w) <= LowOf(e)
      <4>1. Up(e, p) /\ Num[e] > i
        BY <1>9, <3>2 DEF Lowest
      <4> QED BY <1>3, <1>7, <2>2, <3>2, <4>1 DEF Bounds, Up, LowOf
    <3>4. sdno[e] \in Nat
      BY <1>4, <3>2
    <3>5. k \in Nat /\ k <= m /\ LowOf(w) <= k /\ k <= LowOf(e)
      BY <1>3, <1>5, <1>10, <3>2, <3>3, <3>4
    <3>6. ASSUME NEW y \in Node, Anc(parent, y, p), Num[y] > i
          PROVE  k <= Low(succs, Num, y)
      <4>1. Num[t] < Num[y]
        BY <1>3, <1>4, <1>9, <3>2, <3>6
      <4>2. LowOf(e) <= LowOf(y)
        BY <3>2, <3>6, <4>1 DEF Lowest, Up
      <4>3. LowOf(y) \in Nat
        BY <1>3, <1>4, <3>6, LaterIsNotEntry
      <4>4. k <= LowOf(y)
        BY <3>2, <3>4, <3>5, <4>2, <4>3
      <4> QED BY <4>4 DEF LowOf
    <3>7. Bounds(succs, parent, Num, w, p, k)
      BY <1>3, <2>2, <3>6 DEF Bounds
    <3> QED BY <3>5, <3>7
  <2> QED BY <2>1, <2>2
<1>12. sdno' \in [Node -> Nat]
  BY <1>1, <1>4, <1>11
<1>13. \A n \in Node : n # w => sdno'[n] = sdno[n]
  BY <1>1, <1>4
<1>14. \A n : Joined(n)' = Joined(n)
  BY <1>1, <1>8 DEF Joined
<1>15. Knowing'
  <2>1. ~Joined(w)
    BY <1>3, <1>9
  <2> QED BY <1>2, <1>8, <1>13, <1>14, <2>1 DEF Knowing, PassInv
<1>16. \A n \in Node : Num'[n] < i' => sdno'[n] = Num'[n]
  <2>1. \A n \in Node : Num[n] < i => n # w
    BY <1>3
  <2> QED BY <1>1, <1>4, <1>8, <1>13, <2>1
<1>17. (\A n \in Node : Linking(n)') /\ DOMAIN ancestor' = Node /\ DOMAIN label' = Node
  BY <1>1, <1>2, CompressKeeps
<1>18. Waiting'
  <2>1. \A v : Provided(v)' = Provided(v)
    BY <1>1, <1>8 DEF Provided
  <2>2. Waiting
    BY <1>2 DEF PassInv
  <2> QED BY <1>1, <1>8, <1>14, <2>1, <2>2 DEF Waiting
<1>19. Asking'
  <2>1. ndfs'[i'] = w /\ sdno'[w] = k
    BY <1>1, <1>3, <1>4 DEF w
  <2>2. LowOf(w) <= k /\ k <= i
    BY <1>3, <1>5, <1>11
  <2>3. ASSUME NEW q \in Preds(succs, w) \ todo'
        PROVE  Bounds(succs, parent, Num, w, q, k)
    <3>1. CASE q = p
      BY <1>11, <3>1
    <3>2. CASE q # p
      <4>1. Bounds(succs, parent, Num, w, q, m) /\ q \in Node
        BY <1>1, <1>5, <2>3, <3>2 DEF Preds
      <4>2. \A y \in Node : Num[y] > Num[w] => Low(succs, Num, y) \in Nat
        BY <1>3, <1>4, LaterIsNotEntry DEF LowOf
      <4> QED BY <1>3, <1>4, <1>5, <1>11, <4>1, <4>2 DEF Bounds
    <3> QED BY <3>1, <3>2
  <2>4. todo' \subseteq Preds(succs, w)
    BY <1>1, <1>5
  <2> QED BY <1>1, <1>8, <2>1, <2>2, <2>3, <2>4 DEF Asking
<1>20. PassInv'
  BY <1>1, <1>2, <1>8, <1>12, <1>15, <1>16, <1>17, <1>18, <1>19 DEF PassInv
<1> QED BY <1>1, <1>2, <1>20 DEF LinkInv

-----------------------------------------------------------------------------
(* The block in hand has asked them all: it has the number of its          *)
(* semidominator, whose bucket it enters, and it is linked.                *)
LEMMA LinkNodeLinks ==
  ASSUME LinkInv, LT!LinkNode
  PROVE  LinkInv'
<1> DEFINE w == ndfs[i]
           a == ndfs[sdno[w]]
           f == parent[w]
<1>1. PassInv /\ Asking /\ phase = "preds" /\ succs \in FlowGraphs
  BY DEF LT!LinkNode, LinkInv, PassInv
<1>2. /\ w \in Node \ {Entry} /\ Num[w] = i /\ i \in Nat \ {0, 1}
      /\ LowOf(w) \in 1 .. i - 1 /\ Len(ndfs) \in Nat
      /\ \A n \in Node : Num[n] = i => n = w
      /\ LT!w = w
  BY <1>1, InHand
<1>3. /\ phase' = "bucket" /\ todo = {}
      /\ buckets' = [buckets EXCEPT ![a] = @ \cup {w}]
      /\ ancestor' = [ancestor EXCEPT ![w] = f]
      /\ todo' = buckets'[f]
      /\ UNCHANGED <<succs, ndfs, sdno, parent, label, idom, i>>
  BY <1>2 DEF LT!LinkNode, LT!WaitsIn, LT!Emptied
<1>4. /\ Searched /\ DfsTree(succs, parent, Num) /\ sdno \in [Node -> Nat]
      /\ \A n \in Node : Num[n] < i => sdno[n] = Num[n]
      /\ \A n \in Node : Num[n] \in Nat \ {0}
      /\ f \in Node /\ Num[f] < Num[w]
  BY ZenonT(30), <1>1, <1>2, SearchedFacts DEF PassInv, Searched
<1>5. Searched' /\ Num' = Num /\ (\A n : LowOf(n)' = LowOf(n)) /\ (\A x, n : Up(x, n)' = Up(x, n))
  BY <1>3, <1>4, SameTree
<1>6. sdno[w] = LowOf(w)
  <2>1. \A p \in Node : w \in succs[p] => Bounds(succs, parent, Num, w, p, sdno[w])
    BY <1>1, <1>3 DEF Asking, Preds
  <2>2. LowOf(w) <= sdno[w] /\ sdno[w] \in Nat
    BY <1>1, <1>2, <1>4 DEF Asking
  <2>3. sdno[w] <= LowOf(w)
    BY <1>2, <1>4, <2>1, <2>2, LowIsLeast DEF LowOf
  <2> QED BY <1>2, <2>2, <2>3
<1>7. a \in Node /\ Num[a] = LowOf(w)
  <2>1. LowOf(w) \in 1 .. Len(ndfs)
    BY <1>1, <1>2 DEF PassInv
  <2> QED BY <1>4, <1>6, <2>1 DEF Searched
<1>18. w' = w /\ f' = f
  BY <1>3
<1> HIDE DEF Num, w, a, f
<1>8. \A n \in Node : /\ Joined(n) <=> Num[n] > i
                      /\ Joined(n)' <=> Num[n] > i \/ n = w
  BY <1>1, <1>2, <1>3, <1>5 DEF Joined
<1>9. \A u, t, n : Lowest(u, t, n) => Lowest(u, t, n)'
  BY <1>5, <1>8 DEF Lowest
<1>10. ~Joined(w) /\ \A n \in Node : Joined(n)' <=> Joined(n) \/ n = w
  BY <1>2, <1>8
<1>11. f # w
  BY <1>2, <1>4
<1>12. ASSUME NEW n \in Node PROVE Linking(n)'
  <2>1. Linking(n)
    BY <1>1 DEF PassInv
  <2>2. CASE n # w
    <3>1. ancestor'[n] = ancestor[n] /\ label'[n] = label[n]
      BY <1>3, <2>2
    <3> QED BY <1>5, <1>9, <1>10, <2>1, <2>2, <3>1 DEF Linking
  <2>3. CASE n = w
    <3>1. ancestor'[n] = f
      BY <1>1, <1>3, <2>3 DEF PassInv
    <3>2. label'[n] = w
      BY <1>3, <1>10, <2>1, <2>3 DEF Linking
    <3>3. Up(f, w) /\ Up(w, w)
      BY <1>4, AncSelf, AncOfParent DEF Up, f
    <3>4. ASSUME NEW y \in Node, Up(y, w), Num[f] < Num[y] PROVE y = w
      <4>1. SUFFICES ASSUME y # w PROVE FALSE
        OBVIOUS
      <4>2. Anc(parent, y, f)
        BY <1>2, <3>4, <4>1, AncOfChild DEF Up, f
      <4>3. Num[y] <= Num[f]
        BY <1>4, <4>2, AncNumber DEF DfsTree
      <4> QED BY <1>4, <3>4, <4>3
    <3>5. LowOf(w) <= LowOf(w)
      BY <1>2
    <3>6. Lowest(w, f, w)'
      BY <1>2, <1>4, <1>5, <1>10, <1>18, <3>3, <3>4, <3>5 DEF Lowest
    <3> QED BY <1>2, <1>4, <1>5, <1>10, <1>11, <1>18, <2>3, <3>1, <3>2, <3>3, <3>6 DEF Linking
  <2> QED BY <2>2, <2>3
<1>13. DOMAIN ancestor' = Node /\ DOMAIN label' = Node
  BY <1>1, <1>3 DEF PassInv
<1>14. Knowing'
  BY <1>1, <1>3, <1>5, <1>6, <1>10 DEF Knowing, PassInv
<1>15. Waiting'
  <2>0. Waiting
    BY <1>1 DEF PassInv
  <2>1. buckets' \in [Node -> SUBSET Node]
    BY ZenonT(30), <1>2, <1>3, <2>0 DEF Waiting
  <2>2. ASSUME NEW b \in Node, NEW v \in buckets'[b]
        PROVE  /\ Joined(v)' /\ v # Entry /\ Num[b] = LowOf(v)
               /\ \A c \in Node : parent[c] = b /\ Up(c, v) => Num[c] <= i
    <3>1. v \in Node
      BY <2>1, <2>2
    <3>2. CASE v \in buckets[b]
      BY <1>10, <2>0, <3>1, <3>2 DEF Waiting
    <3>3. CASE v \notin buckets[b]
      <4>1. b = a /\ v = w
        BY <1>3, <2>0, <3>3, <2>2 DEF Waiting
      <4>2. \A c \in Node : Up(c, w) => Num[c] <= i
        BY <1>2, <1>4, AncNumber DEF Up, DfsTree
      <4> QED BY <1>2, <1>7, <1>10, <4>1, <4>2
    <3> QED BY <3>2, <3>3
  <2>3. ASSUME NEW v \in Node, Joined(v)'
        PROVE  Provided(v)' \/ \E b \in Node : v \in buckets'[b]
    <3>1. CASE v = w
      BY <1>3, <1>7, <2>0, <3>1 DEF Waiting
    <3>2. CASE v # w
      <4>1. Provided(v) \/ \E b \in Node : v \in buckets[b]
        BY <1>10, <2>0, <2>3, <3>2 DEF Waiting
      <4>2. CASE Provided(v)
        BY <1>3, <1>5, <4>2 DEF Provided
      <4>3. CASE \E b \in Node : v \in buckets[b]
        <5>1. PICK b \in Node : v \in buckets[b]
          BY <4>3
        <5>2. v \in buckets'[b]
          BY <1>3, <2>0, <5>1 DEF Waiting
        <5> QED BY <5>2
      <4> QED BY <4>1, <4>2, <4>3
    <3> QED BY <3>1, <3>2
  <2> QED BY <1>3, <1>5, <2>1, <2>2, <2>3 DEF Waiting
<1>16. Emptying'
  <2>1. parent'[ndfs'[i']] = f
    BY <1>3 DEF f, w
  <2> QED BY <1>3, <2>1 DEF Emptying
<1>17. PassInv'
  BY <1>1, <1>3, <1>5, <1>12, <1>13, <1>14, <1>15, <1>16 DEF PassInv
<1> QED BY <1>1, <1>3, <1>17 DEF LinkInv

-----------------------------------------------------------------------------
(* Who is in the bucket that is emptied hangs below its owner by the block *)
(* in hand: that far up, no further, the path is linked.                   *)
LEMMA BucketTop ==
  ASSUME PassInv, phase = "bucket", NEW v \in buckets[parent[ndfs[i]]]
  PROVE  /\ v \in Node \ {Entry} /\ Joined(v)
         /\ Num[parent[ndfs[i]]] = LowOf(v) /\ LT!Top[v] = parent[ndfs[i]]
<1> DEFINE w == ndfs[i]
           a == parent[w]
           t == LT!Top[v]
<1>1. /\ w \in Node \ {Entry} /\ Num[w] = i /\ i \in Nat \ {0, 1}
      /\ \A n \in Node : Num[n] = i => n = w
  BY InHand
<1>2. Searched /\ DfsTree(succs, parent, Num) /\ Tree(parent, Num)
  BY DEF PassInv, Searched, DfsTree
<1>3. /\ \A n \in Node : Num[n] \in Nat \ {0}
      /\ \A x, y \in Node : Num[x] = Num[y] => x = y
      /\ a \in Node /\ Num[a] < Num[w]
  BY <1>1, <1>2, SearchedFacts
<1>4. v \in Node
  BY <1>3 DEF PassInv, Waiting
<1>5. /\ Joined(v) /\ v # Entry /\ Num[a] = LowOf(v)
      /\ \A c \in Node : parent[c] = a /\ Up(c, v) => Num[c] <= i
  BY <1>3, <1>4 DEF PassInv, Waiting
<1>6. /\ t \in Node \ {v} /\ Up(t, v) /\ ~Joined(t)
  BY <1>4, <1>5, EvalFacts
<1>7. Up(a, v) /\ Num[a] < Num[v]
  <2>1. PICK q \in Node : /\ Low(succs, Num, v) = Num[q] /\ Num[q] < Num[v]
                          /\ Anc(parent, q, v)
    BY <1>2, <1>4, <1>5, LowFacts
  <2> HIDE DEF Num, a
  <2>2. q = a
    BY <1>3, <1>5, <2>1 DEF LowOf
  <2> QED BY <2>1, <2>2 DEF Up
<1>8. \A n \in Node : Joined(n) <=> Num[n] >= i
  <2>1. \A n \in Node : Num[n] \in Nat /\ i \in Nat
    BY <1>1, <1>3
  <2> QED BY <2>1 DEF Joined
<1> HIDE DEF Num, w, a, t
<1>9. Num[a] <= Num[t]
  <2>1. SUFFICES ASSUME Num[t] < Num[a] PROVE FALSE
    BY <1>3, <1>6
  <2>4. Lowest(LT!Eval(v), t, v)
    BY <1>4, <1>5, EvalFacts DEF t
  <2>5. Joined(a)
    BY <1>3, <1>7, <2>1, <2>4 DEF Lowest
  <2> QED BY <1>1, <1>3, <1>8, <2>5
<1>10. t = a
  <2>1. SUFFICES ASSUME t # a PROVE FALSE
    OBVIOUS
  <2>2. Up(a, t)
    BY <1>2, <1>4, <1>6, <1>7, <1>9, AncChain DEF Up
  <2>3. PICK c \in Node \ {Entry} : parent[c] = a /\ Anc(parent, c, t) /\ Num[a] < Num[c]
    BY <1>2, <1>3, <1>6, <2>1, <2>2, ChildTowards DEF Up
  <2>4. Anc(parent, c, v)
    BY <1>6, <2>3, AncTrans DEF Up
  <2>5. Num[c] <= i
    BY <1>5, <2>3, <2>4 DEF Up
  <2>6. Anc(parent, c, w)
    <3>1. Num[c] <= Num[w] /\ Num[w] <= Num[v]
      BY <1>1, <1>4, <1>5, <1>8, <2>5
    <3> QED BY <1>1, <1>2, <1>4, <2>3, <2>4, <3>1 DEF DfsTree
  <2>7. c = w
    <3>1. SUFFICES ASSUME c # w PROVE FALSE
      OBVIOUS
    <3>2. Anc(parent, c, a)
      BY <1>1, <2>6, <3>1, AncOfChild DEF a
    <3>3. Num[c] <= Num[a]
      BY <1>2, <1>3, <3>2, AncNumber
    <3> QED BY <1>3, <2>3, <3>3
  <2>8. Num[w] <= Num[t]
    BY <1>2, <1>6, <2>3, <2>7, AncNumber
  <2> QED BY <1>1, <1>3, <1>6, <1>8, <2>8
<1> QED BY <1>4, <1>5, <1>10 DEF t, a, w

LEMMA EmptyBucketLinks ==
  ASSUME LinkInv, NEW v \in Node, LT!EmptyBucket(v)
  PROVE  LinkInv'
<1> DEFINE w == ndfs[i]
           a == parent[w]
           e == LT!Eval(v)
           d == IF sdno[e] < sdno[v] THEN e ELSE a
<1>1. PassInv /\ Emptying /\ phase = "bucket" /\ succs \in FlowGraphs
  BY DEF LT!EmptyBucket, LinkInv, PassInv
<1>2. /\ w \in Node \ {Entry} /\ Num[w] = i /\ i \in Nat \ {0, 1} /\ LT!w = w
  BY <1>1, InHand
<1>3. /\ phase' = "bucket" /\ v \in todo /\ todo' = todo \ {v}
      /\ idom' = [idom EXCEPT ![v] = d]
      /\ label' = [x \in Node |-> IF x \in LT!Path[v] THEN LT!Best[x] ELSE label[x]]
      /\ ancestor' = [x \in Node |-> IF x \in LT!Path[v] THEN LT!Top[x] ELSE ancestor[x]]
      /\ UNCHANGED <<succs, ndfs, sdno, parent, buckets, i, phase>>
  BY <1>1, <1>2 DEF LT!EmptyBucket, LT!Compress
<1>4. /\ Searched /\ DfsTree(succs, parent, Num) /\ Tree(parent, Num)
      /\ sdno \in [Node -> Nat]
      /\ \A n \in Node : Num[n] \in Nat \ {0}
      /\ a \in Node /\ idom \in [Node -> Node \cup {NoNode}] /\ idom[Entry] = NoNode
  BY ZenonT(30), <1>1, <1>2, SearchedFacts DEF PassInv, Searched
<1>5. v \in buckets[a]
  BY <1>1, <1>3 DEF Emptying
<1>6. /\ v # Entry /\ Joined(v) /\ Num[a] = LowOf(v) /\ LT!Top[v] = a
  BY <1>1, <1>5, BucketTop
<1>7. /\ e \in Node /\ Joined(e) /\ sdno[e] = LowOf(e) /\ Lowest(e, a, v)
  BY <1>1, <1>6, EvalFacts
<1>8. sdno[v] = LowOf(v)
  BY <1>1, <1>6 DEF PassInv, Knowing
<1>9. Searched' /\ Num' = Num /\ (\A n : LowOf(n)' = LowOf(n)) /\ (\A x, n : Up(x, n)' = Up(x, n))
  BY <1>3, <1>4, SameTree
<1> HIDE DEF Num, w, a, e
<1>10. d = IF LowOf(e) < LowOf(v) THEN e ELSE a
  BY <1>7, <1>8
<1>11. LowOf(e) \in Nat /\ LowOf(v) \in Nat
  BY <1>4, <1>7, <1>8
<1>12. /\ d \in Node
       /\ IF Num[d] = LowOf(v) THEN Idom(succs, v) = d
          ELSE LowOf(v) < Num[d] /\ Num[d] < Num[v] /\ Idom(succs, v) = Idom(succs, d)
  <2>1. CASE LowOf(e) < LowOf(v)
    <3>1. d = e
      BY <1>10, <2>1
    <3>2. Up(e, v) /\ Num[a] < Num[e]
      BY <1>7 DEF Lowest
    <3>3. e # v
      BY <1>11, <2>1
    <3>4. Num[e] < Num[v]
      BY <1>4, <3>2, <3>3, AncNumber DEF Up
    <3>5. Num[e] # LowOf(v) /\ LowOf(v) < Num[e]
      BY <1>4, <1>6, <1>7, <3>2
    <3>6. Idom(succs, e) = Idom(succs, v)
      <4>1. \A y \in Node : Anc(parent, y, v) /\ Num[a] < Num[y] =>
              Low(succs, Num, e) <= Low(succs, Num, y)
        BY <1>7 DEF Lowest, Up, LowOf
      <4>2. Low(succs, Num, e) <= Low(succs, Num, v) /\ Low(succs, Num, v) = Num[a]
        BY <1>6, <1>11, <2>1 DEF LowOf
      <4> QED BY <1>4, <1>6, <1>7, <3>2, <4>1, <4>2, SameIdom DEF Up
    <3> QED BY <1>7, <3>1, <3>4, <3>5, <3>6
  <2>2. CASE ~(LowOf(e) < LowOf(v))
    <3>1. d = a
      BY <1>10, <2>2
    <3>2. ASSUME NEW y \in Node, Anc(parent, y, v), Num[a] < Num[y]
          PROVE  Low(succs, Num, v) <= Low(succs, Num, y)
      <4>1. LowOf(e) <= LowOf(y)
        BY <1>7, <3>2 DEF Lowest, Up
      <4>2. LowOf(y) \in Nat
        BY <1>4, <3>2, LaterIsNotEntry
      <4>3. LowOf(v) <= LowOf(y)
        BY <1>11, <2>2, <4>1, <4>2
      <4> QED BY <4>3 DEF LowOf
    <3>3. Low(succs, Num, v) = Num[a]
      BY <1>6 DEF LowOf
    <3>4. Idom(succs, v) = a
      BY <1>4, <1>6, <3>2, <3>3, LowIsIdom
    <3> QED BY <1>4, <1>6, <3>1, <3>4
  <2> QED BY <2>1, <2>2
<1> HIDE DEF d
<1>13. idom' \in [Node -> Node \cup {NoNode}] /\ idom'[Entry] = NoNode
  BY <1>3, <1>4, <1>6, <1>12, NodeAssumption
<1>14. Provided(v)'
  <2>1. idom'[v] = d
    BY <1>3, <1>4
  <2>2. (idom[v])' = d
    BY <2>1
  <2> QED BY <1>3, <1>9, <1>12, <2>1 DEF Provided
<1>15. ASSUME NEW n \in Node, Provided(n) PROVE Provided(n)'
  <2>1. CASE n = v
    BY <1>14, <2>1
  <2>2. CASE n # v
    <3>1. idom'[n] = idom[n]
      BY <1>3, <1>4, <2>2
    <3> QED BY <1>3, <1>9, <1>15, <3>1 DEF Provided
  <2> QED BY <2>1, <2>2
<1>16. \A n : Joined(n)' = Joined(n)
  BY <1>1, <1>3, <1>9 DEF Joined
<1>17. (\A n \in Node : Linking(n)') /\ DOMAIN ancestor' = Node /\ DOMAIN label' = Node
  BY <1>1, <1>3, CompressKeeps
<1>18. Knowing'
  BY <1>1, <1>3, <1>9, <1>16 DEF Knowing, PassInv
<1>19. Waiting'
  <2>1. Waiting
    BY <1>1 DEF PassInv
  <2> QED BY <1>3, <1>9, <1>15, <1>16, <2>1 DEF Waiting
<1>20. Emptying'
  <2>1. parent'[ndfs'[i']] = a
    BY <1>3 DEF a, w
  <2>2. todo \subseteq buckets[a] /\ \A x \in buckets[a] \ todo : Provided(x)
    BY <1>1 DEF Emptying, a, w
  <2>3. buckets[a] \subseteq Node
    BY <1>1, <1>4 DEF PassInv, Waiting
  <2>4. \A x \in buckets[a] \ todo' : Provided(x)'
    BY <1>3, <1>14, <1>15, <2>2, <2>3
  <2> QED BY <1>3, <2>1, <2>2, <2>4 DEF Emptying
<1>21. PassInv'
  BY <1>1, <1>3, <1>9, <1>13, <1>17, <1>18, <1>19, <1>20 DEF PassInv
<1> QED BY <1>1, <1>3, <1>21 DEF LinkInv

-----------------------------------------------------------------------------
(* The bucket is empty: the next block, or the second pass, in which a     *)
(* block that was given another one's immediate dominator takes it.        *)
LEMMA EndNodeLinks ==
  ASSUME LinkInv, LT!EndNode
  PROVE  LinkInv'
<1> DEFINE w == ndfs[i]
           a == parent[w]
<1>1. PassInv /\ Emptying /\ phase = "bucket" /\ succs \in FlowGraphs
  BY DEF LT!EndNode, LinkInv, PassInv
<1>2. /\ w \in Node \ {Entry} /\ Num[w] = i /\ i \in Nat \ {0, 1} /\ LT!w = w
      /\ \A n \in Node : Num[n] = i => n = w
  BY <1>1, InHand
<1>3. /\ todo = {}
      /\ buckets' = [buckets EXCEPT ![a] = {}]
      /\ IF i > 2 THEN i' = i - 1 /\ phase' = "preds" /\ todo' = Preds(succs, ndfs[i - 1])
         ELSE i' = 2 /\ phase' = "second"
      /\ UNCHANGED <<succs, ndfs, sdno, parent, ancestor, label, idom>>
  BY <1>2, SameSearch DEF LT!EndNode, LT!Process, LT!Emptied, LT!forest
<1>4. /\ Searched /\ DfsTree(succs, parent, Num) /\ Tree(parent, Num)
      /\ sdno \in [Node -> Nat]
      /\ \A n \in Node : Num[n] \in Nat \ {0}
      /\ a \in Node /\ idom \in [Node -> Node \cup {NoNode}] /\ idom[Entry] = NoNode
  BY ZenonT(30), <1>1, <1>2, SearchedFacts DEF PassInv, Searched
<1>5. Waiting /\ Knowing /\ \A n \in Node : Num[n] < i => sdno[n] = Num[n]
  BY <1>1 DEF PassInv
<1>6. \A v \in buckets[a] : Provided(v)
  BY <1>1, <1>3 DEF Emptying
<1>7. Searched' /\ Num' = Num /\ (\A n : LowOf(n)' = LowOf(n)) /\ (\A x, n : Up(x, n)' = Up(x, n))
  BY <1>3, <1>4, SameTree
<1>8. i <= Len(ndfs) /\ Len(ndfs) \in Nat
  BY <1>1 DEF PassInv, Searched
<1>9. \A k \in 1 .. Len(ndfs) : ndfs[k] \in Node /\ Num[ndfs[k]] = k
  BY <1>4 DEF Searched
<1>10. \A n \in Node : Provided(n)' <=> Provided(n)
  BY <1>3, <1>7 DEF Provided
<1>12. ASSUME NEW b \in Node, NEW v \in buckets[b], b # a
       PROVE  /\ v \in Node /\ Joined(v) /\ v # Entry /\ Num[b] = LowOf(v)
              /\ \A c \in Node : parent[c] = b /\ Up(c, v) => Num[c] <= i - 1
  <2>1. /\ v \in Node /\ Joined(v) /\ v # Entry /\ Num[b] = LowOf(v)
        /\ \A c \in Node : parent[c] = b /\ Up(c, v) => Num[c] <= i
    BY <1>5, <1>12 DEF Waiting
  <2> HIDE DEF Num
  <2>2. ASSUME NEW c \in Node, parent[c] = b, Up(c, v)
        PROVE  Num[c] <= i - 1
    <3>1. c # w
      BY <1>12, <2>2
    <3>2. Num[c] <= i /\ Num[c] # i
      BY <1>2, <2>1, <2>2, <3>1
    <3> QED BY <1>2, <1>4, <3>2
  <2> QED BY <2>1, <2>2
<1> HIDE DEF Num, w, a
<1>13. CASE i > 2
  <2>1. i' = i - 1 /\ phase' = "preds" /\ todo' = Preds(succs, ndfs[i - 1]) /\ i' \in 2 .. Len(ndfs)
    BY <1>2, <1>3, <1>8, <1>13
  <2>2. \A n \in Node : Joined(n)' <=> Joined(n)
    BY <1>1, <1>2, <1>4, <1>7, <2>1 DEF Joined
  <2>3. \A n \in Node : Linking(n)'
    <3>1. \A u, t, n : Lowest(u, t, n) => Lowest(u, t, n)'
      BY <1>7, <2>2 DEF Lowest
    <3> QED BY <1>1, <1>3, <1>7, <2>2, <3>1 DEF Linking, PassInv
  <2>4. Knowing'
    BY <1>3, <1>5, <1>7, <2>2 DEF Knowing
  <2>5. \A n \in Node : Num'[n] < i' => sdno'[n] = Num'[n]
    BY <1>2, <1>3, <1>4, <1>5, <1>7, <2>1
  <2>6. Waiting'
    <3>1. buckets' \in [Node -> SUBSET Node]
      BY <1>3, <1>4, <1>5 DEF Waiting
    <3>2. ASSUME NEW b \in Node, NEW v \in buckets'[b]
          PROVE  /\ Joined(v)' /\ v # Entry /\ Num[b] = LowOf(v)
                 /\ \A c \in Node : parent[c] = b /\ Up(c, v) => Num[c] <= i'
      <4>1. b # a /\ v \in buckets[b]
        BY <1>3, <1>4, <1>5, <3>2 DEF Waiting
      <4> QED BY <1>12, <2>1, <2>2, <4>1
    <3>3. ASSUME NEW v \in Node, Joined(v)'
          PROVE  Provided(v)' \/ \E b \in Node : v \in buckets'[b]
      <4>1. CASE Provided(v)
        BY <1>10, <4>1
      <4>2. CASE ~Provided(v)
        <5>1. PICK b \in Node : v \in buckets[b]
          BY <1>5, <2>2, <3>3, <4>2 DEF Waiting
        <5>2. b # a
          BY <1>6, <4>2, <5>1
        <5>3. v \in buckets'[b]
          BY <1>3, <1>5, <5>1, <5>2 DEF Waiting
        <5> QED BY <5>3
      <4> QED BY <4>1, <4>2
    <3> QED BY <1>3, <1>7, <3>1, <3>2, <3>3 DEF Waiting
  <2>7. Asking'
    <3> DEFINE x == ndfs[i - 1]
    <3>1. i - 1 \in 1 .. Len(ndfs) /\ i - 1 \in Nat \ {0, 1}
      BY <1>2, <1>8, <1>13
    <3>2. x \in Node /\ Num[x] = i - 1
      BY <1>9, <3>1
    <3> HIDE DEF x
    <3>3. x # Entry
      BY <1>4, <3>1, <3>2, SearchedFacts
    <3>4. sdno[x] = i - 1
      BY <1>2, <1>5, <3>2
    <3>5. LowOf(x) <= i - 1
      <4>1. PICK q \in Node : Low(succs, Num, x) = Num[q] /\ Num[q] < Num[x]
        BY <1>4, <3>2, <3>3, LowFacts
      <4> QED BY <1>4, <3>2, <4>1 DEF LowOf
    <3>6. ndfs'[i'] = x /\ sdno'[x] = i - 1 /\ todo' = Preds(succs, x)
      BY <1>3, <2>1, <3>4 DEF x
    <3>7. i - 1 <= i - 1
      BY <3>1
    <3> QED BY <1>3, <1>7, <2>1, <3>5, <3>6, <3>7 DEF Asking
  <2>8. PassInv'
    BY <1>1, <1>3, <1>7, <2>1, <2>3, <2>4, <2>5, <2>6, <2>7 DEF PassInv
  <2> QED BY <1>1, <1>3, <2>1, <2>8 DEF LinkInv
<1>14. CASE ~(i > 2)
  <2>1. i = 2 /\ i' = 2 /\ phase' = "second"
    BY <1>2, <1>3, <1>14
  <2>2. ASSUME NEW n \in Node \ {Entry}
        PROVE  sdno[n] = LowOf(n) /\ ~(Num[n] < 2) /\ Provided(n)
    <3>1. Num[n] # 1
      BY <1>4, SearchedFacts
    <3>2. ~(Num[n] < 2)
      BY <1>4, <3>1
    <3>3. Joined(n)
      BY <1>1, <1>4, <2>1, <3>2 DEF Joined
    <3>4. sdno[n] = LowOf(n)
      BY <1>5, <3>3 DEF Knowing
    <3>5. Provided(n)
      <4>1. SUFFICES ASSUME ~Provided(n) PROVE FALSE
        OBVIOUS
      <4>2. PICK b \in Node : n \in buckets[b]
        BY <1>5, <3>3, <4>1 DEF Waiting
      <4>3. b # a
        BY <1>6, <4>1, <4>2
      <4>4. /\ Num[b] = LowOf(n)
            /\ \A c \in Node : parent[c] = b /\ Up(c, n) => Num[c] <= i - 1
        BY <1>12, <4>2, <4>3
      <4>5. Up(b, n) /\ b # n
        <5>1. PICK q \in Node : /\ Low(succs, Num, n) = Num[q] /\ Num[q] < Num[n]
                                /\ Anc(parent, q, n)
          BY <1>4, LowFacts
        <5>2. q = b
          BY <1>4, <4>4, <5>1, SearchedFacts DEF LowOf
        <5> QED BY <1>4, <5>1, <5>2 DEF Up
      <4>6. PICK c \in Node \ {Entry} : parent[c] = b /\ Anc(parent, c, n) /\ Num[b] < Num[c]
        BY <1>4, <4>5, ChildTowards DEF Up
      <4>7. Num[c] <= i - 1
        BY <4>4, <4>6 DEF Up
      <4>8. Num[c] # 1
        BY <1>4, SearchedFacts
      <4> QED BY <1>4, <2>1, <4>7, <4>8
    <3> QED BY <3>2, <3>4, <3>5
  <2>3. SecondInv'
    <3>1. i' \in 2 .. Len(ndfs') + 1
      BY <1>3, <1>8, <2>1
    <3>2. \A n \in Node \ {Entry} :
            sdno'[n] = LowOf(n)' /\ (IF Num'[n] < i' THEN idom'[n] = Idom(succs', n) ELSE Provided(n)')
      BY <1>3, <1>7, <1>10, <2>1, <2>2
    <3> QED BY <1>3, <1>4, <1>7, <3>1, <3>2 DEF SecondInv
  <2> QED BY <1>1, <1>3, <2>1, <2>3 DEF LinkInv
<1> QED BY <1>13, <1>14

LEMMA SecondPassLinks ==
  ASSUME LinkInv, LT!SecondPass
  PROVE  LinkInv'
<1> DEFINE w == ndfs[i]
           k == LT!Final
<1>1. SecondInv /\ phase = "second" /\ succs \in FlowGraphs
  BY DEF LT!SecondPass, LinkInv
<1>2. /\ i <= Len(ndfs) /\ i' = i + 1 /\ phase' = "second"
      /\ idom' = [idom EXCEPT ![w] = k]
      /\ k = IF idom[w] # ndfs[sdno[w]] THEN idom[idom[w]] ELSE idom[w]
      /\ UNCHANGED <<succs, ndfs, sdno, parent>>
  BY <1>1 DEF LT!SecondPass, LT!Final, LT!w
<1>3. /\ Searched /\ DfsTree(succs, parent, Num)
      /\ \A n \in Node : Num[n] \in Nat \ {0}
      /\ Len(ndfs) \in Nat
      /\ \A n \in Node : Num[n] = 1 <=> n = Entry
      /\ \A x, y \in Node : Num[x] = Num[y] => x = y
  BY <1>1, SearchedFacts DEF SecondInv, Searched
<1>4. /\ \A m \in 1 .. Len(ndfs) : ndfs[m] \in Node /\ Num[ndfs[m]] = m
      /\ i \in 2 .. Len(ndfs) + 1
      /\ idom \in [Node -> Node \cup {NoNode}] /\ idom[Entry] = NoNode
  BY <1>1, <1>3 DEF SecondInv, Searched
<1> HIDE DEF Num
<1>5. w \in Node \ {Entry} /\ Num[w] = i /\ i \in Nat
  <2>1. i \in 1 .. Len(ndfs) /\ i # 1
    BY <1>2, <1>3, <1>4
  <2> QED BY <1>3, <1>4, <2>1
<1> HIDE DEF w, k
<1>6. sdno[w] = LowOf(w) /\ Provided(w)
  BY <1>1, <1>5 DEF SecondInv
<1>7. ndfs[LowOf(w)] \in Node /\ Num[ndfs[LowOf(w)]] = LowOf(w)
  <2>1. PICK q \in Node : Low(succs, Num, w) = Num[q]
    BY <1>3, <1>5, LowFacts
  <2>2. LowOf(w) \in 1 .. Len(ndfs)
    BY <1>3, <2>1 DEF LowOf, Searched
  <2> QED BY <1>4, <2>2
<1>8. k = Idom(succs, w)
  <2>1. CASE Num[idom[w]] = LowOf(w)
    <3>1. idom[w] = ndfs[sdno[w]]
      BY <1>3, <1>6, <1>7, <2>1 DEF Provided
    <3> QED BY <1>2, <1>6, <2>1, <3>1 DEF Provided
  <2>2. CASE Num[idom[w]] # LowOf(w)
    <3>1. /\ idom[w] \in Node
          /\ LowOf(w) < Num[idom[w]] /\ Num[idom[w]] < Num[w]
          /\ Idom(succs, w) = Idom(succs, idom[w])
      BY <1>6, <2>2 DEF Provided
    <3>2. idom[w] # ndfs[sdno[w]]
      BY <1>6, <1>7, <2>2
    <3>3. idom[w] # Entry
      <4>1. LowOf(w) \in Nat \ {0}
        BY <1>3, <1>7
      <4> QED BY <1>3, <3>1, <4>1
    <3>4. idom[idom[w]] = Idom(succs, idom[w])
      BY <1>1, <1>5, <3>1, <3>3 DEF SecondInv
    <3> QED BY <1>2, <3>1, <3>2, <3>4
  <2> QED BY <2>1, <2>2
<1>9. k \in Node
  BY <1>1, <1>5, <1>8, IdomFacts
<1>10. Searched' /\ Num' = Num /\ (\A n : LowOf(n)' = LowOf(n)) /\ (\A x, n : Up(x, n)' = Up(x, n))
  BY <1>2, <1>3, SameTree
<1>11. idom' \in [Node -> Node \cup {NoNode}] /\ idom'[Entry] = NoNode
  BY <1>2, <1>4, <1>5, <1>9, NodeAssumption
<1>12. ASSUME NEW n \in Node \ {Entry}
       PROVE  /\ sdno'[n] = LowOf(n)'
              /\ IF Num'[n] < i' THEN idom'[n] = Idom(succs', n) ELSE Provided(n)'
  <2>1. /\ sdno[n] = LowOf(n)
        /\ IF Num[n] < i THEN idom[n] = Idom(succs, n) ELSE Provided(n)
    BY <1>1 DEF SecondInv
  <2>2. CASE n = w
    BY <1>2, <1>4, <1>5, <1>8, <1>10, <2>1, <2>2
  <2>3. CASE n # w
    <3>1. idom'[n] = idom[n]
      BY <1>2, <1>4, <2>3
    <3>2. Provided(n)' <=> Provided(n)
      BY <1>2, <1>10, <3>1 DEF Provided
    <3>3. Num[n] < i + 1 <=> Num[n] < i
      BY <1>3, <1>5, <2>3
    <3> QED BY <1>2, <1>10, <2>1, <3>1, <3>2, <3>3
  <2> QED BY <2>2, <2>3
<1>13. i' \in 2 .. Len(ndfs') + 1
  BY <1>2, <1>3, <1>4
<1>14. SecondInv'
  BY <1>10, <1>11, <1>12, <1>13 DEF SecondInv
<1> QED BY <1>1, <1>2, <1>14 DEF LinkInv

LEMMA AddDTreeSuccsLinks ==
  ASSUME LinkInv, LT!AddDTreeSuccs
  PROVE  LinkInv'
<1>1. SecondInv /\ phase = "second" /\ succs \in FlowGraphs
  BY DEF LT!AddDTreeSuccs, LinkInv
<1>2. /\ i > Len(ndfs) /\ phase' = "done"
      /\ dtree' = [a \in Node |-> {n \in Node : Preds(succs, n) # {} /\ idom[n] = a}]
      /\ UNCHANGED <<succs, idom>>
  BY SameSearch DEF LT!AddDTreeSuccs
<1>3. /\ Searched /\ i \in Nat /\ Len(ndfs) \in Nat
      /\ \A n \in Node : Num[n] \in Nat /\ Num[n] <= Len(ndfs)
      /\ \A n \in Node \ {Entry} : parent[n] \in Node /\ n \in succs[parent[n]]
      /\ idom \in [Node -> Node \cup {NoNode}] /\ idom[Entry] = NoNode
  BY <1>1, SearchedFacts DEF SecondInv, Searched
<1>4. \A n \in Node : idom[n] = Idom(succs, n)
  <2> HIDE DEF Num
  <2>1. \A n \in Node : Num[n] < i
    BY <1>2, <1>3
  <2>2. Idom(succs, Entry) = NoNode
    BY DEF Idom
  <2> QED BY <1>1, <1>3, <2>1, <2>2 DEF SecondInv
<1>5. idom = [n \in Node |-> Idom(succs, n)]
  BY <1>3, <1>4
<1>6. \A n \in Node : Preds(succs, n) # {} <=> n # Entry
  <2>1. \A m \in Node : Entry \notin succs[m]
    BY <1>1, GraphFacts
  <2> QED BY <1>3, <2>1 DEF Preds
<1>7. \A a \in Node : {n \in Node : Preds(succs, n) # {} /\ idom[n] = a}
                      = {n \in Node \ {Entry} : idom[n] = a}
  BY <1>6
<1>8. dtree' = DomTree(succs)
  BY <1>2, <1>5, <1>7, Zenon DEF DomTree
<1>9. TreeRight'
  BY <1>2, <1>5, <1>8 DEF TreeRight
<1> QED BY <1>1, <1>2, <1>9 DEF LinkInv

LEMMA StutterLinks ==
  ASSUME LinkInv,
         UNCHANGED <<succs, ndfs, sdno, parent, ancestor, label, buckets, idom, dtree, i, todo, phase>>
  PROVE  LinkInv'
<1>1. /\ Num' = Num /\ (\A n : LowOf(n)' = LowOf(n)) /\ (\A x, n : Up(x, n)' = Up(x, n))
      /\ Searched' = Searched
  BY SameTree
<1>2. GrowInv' = GrowInv
  BY DEF GrowInv
<1> HIDE DEF Num
<1>3. \A n : Joined(n)' = Joined(n)
  BY <1>1 DEF Joined
<1>4. \A u, t, n : Lowest(u, t, n)' <=> Lowest(u, t, n)
  BY <1>1, <1>3 DEF Lowest
<1>5. \A n : Linking(n)' <=> Linking(n)
  BY <1>1, <1>3, <1>4 DEF Linking
<1>6. \A n : Provided(n)' <=> Provided(n)
  BY <1>1 DEF Provided
<1>7. Waiting' <=> Waiting
  BY <1>1, <1>3, <1>6 DEF Waiting
<1>8. (Knowing' <=> Knowing) /\ (Asking' <=> Asking) /\ (Emptying' <=> Emptying)
  BY <1>1, <1>3, <1>6 DEF Knowing, Asking, Emptying
<1>9. PassInv => PassInv'
  BY <1>1, <1>5, <1>7, <1>8 DEF PassInv
<1>10. SecondInv => SecondInv'
  BY <1>1, <1>6 DEF SecondInv
<1>11. TreeRight' = TreeRight
  BY DEF TreeRight
<1> QED BY <1>2, <1>9, <1>10, <1>11 DEF LinkInv

LEMMA LinkStep == ASSUME LinkInv, LT!Next PROVE LinkInv'
<1>1. CASE \E n \in Node : LT!Visit(n)
  BY <1>1, VisitLinks
<1>2. CASE \E n \in Node : LT!EvalPred(n)
  BY <1>2, EvalPredLinks
<1>3. CASE \E n \in Node : LT!EmptyBucket(n)
  BY <1>3, EmptyBucketLinks
<1>4. CASE LT!StartPasses
  BY <1>4, StartPassesLinks
<1>5. CASE LT!LinkNode
  BY <1>5, LinkNodeLinks
<1>6. CASE LT!EndNode
  BY <1>6, EndNodeLinks
<1>7. CASE LT!SecondPass
  BY <1>7, SecondPassLinks
<1>8. CASE LT!AddDTreeSuccs
  BY <1>8, AddDTreeSuccsLinks
<1>9. CASE LT!Done
  BY <1>9, StutterLinks DEF LT!Done, LT!vars, LT!forest
<1> QED BY <1>1, <1>2, <1>3, <1>4, <1>5, <1>6, <1>7, <1>8, <1>9 DEF LT!Next

-----------------------------------------------------------------------------
(* What LinksSound says in the terms of the model follows.                 *)
LEMMA SearchedAll ==
  ASSUME Searched
  PROVE  Len(ndfs) = Cardinality(Node) /\ LT!N = Len(ndfs) /\ LT!num = Num
<1>1. /\ ndfs \in Seq(Node) /\ Len(ndfs) \in Nat
      /\ \A k \in 1 .. Len(ndfs) : Num[ndfs[k]] = k
      /\ \A n \in Node : Num[n] \in 1 .. Len(ndfs) /\ ndfs[Num[n]] = n
  BY DEF Searched
<1>2. LT!num = Num
  BY DEF LT!num, LT!Number, Num, Number
<1> HIDE DEF Num
<1>3. Visited(ndfs) = Node
  BY <1>1 DEF Visited
<1>4. \A k, m \in 1 .. Len(ndfs) : ndfs[k] = ndfs[m] => k = m
  BY <1>1
<1>5. Len(ndfs) = Cardinality(Node)
  BY <1>1, <1>3, <1>4, AllCounted
<1>6. LT!N = Cardinality(Node)
  BY DEF LT!N, LT!Cardinality, Cardinality
<1> QED BY <1>2, <1>5, <1>6

(* The definition of the semidominator in the model is the one reasoned    *)
(* about here.                                                             *)
LEMMA SemiIsLow ==
  ASSUME Searched, NEW n \in Node
  PROVE  LT!Semi(n) = LowOf(n)
<1> DEFINE L == Cardinality(Node)
           H == High(succs, Num, n)
           next == [x \in Node |-> {p \in Node : Num[p] > Num[n] /\ x \in succs[p]}]
           wider(S) == S \cup {p \in Node : LT!num[p] > LT!num[n] /\ succs[p] \cap S # {}}
           solves(f) == f = [k \in 0 .. LT!N |->
                               IF k = 0 THEN {n}
                               ELSE LET S == f[k - 1]
                                    IN  S \cup {p \in Node : /\ LT!num[p] > LT!num[n]
                                                             /\ succs[p] \cap S # {}}]
           above == CHOOSE f : solves(f)
           numbers(S) == {LT!num[p] : p \in {q \in Node : succs[q] \cap S # {}}}
           least(T) == CHOOSE k \in T : \A j \in T : k <= j
<1>1. LT!N = L /\ LT!num = Num /\ L \in Nat
  BY SearchedAll, NodeAssumption, FS_CardinalityType
<1>2. LT!Semi(n) = least(numbers(above[LT!N]))
  BY Zenon DEF LT!Semi
<1>3. \A m \in Node : succs[m] \subseteq Node
  BY SearchedFacts, GraphFacts
<1>4. \A S \in SUBSET Node : wider(S) = S \cup UNION {next[x] : x \in S}
  <2> SUFFICES ASSUME NEW S \in SUBSET Node
               PROVE  wider(S) = S \cup UNION {next[x] : x \in S}
    OBVIOUS
  <2>1. \A x \in S : next[x] = {p \in Node : Num[p] > Num[n] /\ x \in succs[p]}
    OBVIOUS
  <2> HIDE DEF Num, next
  <2>2. ASSUME NEW p PROVE p \in wider(S) <=> p \in S \cup UNION {next[x] : x \in S}
    BY <1>1, <2>1
  <2> QED BY <2>2, Zenon
<1>5. next \in [Node -> SUBSET Node] /\ {n} \in SUBSET Node
  OBVIOUS
<1>6. solves(above)
  <2>1. PICK f : Widens(f, Node, next, {n}, L)
    BY <1>1, <1>5, WideningExists
  <2>2. /\ f \in [0 .. L -> SUBSET Node] /\ f[0] = {n}
        /\ \A k \in 1 .. L : f[k] = Widen(next, f[k - 1])
    BY <2>1, Zenon DEF Widens
  <2> HIDE DEF next
  <2>3. ASSUME NEW k \in 0 .. L
        PROVE  f[k] = IF k = 0 THEN {n} ELSE wider(f[k - 1])
    <3>1. CASE k = 0
      BY <2>2, <3>1
    <3>2. CASE k # 0
      <4>1. k \in 1 .. L /\ k - 1 \in 0 .. L
        BY <1>1, <3>2
      <4>2. f[k - 1] \in SUBSET Node
        BY <2>2, <4>1
      <4>3. f[k] = wider(f[k - 1])
        BY <1>4, <2>2, <4>1, <4>2 DEF Widen
      <4> QED BY <3>2, <4>3
    <3> QED BY <3>1, <3>2
  <2>4. f = [k \in 0 .. L |-> IF k = 0 THEN {n} ELSE wider(f[k - 1])]
    <3>1. f = [k \in 0 .. L |-> f[k]]
      BY <2>2
    <3> HIDE DEF wider
    <3> QED BY <2>3, <3>1, Zenon
  <2>5. solves(f)
    BY ZenonT(30), <1>1, <2>4
  <2> HIDE DEF solves
  <2> QED BY <2>5, Zenon
<1>7. above = [k \in 0 .. L |-> IF k = 0 THEN {n} ELSE wider(above[k - 1])]
  <2> DEFINE f == above
  <2>1. solves(f)
    BY <1>6
  <2> HIDE DEF f
  <2>2. f = [k \in 0 .. L |-> IF k = 0 THEN {n} ELSE wider(f[k - 1])]
    BY <1>1, <2>1, Zenon
  <2> QED BY <2>2 DEF f
<1>8. /\ H \in SUBSET Node /\ n \in H /\ HighClosed(succs, Num, n, H)
      /\ \A S \in SUBSET Node : n \in S /\ HighClosed(succs, Num, n, S) => H \subseteq S
  BY HighFacts
<1>9. \A S \in SUBSET H : wider(S) \in SUBSET H
  <2> SUFFICES ASSUME NEW S \in SUBSET H, NEW p \in wider(S) PROVE p \in H
    OBVIOUS
  <2>1. CASE p \in S
    BY <2>1
  <2>2. CASE p \notin S
    <3>1. p \in Node /\ Num[p] > Num[n] /\ succs[p] \cap S # {}
      BY <1>1, <2>2
    <3> HIDE DEF H, Num
    <3> QED BY <1>8, <3>1 DEF HighClosed
  <2> QED BY <2>1, <2>2
<1> HIDE DEF above, wider, H, Num, next
<1>10. above[0] = {n} /\ \A k \in 1 .. L : above[k] = wider(above[k - 1])
  <2>1. ASSUME NEW k \in 0 .. L
        PROVE  above[k] = IF k = 0 THEN {n} ELSE wider(above[k - 1])
    BY <1>7
  <2> QED BY <1>1, <2>1
<1>11. \A k \in 0 .. L : above[k] \in SUBSET H
  <2> DEFINE T == {k \in 0 .. L : above[k] \notin SUBSET H}
  <2>1. SUFFICES ASSUME T # {} PROVE FALSE
    OBVIOUS
  <2>2. T \subseteq Nat
    BY <1>1
  <2>3. PICK k \in T : \A m \in T : k <= m
    <3> HIDE DEF T
    <3> QED BY <2>1, <2>2, Least
  <2>4. k \in 0 .. L /\ above[k] \notin SUBSET H
    BY <2>3
  <2>5. k # 0
    BY <1>8, <1>10, <2>4
  <2>6. k - 1 \in 0 .. L /\ k \in 1 .. L /\ ~(k <= k - 1)
    BY <1>1, <2>4, <2>5
  <2>7. above[k - 1] \in SUBSET H
    BY <2>3, <2>6
  <2> QED BY <1>9, <1>10, <2>4, <2>6, <2>7
<1>12. Rounds(above, next, {n}, L)
  <2>1. ASSUME NEW k \in 0 .. L
        PROVE  (IF k = 0 THEN {n} ELSE wider(above[k - 1]))
               = (IF k = 0 THEN {n} ELSE above[k - 1] \cup UNION {next[x] : x \in above[k - 1]})
    <3>1. CASE k = 0
      BY <3>1
    <3>2. CASE k # 0
      <4>1. k - 1 \in 0 .. L
        BY <1>1, <3>2
      <4>2. above[k - 1] \in SUBSET Node
        BY <1>8, <1>11, <4>1
      <4> QED BY <1>4, <3>2, <4>2
    <3> QED BY <3>1, <3>2
  <2>2. above = [k \in 0 .. L |->
                   IF k = 0 THEN {n}
                   ELSE above[k - 1] \cup UNION {next[x] : x \in above[k - 1]}]
    BY <1>7, <2>1, Zenon
  <2> QED BY <2>2, Zenon DEF Rounds
<1>13. above[L] \in SUBSET Node /\ n \in above[L] /\ ClosedIn(next, above[L])
  <2> HIDE DEF solves, numbers, least
  <2>1. L = Cardinality(Node) /\ IsFiniteSet(Node)
    BY NodeAssumption
  <2> DEFINE A == {n}
  <2>2. Rounds(above, next, A, L) /\ A \in SUBSET Node /\ n \in A
    BY <1>12
  <2> HIDE DEF L, A
  <2>3. A \subseteq above[L] /\ above[L] \in SUBSET Node /\ ClosedIn(next, above[L])
    BY ZenonT(30), <1>5, <2>1, <2>2, Collected
  <2> QED BY <2>2, <2>3
<1>14. HighClosed(succs, Num, n, above[L])
  <2> SUFFICES ASSUME NEW p \in Node, Num[p] > Num[n], NEW x \in succs[p] \cap above[L]
               PROVE  p \in above[L]
    BY DEF HighClosed
  <2>1. p \in next[x]
    BY <1>3 DEF next
  <2> QED BY <1>13, <2>1 DEF ClosedIn
<1>15. above[L] = H
  <2>1. H \subseteq above[L]
    BY <1>8, <1>13, <1>14
  <2>2. above[L] \subseteq H
    BY <1>1, <1>11
  <2> QED BY <2>1, <2>2
<1>16. least(numbers(H)) = LowOf(n)
  BY <1>1, Zenon DEF LowOf, Low, From, H
<1> QED BY <1>1, <1>2, <1>15, <1>16

LEMMA LinkedIsJoined ==
  ASSUME PassInv, phase # "dfs"
  PROVE  LT!Linked = {n \in Node : Joined(n)}
<1>1. /\ ndfs[i] \in Node /\ Num[ndfs[i]] = i /\ i \in Nat \ {0, 1} /\ LT!w = ndfs[i]
      /\ \A n \in Node : Num[n] = i => n = ndfs[i]
  BY InHand
<1>2. Searched /\ LT!N = Len(ndfs) /\ Len(ndfs) \in Nat
  BY SearchedAll DEF PassInv, Searched
<1>3. /\ \A k \in 1 .. Len(ndfs) : ndfs[k] \in Node /\ Num[ndfs[k]] = k
      /\ \A n \in Node : Num[n] \in 1 .. Len(ndfs) /\ ndfs[Num[n]] = n
  BY <1>2 DEF Searched
<1> HIDE DEF Num
<1>4. {ndfs[k] : k \in i + 1 .. LT!N} = {n \in Node : Num[n] > i}
  <2>1. ASSUME NEW k \in i + 1 .. LT!N PROVE ndfs[k] \in Node /\ Num[ndfs[k]] > i
    <3>1. k \in 1 .. Len(ndfs) /\ k > i
      BY <1>1, <1>2
    <3> QED BY <1>3, <3>1
  <2>2. ASSUME NEW n \in Node, Num[n] > i PROVE \E k \in i + 1 .. LT!N : n = ndfs[k]
    <3>1. Num[n] \in i + 1 .. LT!N /\ n = ndfs[Num[n]]
      BY <1>1, <1>2, <1>3, <2>2
    <3> QED BY <3>1
  <2> QED BY <2>1, <2>2
<1>5. {ndfs[i]} = {n \in Node : Num[n] = i}
  BY <1>1
<1>6. LT!Linked = {ndfs[k] : k \in i + 1 .. LT!N} \cup (IF phase = "bucket" THEN {ndfs[i]} ELSE {})
  BY <1>1 DEF LT!Linked
<1> QED BY <1>4, <1>5, <1>6 DEF Joined

(* The linked blocks on the way up, by the recursion of the model.         *)
LEMMA LinkedPathIs ==
  ASSUME PassInv, phase # "dfs", NEW n \in Node
  PROVE  LT!LinkedPath[n] = {y \in Node : Up(y, n) /\ Joined(y)}
<1>1. /\ Num \in [Node -> Nat \ {0}] /\ Tree(parent, Num) /\ Len(ndfs) + 1 \in Nat
      /\ \A x, y \in Node : Num[x] = Num[y] => x = y
      /\ \A x \in Node : (x = Entry <=> Num[x] = 1) /\ Num[x] < Len(ndfs) + 1
      /\ \A x \in Node \ {Entry} : parent[x] \in Node /\ Num[parent[x]] < Num[x]
  <2>1. Searched /\ Len(ndfs) \in Nat
    BY DEF PassInv, Searched
  <2>2. \A x \in Node : Num[x] \in Nat /\ Num[x] <= Len(ndfs)
    BY <2>1, SearchedFacts
  <2>3. \A x \in Node : Num[x] < Len(ndfs) + 1
    <3> HIDE DEF Num
    <3> QED BY <2>1, <2>2
  <2> QED BY <2>1, <2>3, SearchedFacts
<1>2. i \in Nat \ {0, 1}
  BY InHand
<1> DEFINE stop == {x \in Node : ~Joined(x)}
           base == [x \in Node |-> {}]
           comb == [p \in Node \X SUBSET Node |-> {p[1]} \cup p[2]]
           P(x) == {y \in Node : Up(y, x) /\ Joined(y)}
           solves(f) == f = [x \in Node |-> IF x \in LT!Linked THEN {x} \cup f[parent[x]] ELSE {}]
           path == LT!LinkedPath
<1> HIDE DEF Num
<1>3. \A x \in Node : Joined(x) => x # Entry
  BY <1>1, <1>2, NodeAssumption DEF Joined
<1>4. LT!Linked = {x \in Node : Joined(x)}
  BY LinkedIsJoined
<1>5. \E f : solves(f)
  <2>1. base \in [Node -> SUBSET Node] /\ comb \in [Node \X SUBSET Node -> SUBSET Node]
    OBVIOUS
  <2>2. \A x \in Node \ stop : parent[x] \in Node /\ Num[parent[x]] < Num[x]
    BY <1>1, <1>3
  <2> HIDE DEF base, comb, stop
  <2>3. PICK f \in [Node -> SUBSET Node] : Recurs(f, stop, parent, base, comb)
    BY <1>1, <2>1, <2>2, RecursionUpwards
  <2>4. ASSUME NEW x \in Node
        PROVE  f[x] = IF x \in LT!Linked THEN {x} \cup f[parent[x]] ELSE {}
    <3>1. f[x] = IF x \in stop THEN base[x] ELSE comb[<<x, f[parent[x]]>>]
      BY <2>3 DEF Recurs
    <3>2. CASE x \in stop
      BY <1>4, <3>1, <3>2 DEF stop, base
    <3>3. CASE x \notin stop
      <4>1. f[parent[x]] \in SUBSET Node
        BY <2>2, <2>3, <3>3
      <4>2. comb[<<x, f[parent[x]]>>] = {x} \cup f[parent[x]]
        BY <4>1 DEF comb
      <4> QED BY <1>4, <3>1, <3>3, <4>2 DEF stop
    <3> QED BY <3>2, <3>3
  <2>5. f = [x \in Node |-> f[x]]
    BY <2>3
  <2>6. solves(f)
    BY <2>4, <2>5, Zenon
  <2> QED BY <2>6
<1>6. LT!LinkedPath = CHOOSE f : solves(f)
  BY Zenon DEF LT!LinkedPath
<1>7. solves(path)
  <2> HIDE DEF solves
  <2> QED BY <1>5, <1>6, Zenon
<1> HIDE DEF path
<1>8. \A x \in Node : path[x] = IF Joined(x) THEN {x} \cup path[parent[x]] ELSE {}
  BY <1>4, <1>7
<1>9. ASSUME NEW x \in Node
      PROVE  P(x) = IF Joined(x) THEN {x} \cup P(parent[x]) ELSE {}
  <2>1. CASE Joined(x)
    <3>1. parent[x] \in Node
      BY <1>1, <1>3, <2>1
    <3>2. x \in P(x)
      BY <2>1, AncSelf DEF Up
    <3>3. \A y \in Node : Up(y, parent[x]) => Up(y, x)
      BY <3>1, AncOfParent DEF Up
    <3>4. \A y \in Node : Up(y, x) /\ y # x => Up(y, parent[x])
      BY AncOfChild DEF Up
    <3> QED BY <2>1, <3>2, <3>3, <3>4
  <2>2. CASE ~Joined(x)
    <3>1. ASSUME NEW y \in Node, Up(y, x), Joined(y) PROVE FALSE
      <4>1. Num[y] <= Num[x]
        BY <1>1, <3>1, AncNumber DEF Up
      <4> QED BY <1>1, <1>2, <2>2, <3>1, <4>1 DEF Joined
    <3> QED BY <2>2, <3>1
  <2> QED BY <2>1, <2>2
<1>10. P(n) = path[n]
  <2> DEFINE B == {x \in Node : P(x) # path[x]}
  <2> HIDE DEF P
  <2>1. SUFFICES ASSUME B # {} PROVE FALSE
    OBVIOUS
  <2>2. PICK x \in B : \A y \in B : Num[x] <= Num[y]
    <3>1. B \in SUBSET Node
      OBVIOUS
    <3> HIDE DEF B
    <3> QED BY <1>1, <2>1, <3>1, LowestNumber
  <2>3. x \in Node /\ P(x) # path[x]
    BY <2>2
  <2>4. Joined(x)
    BY <1>8, <1>9, <2>3
  <2>5. parent[x] \in Node /\ ~(Num[x] <= Num[parent[x]])
    BY <1>1, <1>3, <2>3, <2>4
  <2>6. P(parent[x]) = path[parent[x]]
    BY <2>2, <2>5
  <2> QED BY <1>8, <1>9, <2>3, <2>4, <2>6
<1> QED BY <1>10 DEF path

LEMMA LinksAreRight ==
  ASSUME LinkInv
  PROVE  LT!SemiExact /\ LT!CompressionSound
<1>1. CASE phase \notin {"preds", "bucket"}
  BY <1>1 DEF LT!SemiExact, LT!CompressionSound
<1>2. CASE phase \in {"preds", "bucket"}
  <2>1. PassInv /\ phase # "dfs"
    BY <1>2 DEF LinkInv
  <2>2. Searched /\ Knowing
    BY <2>1 DEF PassInv
  <2>3. LT!Linked = {n \in Node : Joined(n)}
    BY <2>1, LinkedIsJoined
  <2>4. LT!SemiExact
    <3>1. \A n \in Node : Joined(n) => sdno[n] = LT!Semi(n)
      BY <2>2, SemiIsLow DEF Knowing
    <3> QED BY <2>3, <3>1 DEF LT!SemiExact
  <2>5. ASSUME NEW n \in Node, Joined(n)
        PROVE  /\ LT!Eval(n) \in LT!LinkedPath[n]
               /\ \A x \in LT!LinkedPath[n] : sdno[LT!Eval(n)] <= sdno[x]
    <3> DEFINE e == LT!Eval(n)
               t == LT!Top[n]
    <3>1. /\ e \in Node /\ Joined(e) /\ sdno[e] = LowOf(e)
          /\ t \in Node /\ ~Joined(t) /\ Lowest(e, t, n)
      BY <2>1, <2>5, EvalFacts
    <3>2. LT!LinkedPath[n] = {y \in Node : Up(y, n) /\ Joined(y)}
      BY <2>1, LinkedPathIs
    <3> HIDE DEF e, t
    <3>3. e \in LT!LinkedPath[n]
      BY <3>1, <3>2 DEF Lowest
    <3>4. ASSUME NEW x \in Node, Up(x, n), Joined(x) PROVE sdno[e] <= sdno[x]
      <4>1. Num[t] < Num[x]
        <5>1. Num[t] \in Nat /\ Num[x] \in Nat /\ i \in Nat
          BY <2>1, <2>2, <3>1, InHand, SearchedFacts
        <5> HIDE DEF Num
        <5> QED BY <3>1, <3>4, <5>1 DEF Joined
      <4>2. LowOf(e) <= LowOf(x)
        BY <3>1, <3>4, <4>1 DEF Lowest
      <4>3. sdno[x] = LowOf(x)
        BY <2>2, <3>4 DEF Knowing
      <4> QED BY <3>1, <4>2, <4>3
    <3> QED BY <3>2, <3>3, <3>4 DEF e
  <2>6. LT!CompressionSound
    BY <2>3, <2>5 DEF LT!CompressionSound
  <2> QED BY <2>4, <2>6
<1> QED BY <1>1, <1>2

-----------------------------------------------------------------------------
(* The extraction of computeDominance, which visits the blocks in the      *)
(* order of the search and so meets a block's dominators before the block. *)

(* Every block but the entry was visited from one visited before.          *)
Preceded == \A k \in 2 .. Len(order) : \E j \in 1 .. k - 1 : order[k] \in succs[order[j]]

(* What the extraction has done so far. *)
Extracting ==
  phase = "extract" =>
    /\ dom[Entry] = {Entry} /\ bId \in Nat \ {0, 1}
    /\ \A k \in 2 .. Len(order) : k < bId => /\ dom[order[k]] = {Idom(succs, order[k])}
                                             /\ idom[order[k]] = Idom(succs, order[k])
    /\ DOMAIN idom = Node
    /\ dtree = [a \in Node |-> {n \in Node : \E k \in 2 .. Len(order) :
                                  k < bId /\ n = order[k] /\ Idom(succs, n) = a}]

ExtractInv ==
  /\ SweepInv
  /\ Preceded
  /\ phase \in {"dfs", "sweep", "extract", "done"}
  /\ phase \in {"dfs", "sweep"} => /\ idom = [n \in Node |-> NoNode]
                                   /\ dtree = [n \in Node |-> {}]
  /\ Extracting
  /\ phase = "done" => TreeRight

LEMMA DominatorsFirst ==
  ASSUME SweepInv, Preceded, NEW j \in 1 .. Len(order), NEW k \in 1 .. Len(order),
         Dominates(succs, order[j], order[k])
  PROVE  j <= k
<1>1. /\ order \in Seq(Node) /\ Len(order) \in Nat /\ order[1] = Entry
      /\ \A x, y \in 1 .. Len(order) : order[x] = order[y] => x = y
      /\ \A x \in 1 .. Len(order) : order[x] \in Node
  BY DEF SweepInv, Ordered
<1> DEFINE B == {x \in 1 .. Len(order) :
                   \E y \in 1 .. Len(order) : Dominates(succs, order[y], order[x]) /\ ~(y <= x)}
<1>2. SUFFICES ASSUME B # {} PROVE FALSE
  OBVIOUS
<1>3. PICK x \in B : \A y \in B : x <= y
  <2>1. B \subseteq Nat
    OBVIOUS
  <2> HIDE DEF B
  <2> QED BY <1>2, <2>1, Least
<1>4. PICK y \in 1 .. Len(order) : Dominates(succs, order[y], order[x]) /\ ~(y <= x)
  OBVIOUS
<1>5. x \in 1 .. Len(order) /\ order[x] # order[y]
  BY <1>1, <1>4
<1>6. x # 1
  <2>1. Doms(succs, Entry) = {Entry}
    BY EntryDoms
  <2> QED BY <1>1, <1>4, <1>5, <2>1 DEF Doms
<1>7. PICK p \in 1 .. x - 1 : order[x] \in succs[order[p]]
  <2>1. x \in 2 .. Len(order)
    BY <1>1, <1>5, <1>6
  <2> QED BY <2>1 DEF Preceded
<1>8. p \in 1 .. Len(order) /\ ~(x <= p)
  BY <1>1, <1>5
<1>9. Dominates(succs, order[y], order[p])
  BY <1>1, <1>4, <1>5, <1>7, <1>8, PredDominated
<1>10. ~(y <= p)
  BY <1>4, <1>5, <1>8
<1>11. p \in B
  BY <1>8, <1>9, <1>10
<1> QED BY <1>3, <1>8, <1>11

(* The position of a block in the order. *)
LEMMA Positions ==
  ASSUME SweepInv, Visited(order) = Node, NEW n \in Node
  PROVE  \E k \in 1 .. Len(order) : order[k] = n
BY DEF Visited

(* The strict dominators of n but those that are the immediate dominator   *)
(* of another one.                                                         *)
LEMMA OnlyIdomLeft ==
  ASSUME SweepInv, Preceded, Visited(order) = Node, NEW n \in Node \ {Entry},
         NEW D, D = Doms(succs, n) \ {n}
  PROVE  D \ {Idom(succs, j) : j \in D \ {Entry}} = {Idom(succs, n)}
<1> DEFINE d == Idom(succs, n)
<1>1. succs \in FlowGraphs
  BY DEF SweepInv
<1>2. /\ d \in Node \ {n}
      /\ \A a \in Node : Dominates(succs, a, d) <=> a # n /\ Dominates(succs, a, n)
  BY <1>1, IdomFacts
<1>3. \A a : a \in D <=> a \in Node /\ a # n /\ Dominates(succs, a, n)
  BY DEF Doms
<1>4. d \in D
  <2>1. Dominates(succs, d, d)
    BY DEF Dominates
  <2> QED BY <1>2, <1>3, <2>1
<1> HIDE DEF d
<1>5. \A j \in D \ {Entry} : Idom(succs, j) # d
  <2> SUFFICES ASSUME NEW j \in D \ {Entry}, Idom(succs, j) = d PROVE FALSE
    OBVIOUS
  <2>1. Dominates(succs, j, d) /\ j \in Node
    BY <1>2, <1>3
  <2>2. d # j /\ Dominates(succs, d, d)
    BY <1>1, <2>1, IdomFacts DEF Dominates
  <2>3. Dominates(succs, d, j)
    BY <1>1, <1>2, <2>1, <2>2, IdomFacts
  <2> QED BY <1>1, <1>2, <2>1, <2>2, <2>3, DominatesAntisym
<1>6. ASSUME NEW a \in D, a # d PROVE \E j \in D \ {Entry} : Idom(succs, j) = a
  <2> DEFINE J == {k \in 1 .. Len(order) : /\ order[k] \in D /\ order[k] # a
                                           /\ Dominates(succs, a, order[k])}
  <2>0. order \in Seq(Node) /\ Len(order) \in Nat
    BY DEF SweepInv, Ordered
  <2>1. J # {}
    <3>1. PICK k \in 1 .. Len(order) : order[k] = d
      BY <1>2, Positions
    <3>2. Dominates(succs, a, d)
      BY <1>2, <1>3, <1>6
    <3> QED BY <1>4, <1>6, <3>1, <3>2
  <2>2. PICK k \in J : \A m \in J : k <= m
    <3>1. J \subseteq Nat
      OBVIOUS
    <3> HIDE DEF J
    <3> QED BY <2>1, <3>1, Least
  <2> DEFINE j == order[k]
             b == Idom(succs, j)
  <2>3. k \in 1 .. Len(order) /\ j \in D /\ j # a /\ Dominates(succs, a, j)
    BY <2>2
  <2>4. j # Entry
    <3>1. Doms(succs, Entry) = {Entry} /\ a \in Node
      BY <1>3, EntryDoms
    <3> QED BY <2>3, <3>1 DEF Doms
  <2>5. j \in Node /\ Dominates(succs, j, n) /\ a \in Node
    BY <1>3, <2>3
  <2> HIDE DEF j, J
  <2>6. /\ b \in Node \ {j}
        /\ \A x \in Node : Dominates(succs, x, b) <=> x # j /\ Dominates(succs, x, j)
    BY <1>1, <2>4, <2>5, IdomFacts
  <2> HIDE DEF b
  <2>7. Dominates(succs, a, b)
    BY <2>3, <2>5, <2>6
  <2>8. Dominates(succs, b, j)
    <3>1. Dominates(succs, b, b)
      BY DEF Dominates
    <3> QED BY <2>6, <3>1
  <2>9. b \in D
    <3>1. Dominates(succs, b, n)
      BY <2>5, <2>8, DominatesTrans
    <3>2. b # n
      BY <1>1, <2>5, <2>6, <2>8, DominatesAntisym
    <3> QED BY <1>3, <2>6, <3>1, <3>2
  <2>10. b = a
    <3>1. SUFFICES ASSUME b # a PROVE FALSE
      OBVIOUS
    <3>2. PICK m \in 1 .. Len(order) : order[m] = b
      BY <2>6, Positions
    <3>3. m \in J
      BY <2>7, <2>9, <3>1, <3>2 DEF J
    <3>4. k <= m
      BY <2>2, <3>3
    <3>5. m <= k
      BY <2>3, <2>8, <3>2, DominatorsFirst DEF j
    <3>6. m = k
      BY <2>0, <2>3, <3>4, <3>5
    <3> QED BY <2>6, <3>2, <3>6 DEF j
  <2> QED BY <2>3, <2>4, <2>10 DEF b
<1> QED BY <1>4, <1>5, <1>6 DEF d

(* The recursive definition has the value it describes. *)
Reduces(r, n) ==
  /\ r[0] = dom[n] \ {n}
  /\ \A k \in 1 .. Len(order) :
       r[k] = IF order[k] \in r[k - 1]
              THEN r[k - 1] \ (dom[order[k]] \ {order[k]}) ELSE r[k - 1]

LEMMA ReducedUnfolds ==
  ASSUME Len(order) \in Nat, NEW n \in Node
  PROVE  \E r : Sweeps!Reduced(n) = r[Len(order)] /\ Reduces(r, n)
<1> DEFINE L == Len(order)
           solves(r) == r = [k \in 0 .. L |->
                               IF k = 0 THEN dom[n] \ {n}
                               ELSE LET d == r[k - 1]
                                        j == order[k]
                                    IN  IF j \in d THEN d \ (dom[j] \ {j}) ELSE d]
           rest == CHOOSE r : solves(r)
<1>1. Sweeps!Reduced(n) = rest[L]
  BY Zenon DEF Sweeps!Reduced
<1>2. \E r : solves(r)
  <2> DEFINE V == SUBSET dom[n]
             A == dom[n] \ {n}
             shrunk(k, d) == IF order[k] \in d THEN d \ (dom[order[k]] \ {order[k]}) ELSE d
             step == [p \in (1 .. L) \X V |-> shrunk(p[1], p[2])]
  <2>1. A \in V /\ L \in Nat /\ \A k \in 1 .. L : \A d \in V : step[<<k, d>>] \in V
    OBVIOUS
  <2> HIDE DEF V, A, step, L
  <2>2. PICK r \in [0 .. L -> V] : Counts(r, A, step, L)
    BY <2>1, CountedRecursion
  <2>3. ASSUME NEW k \in 0 .. L
        PROVE  r[k] = IF k = 0 THEN dom[n] \ {n}
                      ELSE LET d == r[k - 1]
                               j == order[k]
                           IN  IF j \in d THEN d \ (dom[j] \ {j}) ELSE d
    <3>1. CASE k = 0
      BY <2>2, <3>1 DEF A, Counts
    <3>2. CASE k # 0
      <4>1. k \in 1 .. L /\ k - 1 \in 0 .. L
        BY <2>1, <3>2
      <4>2. r[k - 1] \in V
        BY <2>2, <4>1
      <4>3. r[k] = shrunk(k, r[k - 1])
        BY <2>2, <4>1, <4>2 DEF step, Counts
      <4> QED BY <3>2, <4>3
    <3> QED BY <3>1, <3>2
  <2>4. r = [k \in 0 .. L |-> r[k]]
    BY <2>2
  <2>5. solves(r)
    BY <2>3, <2>4, Zenon
  <2> QED BY <2>5
<1>3. solves(rest)
  <2> HIDE DEF solves
  <2> QED BY <1>2, Zenon
<1> HIDE DEF rest
<1>4. rest[0] = dom[n] \ {n}
  BY <1>3
<1>5. ASSUME NEW k \in 1 .. L
      PROVE  rest[k] = IF order[k] \in rest[k - 1]
                       THEN rest[k - 1] \ (dom[order[k]] \ {order[k]}) ELSE rest[k - 1]
  <2>1. k \in 0 .. L /\ k # 0
    OBVIOUS
  <2>2. rest[k] = IF k = 0 THEN dom[n] \ {n}
                  ELSE LET d == rest[k - 1]
                           j == order[k]
                       IN  IF j \in d THEN d \ (dom[j] \ {j}) ELSE d
    BY <1>3, <2>1, Zenon
  <2> QED BY <2>1, <2>2
<1>6. Reduces(rest, n)
  BY <1>4, <1>5, Zenon DEF Reduces
<1> QED BY <1>1, <1>6, Zenon

-----------------------------------------------------------------------------
(* What the reduction leaves, in sets that were themselves reduced before. *)
LEMMA ReducedIsIdom ==
  ASSUME SweepInv, Preceded, Visited(order) = Node,
         NEW m \in 2 .. Len(order), NEW n, n = order[m],
         dom[n] = Doms(succs, n), dom[Entry] = {Entry},
         \A k \in 2 .. Len(order) : k < m => dom[order[k]] = {Idom(succs, order[k])}
  PROVE  Sweeps!Reduced(n) = {Idom(succs, n)}
<1> DEFINE D == Doms(succs, n) \ {n}
           passed(k) == {x \in 2 .. Len(order) : x <= k /\ order[x] \in D}
           gone(k) == {Idom(succs, order[x]) : x \in passed(k)}
<1>1. /\ order \in Seq(Node) /\ Len(order) \in Nat /\ order[1] = Entry /\ succs \in FlowGraphs
      /\ \A x, y \in 1 .. Len(order) : order[x] = order[y] => x = y
      /\ \A x \in 1 .. Len(order) : order[x] \in Node
  BY DEF SweepInv, Ordered
<1>2. n \in Node \ {Entry} /\ m \in 1 .. Len(order)
  <2>1. m \in 1 .. Len(order) /\ m # 1 /\ 1 \in 1 .. Len(order)
    BY <1>1
  <2> QED BY <1>1, <2>1
<1>3. PICK r : Sweeps!Reduced(n) = r[Len(order)] /\ Reduces(r, n)
  BY <1>1, <1>2, ReducedUnfolds
<1>4. \A j : j \in D <=> j \in Node /\ j # n /\ Dominates(succs, j, n)
  BY DEF Doms
<1>5. r[0] = D
  BY <1>3 DEF Reduces
<1> HIDE DEF D
<1>6. \A k \in 0 .. Len(order) : r[k] = D \ gone(k)
  <2> DEFINE B == {k \in 0 .. Len(order) : r[k] # D \ gone(k)}
  <2>1. SUFFICES ASSUME B # {} PROVE FALSE
    OBVIOUS
  <2>2. PICK k \in B : \A x \in B : k <= x
    <3>1. B \subseteq Nat
      BY <1>1
    <3> HIDE DEF B
    <3> QED BY <2>1, <3>1, Least
  <2>3. k \in 0 .. Len(order) /\ r[k] # D \ gone(k)
    BY <2>2
  <2>4. k # 0
    <3>1. gone(0) = {}
      OBVIOUS
    <3> QED BY <1>5, <2>3, <3>1
  <2>5. /\ k \in 1 .. Len(order) /\ k - 1 \in 0 .. Len(order) /\ ~(k <= k - 1)
        /\ k - 1 \notin B
    BY SMTT(30), <1>1, <2>2, <2>3, <2>4
  <2>6. r[k - 1] = D \ gone(k - 1)
    BY <2>5
  <2> DEFINE j == order[k]
  <2>7. r[k] = IF j \in r[k - 1] THEN r[k - 1] \ (dom[j] \ {j}) ELSE r[k - 1]
    BY <1>3, <2>5 DEF Reduces
  <2>8. j \in Node
    BY <1>1, <2>5
  <2> HIDE DEF B
  <2>9. CASE j \notin D
    <3>1. passed(k) = passed(k - 1)
      BY <1>1, <2>5, <2>9
    <3>2. gone(k) = gone(k - 1)
      BY <3>1
    <3>3. r[k] = r[k - 1]
      BY <2>6, <2>7, <2>9
    <3> QED BY <2>3, <2>6, <3>2, <3>3
  <2>10. CASE j \in D
    <3>1. j \notin gone(k - 1)
      <4>1. SUFFICES ASSUME NEW x \in passed(k - 1), j = Idom(succs, order[x]) PROVE FALSE
        OBVIOUS
      <4>2. x \in 1 .. Len(order) /\ x <= k - 1 /\ x # 1
        BY <1>1, <4>1
      <4>3. order[x] \in Node \ {Entry}
        <5>1. 1 \in 1 .. Len(order)
          BY <1>1, <4>2
        <5> QED BY <1>1, <4>2, <5>1
      <4>4. Dominates(succs, j, order[x])
        <5>1. Dominates(succs, j, j)
          BY DEF Dominates
        <5> QED BY <1>1, <2>8, <4>1, <4>3, <5>1, IdomFacts
      <4>5. k <= x
        BY <2>5, <4>2, <4>4, DominatorsFirst
      <4> QED BY <1>1, <2>5, <4>2, <4>5
    <3>2. r[k] = r[k - 1] \ (dom[j] \ {j})
      BY <2>6, <2>7, <2>10, <3>1
    <3>3. k < m
      <4>1. Dominates(succs, order[k], order[m]) /\ k # m
        BY <1>4, <2>10
      <4>2. k <= m
        BY <1>2, <2>5, <4>1, DominatorsFirst
      <4> QED BY <1>1, <1>2, <2>5, <4>1, <4>2
    <3>4. CASE k = 1
      <4>1. dom[j] \ {j} = {}
        BY <1>1, <3>4
      <4>2. passed(k) = {} /\ passed(k - 1) = {}
        BY <3>4
      <4>3. gone(k) = gone(k - 1)
        BY <4>2
      <4> QED BY <2>3, <2>6, <3>2, <4>1, <4>3
    <3>5. CASE k # 1
      <4>1. k \in 2 .. Len(order)
        BY <1>1, <2>5, <3>5
      <4>2. dom[j] = {Idom(succs, j)}
        BY <3>3, <4>1
      <4>3. j # Entry
        <5>1. 1 \in 1 .. Len(order)
          BY <1>1, <2>5
        <5> QED BY <1>1, <2>5, <3>5, <5>1
      <4>4. Idom(succs, j) # j
        BY <1>1, <2>8, <4>3, IdomFacts
      <4>5. passed(k) = passed(k - 1) \cup {k}
        BY <1>1, <2>5, <2>10, <4>1
      <4>6. gone(k) = gone(k - 1) \cup {Idom(succs, j)}
        BY <4>5
      <4> HIDE DEF gone, passed
      <4> QED BY <2>3, <2>6, <3>2, <4>2, <4>4, <4>6
    <3> QED BY <3>4, <3>5
  <2> QED BY <2>9, <2>10
<1>7. gone(Len(order)) = {Idom(succs, j) : j \in D \ {Entry}}
  <2>1. ASSUME NEW x \in passed(Len(order)) PROVE order[x] \in D \ {Entry}
    <3>1. x \in 1 .. Len(order) /\ x # 1 /\ 1 \in 1 .. Len(order)
      BY <1>1, <2>1
    <3> QED BY <1>1, <2>1, <3>1
  <2>2. ASSUME NEW j \in D \ {Entry} PROVE \E x \in passed(Len(order)) : order[x] = j
    <3>1. PICK x \in 1 .. Len(order) : order[x] = j
      BY <1>4, Positions
    <3>2. x # 1
      BY <1>1, <3>1, <2>2
    <3> QED BY <1>1, <2>2, <3>1, <3>2
  <2> HIDE DEF passed
  <2> QED BY <2>1, <2>2
<1>8. Len(order) \in 0 .. Len(order)
  BY <1>1
<1>9. Sweeps!Reduced(n) = D \ {Idom(succs, j) : j \in D \ {Entry}}
  <2> HIDE DEF gone
  <2> QED BY <1>3, <1>6, <1>7, <1>8
<1>10. D \ {Idom(succs, j) : j \in D \ {Entry}} = {Idom(succs, n)}
  BY <1>2, OnlyIdomLeft DEF D
<1> QED BY <1>9, <1>10

-----------------------------------------------------------------------------
(* The extraction, step by step.                                           *)
LEMMA InitExtract == Init => ExtractInv
<1> SUFFICES ASSUME Init PROVE ExtractInv
  OBVIOUS
<1>1. /\ order = <<Entry>> /\ phase = "dfs"
      /\ idom = [n \in Node |-> NoNode] /\ dtree = [n \in Node |-> {}]
  BY DEF Init, Start, Sweeps!Start
<1>2. Preceded
  BY <1>1 DEF Preceded
<1> QED BY <1>1, <1>2, InitSweeps DEF ExtractInv, Extracting

LEMMA VisitExtract ==
  ASSUME ExtractInv, NEW n \in Node, Sweeps!Visit(n)
  PROVE  ExtractInv'
<1>1. /\ phase = "dfs" /\ phase' = "dfs" /\ order' = Append(order, n)
      /\ Frame(succs, order) # NoNode /\ n \in succs[Frame(succs, order)]
      /\ UNCHANGED <<succs, idom, dtree>>
  BY SameGraph DEF Sweeps!Visit, Sweeps!Visits
<1>2. SweepInv'
  BY VisitKeeps DEF ExtractInv
<1>3. order \in Seq(Node) /\ Len(order) \in Nat \ {0}
  BY DEF ExtractInv, SweepInv, Ordered
<1>4. PICK f \in 1 .. Len(order) : Frame(succs, order) = order[f]
  BY <1>1, <1>3, FrameIsLast
<1>5. ASSUME NEW k \in 2 .. Len(order')
      PROVE  \E j \in 1 .. k - 1 : order'[k] \in succs[order'[j]]
  <2>1. CASE k = Len(order) + 1
    <3>1. order'[k] = n /\ order'[f] = order[f] /\ f \in 1 .. k - 1
      BY <1>1, <1>3, <2>1
    <3> QED BY <1>1, <1>4, <3>1
  <2>2. CASE k # Len(order) + 1
    <3>1. k \in 2 .. Len(order)
      BY <1>1, <1>3, <2>2
    <3>2. PICK j \in 1 .. k - 1 : order[k] \in succs[order[j]]
      BY <3>1 DEF ExtractInv, Preceded
    <3>3. order'[k] = order[k] /\ order'[j] = order[j]
      BY <1>1, <1>3, <3>1
    <3> QED BY <3>2, <3>3
  <2> QED BY <2>1, <2>2
<1>6. Preceded'
  BY <1>1, <1>5 DEF Preceded
<1> QED BY <1>1, <1>2, <1>6 DEF ExtractInv, Extracting

(* The first of a single block. *)
LEMMA FirstOfOne ==
  ASSUME SweepInv, Visited(order) = Node, NEW x \in Node
  PROVE  Sweeps!First({x}) = x
<1>1. Sweeps!Number(order, x) \in 1 .. Len(order)
  <2>1. PICK k \in 1 .. Len(order) : order[k] = x
    BY Positions
  <2>2. Sweeps!Number(order, x) = CHOOSE j \in 1 .. Len(order) : order[j] = x
    BY DEF Sweeps!Number
  <2> QED BY <2>1, <2>2
<1>2. Sweeps!Number(order, x) <= Sweeps!Number(order, x)
  BY <1>1
<1> QED BY <1>2 DEF Sweeps!First

LEMMA ExtractExtracts ==
  ASSUME ExtractInv, Sweeps!Extract
  PROVE  ExtractInv'
<1> DEFINE n == order[bId]
           x == Idom(succs, n)
<1>1. /\ phase = "extract" /\ phase' = "extract" /\ bId' = bId + 1
      /\ bId <= Cardinality(Node)
      /\ dom' = [dom EXCEPT ![n] = Sweeps!Reduced(n)]
      /\ idom' = [idom EXCEPT ![n] = Sweeps!First(Sweeps!Reduced(n))]
      /\ dtree' = [dtree EXCEPT ![Sweeps!First(Sweeps!Reduced(n))] = @ \cup {n}]
      /\ succs' = succs /\ order' = order
  BY SameGraph DEF Sweeps!Extract
<1>2. SweepInv' /\ SweepInv /\ Preceded
  BY ExtractKeeps DEF ExtractInv
<1>3. /\ order \in Seq(Node) /\ Len(order) \in Nat /\ order[1] = Entry /\ succs \in FlowGraphs
      /\ \A k, m \in 1 .. Len(order) : order[k] = order[m] => k = m
      /\ \A k \in 1 .. Len(order) : order[k] \in Node
      /\ Visited(order) = Node /\ Len(order) = Cardinality(Node)
      /\ DOMAIN dom = Node
  BY <1>1, <1>2 DEF SweepInv, Ordered, Covers, Sets
<1>4. /\ dom[Entry] = {Entry} /\ bId \in Nat \ {0, 1}
      /\ \A k \in 2 .. Len(order) : k < bId => /\ dom[order[k]] = {Idom(succs, order[k])}
                                               /\ idom[order[k]] = Idom(succs, order[k])
      /\ DOMAIN idom = Node
      /\ dtree = [a \in Node |-> {m \in Node : \E k \in 2 .. Len(order) :
                                    k < bId /\ m = order[k] /\ Idom(succs, m) = a}]
  BY <1>1 DEF ExtractInv, Extracting
<1>5. bId \in 2 .. Len(order) /\ bId \in 1 .. Len(order) /\ 1 \in 1 .. Len(order) /\ bId # 1
  BY <1>1, <1>3, <1>4
<1>6. n \in Node \ {Entry} /\ \A k \in 1 .. Len(order) : order[k] = n => k = bId
  BY <1>3, <1>5
<1>7. dom[n] = Doms(succs, n)
  <2>1. bId \in bId .. Cardinality(Node)
    BY <1>3, <1>5
  <2> QED BY <1>1, <1>2, <2>1, SameGraph DEF SweepInv, Sweeps!SweepsExact
<1>8. x \in Node
  BY <1>3, <1>6, IdomFacts
<1>9. Sweeps!Reduced(n) = {x}
  <2> HIDE DEF x
  <2>1. \A k \in 2 .. Len(order) : k < bId => dom[order[k]] = {Idom(succs, order[k])}
    BY <1>4
  <2>2. n = order[bId]
    OBVIOUS
  <2> HIDE DEF n
  <2> QED BY <1>2, <1>3, <1>4, <1>5, <1>7, <2>1, <2>2, ReducedIsIdom DEF x
<1>10. Sweeps!First(Sweeps!Reduced(n)) = x
  BY <1>2, <1>3, <1>8, <1>9, FirstOfOne
<1> HIDE DEF n
<1>11. /\ dom' = [dom EXCEPT ![n] = {x}]
       /\ idom' = [idom EXCEPT ![n] = x]
       /\ dtree' = [dtree EXCEPT ![x] = @ \cup {n}]
  BY <1>1, <1>9, <1>10
<1>12. dom'[Entry] = {Entry} /\ DOMAIN idom' = Node
  BY <1>3, <1>4, <1>6, <1>11
<1>13. ASSUME NEW k \in 2 .. Len(order), k < bId + 1
       PROVE  /\ dom'[order[k]] = {Idom(succs, order[k])}
              /\ idom'[order[k]] = Idom(succs, order[k])
  <2>1. k \in 1 .. Len(order) /\ order[k] \in Node
    BY <1>3
  <2>2. CASE k = bId
    <3>1. order[k] = n
      BY <2>2 DEF n
    <3> QED BY <1>3, <1>4, <1>6, <1>11, <3>1
  <2>3. CASE k # bId
    <3>1. order[k] # n /\ k < bId
      BY <1>3, <1>4, <1>6, <1>13, <2>1, <2>3
    <3> QED BY <1>3, <1>4, <1>11, <2>1, <3>1
  <2> QED BY <2>2, <2>3
<1> DEFINE part(a, l) == {m \in Node : \E k \in 2 .. Len(order) :
                            k < l /\ m = order[k] /\ Idom(succs, m) = a}
<1>14. \A a : part(a, bId + 1) = IF a = x THEN part(a, bId) \cup {n} ELSE part(a, bId)
  <2>1. \A k \in 2 .. Len(order) : k < bId + 1 <=> k < bId \/ k = bId
    BY <1>3, <1>4
  <2>2. ASSUME NEW a, NEW m
        PROVE  m \in part(a, bId + 1) <=> m \in part(a, bId) \/ (m = n /\ a = x)
    BY <1>5, <1>6, <2>1 DEF n
  <2> HIDE DEF part
  <2> QED BY <2>2
<1>15. dtree' = [a \in Node |-> part(a, bId + 1)]
  <2>1. dtree = [a \in Node |-> part(a, bId)]
    BY <1>4
  <2> HIDE DEF part, x
  <2> QED BY <1>8, <1>11, <1>14, <2>1
<1>16. bId' \in Nat \ {0, 1}
  BY <1>1, <1>4
<1>17. dtree' = [a \in Node |-> {m \in Node : \E k \in 2 .. Len(order') :
                                   k < bId' /\ m = order'[k] /\ Idom(succs', m) = a}]
  BY ZenonT(30), <1>1, <1>15
<1>18. Extracting'
  <2> HIDE DEF part, x
  <2> QED BY <1>1, <1>12, <1>13, <1>16, <1>17 DEF Extracting
<1>19. Preceded'
  BY <1>1, <1>2 DEF Preceded
<1> QED BY <1>1, <1>2, <1>18, <1>19 DEF ExtractInv

LEMMA EndExtractExtracts ==
  ASSUME ExtractInv, Sweeps!EndExtract
  PROVE  ExtractInv'
<1>1. /\ phase = "extract" /\ phase' = "done" /\ bId > Cardinality(Node)
      /\ idom' = [idom EXCEPT ![Entry] = NoNode]
      /\ UNCHANGED <<succs, order, dtree>>
  BY SameGraph DEF Sweeps!EndExtract
<1>2. SweepInv' /\ SweepInv /\ Preceded
  BY EndExtractKeeps DEF ExtractInv
<1>3. /\ order \in Seq(Node) /\ Len(order) \in Nat /\ order[1] = Entry /\ succs \in FlowGraphs
      /\ \A k, m \in 1 .. Len(order) : order[k] = order[m] => k = m
      /\ Visited(order) = Node /\ Len(order) = Cardinality(Node)
  BY <1>1, <1>2 DEF SweepInv, Ordered, Covers
<1>4. /\ bId \in Nat
      /\ \A k \in 2 .. Len(order) : k < bId => idom[order[k]] = Idom(succs, order[k])
      /\ DOMAIN idom = Node
      /\ dtree = [a \in Node |-> {m \in Node : \E k \in 2 .. Len(order) :
                                    k < bId /\ m = order[k] /\ Idom(succs, m) = a}]
  BY <1>1 DEF ExtractInv, Extracting
<1>5. \A m \in Node : m # Entry <=> \E k \in 2 .. Len(order) : k < bId /\ m = order[k]
  <2> SUFFICES ASSUME NEW m \in Node
               PROVE  m # Entry <=> \E k \in 2 .. Len(order) : k < bId /\ m = order[k]
    OBVIOUS
  <2>1. PICK k \in 1 .. Len(order) : order[k] = m
    BY <1>2, <1>3, Positions
  <2>2. 1 \in 1 .. Len(order) /\ \A j \in 2 .. Len(order) : j \in 1 .. Len(order) /\ j # 1
    BY <1>3, <2>1
  <2>3. k # 1 => k \in 2 .. Len(order) /\ k < bId
    BY <1>1, <1>3, <1>4
  <2> QED BY <1>3, <2>1, <2>2, <2>3
<1>6. \A m \in Node : idom'[m] = Idom(succs, m)
  <2> SUFFICES ASSUME NEW m \in Node PROVE idom'[m] = Idom(succs, m)
    OBVIOUS
  <2>1. CASE m = Entry
    <3>1. Idom(succs, m) = NoNode
      BY <2>1 DEF Idom
    <3> QED BY <1>1, <1>4, <2>1, <3>1
  <2>2. CASE m # Entry
    <3>1. idom'[m] = idom[m]
      BY <1>1, <1>4, <2>2
    <3> QED BY <1>4, <1>5, <2>2, <3>1
  <2> QED BY <2>1, <2>2
<1>7. DOMAIN idom' = Node /\ idom' = [m \in DOMAIN idom' |-> idom'[m]]
  BY <1>1, <1>4
<1>8. idom' = [m \in Node |-> Idom(succs, m)]
  BY <1>6, <1>7
<1>9. dtree = DomTree(succs)
  <2>1. \A a : {m \in Node : \E k \in 2 .. Len(order) :
                               k < bId /\ m = order[k] /\ Idom(succs, m) = a}
               = {m \in Node \ {Entry} : [q \in Node |-> Idom(succs, q)][m] = a}
    BY <1>5
  <2> QED BY <1>4, <2>1, Zenon DEF DomTree
<1>10. TreeRight'
  BY <1>1, <1>8, <1>9 DEF TreeRight
<1>11. Preceded'
  BY <1>1, <1>2 DEF Preceded
<1> QED BY <1>1, <1>2, <1>10, <1>11 DEF ExtractInv, Extracting

LEMMA ExtractStep == ASSUME ExtractInv, Sweeps!Next PROVE ExtractInv'
<1>1. SweepInv' /\ SweepInv
  BY SweepStep DEF ExtractInv
<1>2. CASE \E n \in Node : Sweeps!Visit(n)
  BY <1>2, VisitExtract
<1>3. CASE Sweeps!StartSweeps
  BY <1>1, <1>3 DEF Sweeps!StartSweeps, ExtractInv, Extracting, Preceded
<1>4. CASE Sweeps!SweepBlock
  BY <1>1, <1>4 DEF Sweeps!SweepBlock, ExtractInv, Extracting, Preceded
<1>5. CASE Sweeps!SweepAgain
  BY <1>1, <1>5 DEF Sweeps!SweepAgain, ExtractInv, Extracting, Preceded
<1>6. CASE Sweeps!EndSweeps
  <2>1. /\ phase = "sweep" /\ phase' = "extract" /\ bId' = 2
        /\ UNCHANGED <<succs, order, dom, idom, dtree>>
    BY <1>6 DEF Sweeps!EndSweeps
  <2>2. dom[Entry] = {Entry} /\ Len(order) \in Nat
    BY <1>1, <2>1 DEF SweepInv, Balanced, Ordered
  <2>3. idom = [n \in Node |-> NoNode] /\ dtree = [n \in Node |-> {}]
    BY <2>1 DEF ExtractInv
  <2>4. \A a : {m \in Node : \E k \in 2 .. Len(order) :
                               k < 2 /\ m = order[k] /\ Idom(succs, m) = a} = {}
    BY <2>2
  <2>5. Extracting'
    BY <2>1, <2>2, <2>3, <2>4 DEF Extracting
  <2>6. Preceded'
    BY <2>1 DEF ExtractInv, Preceded
  <2> QED BY <1>1, <2>1, <2>5, <2>6 DEF ExtractInv
<1>7. CASE Sweeps!Extract
  BY <1>7, ExtractExtracts
<1>8. CASE Sweeps!EndExtract
  BY <1>8, EndExtractExtracts
<1>9. CASE Sweeps!Done
  BY <1>1, <1>9 DEF Sweeps!Done, Sweeps!vars, ExtractInv, Extracting, Preceded, TreeRight
<1> QED BY <1>2, <1>3, <1>4, <1>5, <1>6, <1>7, <1>8, <1>9 DEF Sweeps!Next

-----------------------------------------------------------------------------
(* Either algorithm, as far as it has come. *)
DominanceInv == /\ large \in BOOLEAN
                /\ large => LinkInv
                /\ ~large => ExtractInv

LEMMA InitDominance == Init => DominanceInv
BY InitLinks, InitExtract DEF DominanceInv, Init, Start

LEMMA DominanceStep == ASSUME DominanceInv, [Next]_vars PROVE DominanceInv'
<1>1. CASE ~large /\ Sweeps!Next /\ UNCHANGED <<large, ofLT>>
  <2>1. ExtractInv'
    BY <1>1, ExtractStep DEF DominanceInv
  <2> QED BY <1>1, <2>1 DEF DominanceInv
<1>2. CASE large /\ LT!Next /\ UNCHANGED <<large, ofSweeps>>
  <2>1. LinkInv'
    BY <1>2, LinkStep DEF DominanceInv
  <2> QED BY <1>2, <2>1 DEF DominanceInv
<1>3. CASE UNCHANGED vars
  <2>1. LinkInv => LinkInv'
    BY <1>3, StutterLinks DEF vars, ofLT
  <2>2. ExtractInv => ExtractInv'
    <3>1. SweepInv => SweepInv'
      BY <1>3, StutterKeeps DEF vars, ofSweeps
    <3>2. Preceded' = Preceded
      BY <1>3 DEF vars, ofSweeps, Preceded
    <3>3. Extracting' = Extracting
      BY <1>3, Zenon DEF vars, ofSweeps, Extracting
    <3>4. TreeRight' = TreeRight
      BY <1>3 DEF vars, TreeRight
    <3> QED BY <1>3, <3>1, <3>2, <3>3, <3>4 DEF vars, ExtractInv
  <2> QED BY <1>3, <2>1, <2>2 DEF DominanceInv, vars
<1> QED BY <1>1, <1>2, <1>3 DEF Next

(* analyzeGraph from 512 blocks on: for every flow graph and every order   *)
(* of successors, a block that Lengauer-Tarjan has linked knows its        *)
(* semidominator, and Eval finds the lowest one on the whole path although *)
(* the path has been compressed.                                           *)
THEOREM LinksAreSound == Spec => []LinksSound
<1>1. DominanceInv => LinksSound
  BY LinksAreRight DEF DominanceInv, LinksSound
<1>2. Init => DominanceInv
  BY InitDominance
<1>3. DominanceInv /\ [Next]_vars => DominanceInv'
  BY DominanceStep
<1> QED BY <1>1, <1>2, <1>3, PTL DEF Spec

(* What the algorithms promise is a block's immediate dominator. *)
LEMMA SamePromise ==
  /\ \A s, n : Promise!Idom(s, n) = Idom(s, n)
  /\ \A s : Promise!DomTree(s) = DomTree(s)
  /\ Promise!FlowGraphs = FlowGraphs
<1>1. \A s, n : Promise!Idom(s, n) = Idom(s, n)
  BY Zenon DEF Idom, Promise!Idom, Doms, Promise!Doms, Dominates, Promise!Dominates
<1>2. \A s : Promise!DomTree(s) = DomTree(s)
  BY <1>1, Zenon DEF DomTree, Promise!DomTree
<1>3. Promise!FlowGraphs = FlowGraphs
  BY DEF FlowGraphs, Promise!FlowGraphs, Connected, Promise!Connected
<1> QED BY <1>1, <1>2, <1>3

LEMMA EndsRight ==
  ASSUME DominanceInv, phase = "done"
  PROVE  TreeRight /\ succs \in FlowGraphs
BY DEF DominanceInv, LinkInv, ExtractInv, SweepInv

(* Nothing is done to the graph, nor to the tree once it is there. *)
LEMMA StepEffect ==
  ASSUME [Next]_vars
  PROVE  succs' = succs /\ (phase = "done" => UNCHANGED <<idom, dtree, phase>>)
<1>1. CASE Sweeps!Next
  BY <1>1 DEF Sweeps!Next, Sweeps!Visit, Sweeps!StartSweeps, Sweeps!SweepBlock,
       Sweeps!SweepAgain, Sweeps!EndSweeps, Sweeps!Extract, Sweeps!EndExtract,
       Sweeps!Done, Sweeps!vars
<1>2. CASE LT!Next
  BY <1>2 DEF LT!Next, LT!Visit, LT!EvalPred, LT!EmptyBucket, LT!StartPasses, LT!LinkNode,
       LT!EndNode, LT!SecondPass, LT!AddDTreeSuccs, LT!Done, LT!vars
<1>3. CASE UNCHANGED vars
  BY <1>3 DEF vars
<1> QED BY <1>1, <1>2, <1>3 DEF Next

(* Whichever algorithm analyzeGraph runs, when it has ended every block of *)
(* the flow graph has been given its immediate dominator and its children  *)
(* in the dominator tree, once and for all.                                *)
THEOREM DominatorsAreRight == Spec /\ <>(phase = "done") => DominatorTreeSpec
<1> DEFINE given == IF phase = "done" THEN idom ELSE [n \in Node |-> NoNode]
           children == IF phase = "done" THEN dtree ELSE [n \in Node |-> {}]
<1>1. Init => DominanceInv /\ Promise!Init
  <2>1. Init => phase # "done" /\ succs \in FlowGraphs
    BY DEF Init, Start, LT!Start
  <2> QED BY <2>1, InitDominance, SamePromise DEF Promise!Init, Promise!NoIdom, Promise!NoTree
<1>2. DominanceInv /\ [Next]_vars =>
        DominanceInv' /\ [Promise!ComputeTree]_<<succs, given, children>>
  <2> SUFFICES ASSUME DominanceInv, [Next]_vars
               PROVE  DominanceInv' /\ [Promise!ComputeTree]_<<succs, given, children>>
    OBVIOUS
  <2>1. DominanceInv' /\ succs' = succs
    BY DominanceStep, StepEffect
  <2>2. CASE phase = "done"
    BY <2>1, <2>2, StepEffect
  <2>3. CASE phase # "done" /\ phase' # "done"
    BY <2>1, <2>3
  <2>4. CASE phase # "done" /\ phase' = "done"
    <3>1. TreeRight'
      BY <2>1, <2>4 DEF DominanceInv, LinkInv, ExtractInv
    <3>2. idom' = [n \in Node |-> Idom(succs, n)] /\ dtree' = DomTree(succs)
      BY <2>1, <3>1 DEF TreeRight
    <3>3. idom' = [n \in Node |-> Promise!Idom(succs, n)] /\ dtree' = Promise!DomTree(succs)
      BY <3>2, SamePromise
    <3> QED BY <2>1, <2>4, <3>3 DEF Promise!ComputeTree, Promise!NoIdom
  <2> QED BY <2>1, <2>2, <2>3, <2>4
<1>3. DominanceInv /\ phase = "done" => given # Promise!NoIdom
  <2> SUFFICES ASSUME DominanceInv, phase = "done" PROVE idom # Promise!NoIdom
    OBVIOUS
  <2>1. TreeRight /\ succs \in FlowGraphs
    BY EndsRight
  <2>2. idom[CfgHead] = Idom(succs, CfgHead)
    BY <2>1, NodeAssumption DEF TreeRight
  <2>3. Idom(succs, CfgHead) \in Node
    BY <2>1, IdomFacts, NodeAssumption
  <2> QED BY <2>2, <2>3, NodeAssumption DEF Promise!NoIdom
<1> QED BY <1>1, <1>2, <1>3, PTL DEF Spec, DominatorTreeSpec, Promise!Spec
=============================================================================
