------------------------ MODULE RegionAnalysisProofs -----------------------
(***************************************************************************)
(* The numbers and frontiers regionCFG computes are right on every flow    *)
(* graph, of any size, in every order of its searches: dominance is a      *)
(* partial order, every block but the entry has an immediate dominator,    *)
(* so dominance is descent in the tree; an interval of numbers holds the   *)
(* blocks its block dominates; the walk up the tree from a predecessor     *)
(* meets exactly the blocks whose dominance ends.                          *)
(***************************************************************************)
EXTENDS RegionAnalysis, FlowGraphProofs, SequenceTheorems

-----------------------------------------------------------------------------
TreeInv ==
  /\ succs \in FlowGraphs
  /\ idom = [n \in Node |-> Idom(succs, n)]
  /\ dtree = [a \in Node |-> {n \in Node \ {Entry} : idom[n] = a}]

Dom(a, b) == Dominates(succs, a, b)

LEMMA ChildFacts ==
  ASSUME TreeInv, NEW a \in Node, NEW n \in dtree[a]
  PROVE  n \in Node \ {Entry} /\ \A x \in Node : Dom(x, n) <=> x = n \/ Dom(x, a)
<1>1. n \in Node \ {Entry} /\ a = Idom(succs, n)
  BY DEF TreeInv
<1>2. Dom(n, n)
  BY DEF Dom, Dominates
<1> QED BY <1>1, <1>2, IdomFacts DEF TreeInv, Dom

Numbered == {n \in Node : dfn[n] # -1}
Pending == {calls[k] : k \in 1 .. Len(calls)}

(* What fastDominancePreComputation knows in the middle of its search: the *)
(* dominators of what is numbered are, the calls that have not returned    *)
(* dominate all that has been numbered since, the others what lies in the  *)
(* interval of their numbers.                                              *)
NumberInv ==
  /\ calls \in Seq(Node) /\ cnt \in Nat
  /\ dfn \in [Node -> {-1} \cup 1 .. cnt] /\ maxDfn \in [Node -> Int]
  /\ Entry \in Numbered
  /\ \A m, n \in Numbered : dfn[m] = dfn[n] => m = n
  /\ \A n \in Numbered : \A x \in Node : Dom(x, n) => x \in Numbered
  /\ \A k \in 1 .. Len(calls) : calls[k] \in Numbered
  /\ \A k, l \in 1 .. Len(calls) : k < l => dfn[calls[k]] < dfn[calls[l]]
  /\ \A n \in Pending : \A m \in Numbered : Dom(n, m) <=> dfn[n] <= dfn[m]
  /\ \A n \in Numbered \ Pending :
       /\ dtree[n] \subseteq Numbered /\ maxDfn[n] <= cnt
       /\ \A m \in Numbered : Dom(n, m) <=> dfn[n] <= dfn[m] /\ dfn[m] <= maxDfn[n]
       /\ \A m \in Pending : ~Dom(n, m)

LEMMA EnterKeeps ==
  ASSUME TreeInv, NumberInv, NEW n \in Node, Info!Enter(n)
  PROVE  NumberInv'
<1> DEFINE l == Len(calls)
           a == calls[l]
<1>1. /\ calls # <<>> /\ n \in dtree[a] /\ dfn[n] = -1
      /\ cnt' = cnt + 1 /\ dfn' = [dfn EXCEPT ![n] = cnt + 1]
      /\ calls' = Append(calls, n) /\ maxDfn' = maxDfn
      /\ succs' = succs /\ idom' = idom /\ dtree' = dtree
  BY DEF Info!Enter, Info!Unnumbered, Info!Innermost, Info!tree
<1>2. \A x, y : Dom(x, y)' = Dom(x, y)
  BY <1>1 DEF Dom, Dominates
<1>3. /\ calls \in Seq(Node) /\ cnt \in Nat /\ maxDfn \in [Node -> Int]
      /\ dfn \in [Node -> {-1} \cup 1 .. cnt] /\ l \in Nat /\ l \in 1 .. l
  <2>1. calls \in Seq(Node) /\ calls # <<>>
    BY <1>1 DEF NumberInv
  <2>2. l \in Nat /\ l > 0
    BY <2>1
  <2> QED BY <2>1, <2>2 DEF NumberInv
<1>4. a \in Numbered /\ a \in Pending /\ a \in Node
  BY <1>3 DEF NumberInv, Pending, Numbered
<1>5. \A x \in Node : Dom(x, n) <=> x = n \/ Dom(x, a)
  BY <1>1, <1>4, ChildFacts
<1>6. /\ \A k \in 1 .. l : calls'[k] = calls[k]
      /\ calls'[l + 1] = n /\ Len(calls') = l + 1 /\ calls' \in Seq(Node)
  BY <1>1, <1>3
<1> HIDE DEF l
<1>7. Pending' = Pending \cup {n}
  <2>1. \A k \in 1 .. l + 1 : k \in 1 .. l \/ k = l + 1
    BY <1>3
  <2>2. 1 .. l \subseteq 1 .. l + 1 /\ l + 1 \in 1 .. l + 1
    BY <1>3
  <2> QED BY <1>6, <2>1, <2>2 DEF Pending, l
<1> HIDE DEF a
<1>8. cnt + 1 # -1 /\ cnt + 1 \in 1 .. cnt + 1 /\ 1 .. cnt \subseteq 1 .. cnt + 1
  BY <1>3
<1>9. n \notin Numbered /\ Numbered' = Numbered \cup {n}
  BY <1>1, <1>3, <1>8 DEF Numbered
<1>10. /\ dfn'[n] = cnt + 1
       /\ \A m \in Numbered : dfn'[m] = dfn[m] /\ dfn[m] \in 1 .. cnt
  BY <1>1, <1>3, <1>9 DEF Numbered
<1>11. \A m \in Numbered : dfn[m] \in Int /\ dfn[m] < cnt + 1 /\ dfn[m] <= cnt + 1
  BY <1>3, <1>10
<1>12. /\ cnt' \in Nat /\ dfn' \in [Node -> {-1} \cup 1 .. cnt'] /\ maxDfn' \in [Node -> Int]
       /\ Entry \in Numbered'
  BY <1>1, <1>3, <1>8, <1>9 DEF NumberInv
<1>13. \A m, x \in Numbered' : dfn'[m] = dfn'[x] => m = x
  BY <1>9, <1>10, <1>11 DEF NumberInv
<1>14. \A m \in Numbered' : \A x \in Node : Dom(x, m) => x \in Numbered'
  BY <1>4, <1>5, <1>9 DEF NumberInv
<1>15. \A k \in 1 .. l : calls[k] \in Numbered
  BY DEF NumberInv, l
<1>16. \A k \in 1 .. Len(calls') : calls'[k] \in Numbered'
  BY <1>3, <1>6, <1>9, <1>15
<1>17. \A k, h \in 1 .. Len(calls') : k < h => dfn'[calls'[k]] < dfn'[calls'[h]]
  <2> SUFFICES ASSUME NEW k \in 1 .. l + 1, NEW h \in 1 .. l + 1, k < h
               PROVE  dfn'[calls'[k]] < dfn'[calls'[h]]
    BY <1>6
  <2>1. k \in 1 .. l
    BY <1>3
  <2>2. CASE h \in 1 .. l
    BY ZenonT(30), <1>6, <1>10, <1>15, <2>1, <2>2 DEF NumberInv, l
  <2>3. CASE h = l + 1
    BY <1>6, <1>10, <1>11, <1>15, <2>1, <2>3
  <2> QED BY <1>3, <2>2, <2>3
<1>18. ASSUME NEW x \in Pending', NEW m \in Numbered'
       PROVE  Dom(x, m) <=> dfn'[x] <= dfn'[m]
  <2>1. CASE x # n /\ m # n
    <3>1. x \in Pending /\ m \in Numbered
      BY <1>7, <1>9, <2>1
    <3>2. x \in Numbered
      BY <1>15, <3>1 DEF Pending, l
    <3> QED BY <1>10, <3>1, <3>2 DEF NumberInv
  <2>2. CASE x # n /\ m = n
    <3>1. x \in Pending /\ x \in Numbered /\ x \in Node
      BY <1>7, <1>15, <2>2 DEF Pending, l, Numbered
    <3>2. dfn[x] <= dfn[a]
      <4>1. PICK k \in 1 .. l : calls[k] = x
        BY <3>1 DEF Pending, l
      <4>2. k = l \/ k < l
        BY <1>3
      <4>3. dfn[x] = dfn[a] \/ dfn[x] < dfn[a]
        BY <1>3, <4>1, <4>2 DEF NumberInv, a, l
      <4> QED BY <1>4, <1>11, <3>1, <4>3
    <3>3. Dom(x, n)
      BY <1>4, <1>5, <3>1, <3>2 DEF NumberInv
    <3> QED BY <1>10, <1>11, <2>2, <3>1, <3>3
  <2>3. CASE x = n /\ m = n
    BY <1>3, <1>10, <2>3 DEF Dom, Dominates
  <2>4. CASE x = n /\ m # n
    <3>1. m \in Numbered
      BY <1>9, <2>4
    <3>2. ~Dom(n, m)
      BY <1>9, <3>1 DEF NumberInv
    <3>3. ~(cnt + 1 <= dfn[m])
      BY <1>3, <1>11, <3>1
    <3> QED BY <1>10, <2>4, <3>1, <3>2, <3>3
  <2> QED BY <2>1, <2>2, <2>3, <2>4
<1>19. ASSUME NEW x \in Numbered' \ Pending'
       PROVE  /\ dtree[x] \subseteq Numbered' /\ maxDfn[x] <= cnt + 1
              /\ \A m \in Numbered' :
                   Dom(x, m) <=> dfn'[x] <= dfn'[m] /\ dfn'[m] <= maxDfn[x]
              /\ \A m \in Pending' : ~Dom(x, m)
  <2>1. x \in Numbered \ Pending /\ x # n /\ x \in Node
    BY <1>7, <1>9, <1>19 DEF Numbered
  <2>2. maxDfn[x] \in Int /\ maxDfn[x] <= cnt
    BY <1>3, <2>1 DEF NumberInv
  <2>3. maxDfn[x] <= cnt + 1 /\ ~(cnt + 1 <= maxDfn[x])
    BY <1>3, <2>2
  <2>4. ~Dom(x, n)
    BY <1>4, <1>5, <2>1 DEF NumberInv
  <2>5. \A m \in Numbered' :
          Dom(x, m) <=> dfn'[x] <= dfn'[m] /\ dfn'[m] <= maxDfn[x]
    BY <1>9, <1>10, <2>1, <2>3, <2>4 DEF NumberInv
  <2> QED BY <1>7, <1>9, <2>1, <2>3, <2>4, <2>5 DEF NumberInv
<1> QED BY <1>1, <1>2, <1>6, <1>12, <1>13, <1>14, <1>16, <1>17, <1>18, <1>19
        DEF NumberInv

LEMMA ReturnKeeps ==
  ASSUME TreeInv, NumberInv, Info!Return
  PROVE  NumberInv'
<1> DEFINE l == Len(calls)
           a == calls[l]
<1>1. /\ calls # <<>> /\ {n \in dtree[a] : dfn[n] = -1} = {}
      /\ maxDfn' = [maxDfn EXCEPT ![a] = cnt]
      /\ calls' = SubSeq(calls, 1, l - 1) /\ cnt' = cnt /\ dfn' = dfn
      /\ succs' = succs /\ dtree' = dtree
  BY DEF Info!Return, Info!Unnumbered, Info!Innermost, Info!MaxBelow, Info!tree
<1>2. \A x, y : Dom(x, y)' = Dom(x, y)
  BY <1>1 DEF Dom, Dominates
<1>3. /\ calls \in Seq(Node) /\ cnt \in Nat /\ maxDfn \in [Node -> Int]
      /\ dfn \in [Node -> {-1} \cup 1 .. cnt] /\ l \in Nat /\ l \in 1 .. l
  <2>1. calls \in Seq(Node) /\ calls # <<>>
    BY <1>1 DEF NumberInv
  <2>2. l \in Nat /\ l > 0
    BY <2>1
  <2> QED BY <2>1, <2>2 DEF NumberInv
<1>4. a \in Numbered /\ a \in Pending /\ a \in Node
  BY <1>3 DEF NumberInv, Pending, Numbered
<1>5. /\ calls' \in Seq(Node) /\ Len(calls') = l - 1
      /\ \A k \in 1 .. l - 1 : calls'[k] = calls[k]
  <2>1. 1 \in 1 .. l + 1 /\ l - 1 \in 1 - 1 .. l
    BY <1>3
  <2>2. \A k \in 1 .. (l - 1) - 1 + 1 : SubSeq(calls, 1, l - 1)[k] = calls[1 + k - 1]
    BY <1>3, <2>1, SubSeqProperties
  <2>3. SubSeq(calls, 1, l - 1) \in Seq(Node)
    BY <1>3, <2>1, SubSeqProperties
  <2>4. Len(SubSeq(calls, 1, l - 1)) = (IF 1 <= l - 1 THEN (l - 1) - 1 + 1 ELSE 0)
    BY <1>3, <2>1, SubSeqProperties
  <2> HIDE DEF l
  <2> QED BY <1>1, <1>3, <2>2, <2>3, <2>4
<1>6. Numbered' = Numbered
  BY <1>1 DEF Numbered
<1>7. \A k \in 1 .. l : calls[k] \in Numbered
  BY DEF NumberInv, l
<1>8. \A k, h \in 1 .. l : k < h => dfn[calls[k]] < dfn[calls[h]]
  BY DEF NumberInv, l
<1> HIDE DEF l
<1>9. 1 .. l = (1 .. l - 1) \cup {l} /\ \A k \in 1 .. l - 1 : k < l
  BY <1>3
<1>10. \A m \in Numbered : dfn[m] \in 1 .. cnt
  BY <1>3 DEF Numbered
<1>11. \A k \in 1 .. l - 1 : dfn[calls[k]] < dfn[a]
  BY <1>3, <1>8, <1>9 DEF a
<1> HIDE DEF a
<1>12. \A m \in Numbered : dfn[m] \in Int /\ dfn[m] <= cnt
  BY <1>3, <1>10
<1>13. Pending' = {calls[k] : k \in 1 .. l - 1}
  BY <1>5 DEF Pending
<1>14. Pending = Pending' \cup {a}
  BY <1>9, <1>13 DEF Pending, a, l
<1>15. \A m \in Pending' : m \in Numbered /\ dfn[m] < dfn[a]
  BY <1>7, <1>9, <1>11, <1>13
<1>16. a \notin Pending'
  BY <1>4, <1>12, <1>15
<1>17. /\ calls' \in Seq(Node) /\ cnt' \in Nat /\ dfn' \in [Node -> {-1} \cup 1 .. cnt']
       /\ maxDfn' \in [Node -> Int]
  <2>1. cnt \in Int
    BY <1>3
  <2>2. maxDfn' \in [Node -> Int]
    BY <1>1, <1>3, <2>1
  <2>3. dfn' \in [Node -> {-1} \cup 1 .. cnt']
    BY <1>1, <1>3
  <2> QED BY <1>1, <1>3, <1>5, <2>2, <2>3
<1>22. /\ Entry \in Numbered'
       /\ \A m, n \in Numbered' : dfn'[m] = dfn'[n] => m = n
       /\ \A n \in Numbered' : \A x \in Node : Dom(x, n) => x \in Numbered'
  BY <1>1, <1>6 DEF NumberInv
<1>18. \A k \in 1 .. Len(calls') : calls'[k] \in Numbered'
  BY <1>5, <1>6, <1>7, <1>9
<1>19. \A k, h \in 1 .. Len(calls') : k < h => dfn'[calls'[k]] < dfn'[calls'[h]]
  <2> SUFFICES ASSUME NEW k \in 1 .. l - 1, NEW h \in 1 .. l - 1, k < h
               PROVE  dfn'[calls'[k]] < dfn'[calls'[h]]
    BY <1>5
  <2> QED BY <1>1, <1>5, <1>8, <1>9
<1>20. \A n \in Pending' : \A m \in Numbered' : Dom(n, m) <=> dfn'[n] <= dfn'[m]
  BY <1>1, <1>6, <1>14 DEF NumberInv
<1>21. ASSUME NEW x \in Numbered' \ Pending'
       PROVE  /\ dtree[x] \subseteq Numbered' /\ maxDfn'[x] <= cnt
              /\ \A m \in Numbered' :
                   Dom(x, m) <=> dfn'[x] <= dfn'[m] /\ dfn'[m] <= maxDfn'[x]
              /\ \A m \in Pending' : ~Dom(x, m)
  <2>1. x \in Numbered /\ x \in Node
    BY <1>6 DEF Numbered
  <2>2. CASE x = a
    <3>1. maxDfn'[x] = cnt /\ cnt <= cnt
      BY <1>1, <1>3, <2>1, <2>2
    <3>2. dtree[x] \subseteq Numbered
      BY <1>1, <2>1, <2>2 DEF Numbered, TreeInv
    <3>3. \A m \in Numbered : Dom(x, m) <=> dfn[x] <= dfn[m]
      BY <1>4, <2>2 DEF NumberInv
    <3>4. \A m \in Pending' : ~(dfn[x] <= dfn[m])
      BY <1>12, <1>15, <2>1, <2>2
    <3> QED BY <1>1, <1>6, <1>12, <1>15, <3>1, <3>2, <3>3, <3>4
  <2>3. CASE x # a
    <3>1. x \in Numbered \ Pending /\ maxDfn'[x] = maxDfn[x]
      BY <1>1, <1>3, <1>14, <1>21, <2>1, <2>3
    <3> QED BY <1>1, <1>6, <1>14, <3>1 DEF NumberInv
  <2> QED BY <2>2, <2>3
<1> QED BY SMTT(30), <1>1, <1>2, <1>17, <1>18, <1>19, <1>20, <1>21, <1>22 DEF NumberInv

(* When the search is over every block has a number.                       *)
LEMMA AllNumbered ==
  ASSUME TreeInv, NumberInv, calls = <<>>
  PROVE  Pending = {} /\ Numbered = Node
<1>1. Pending = {}
  BY DEF Pending
<1>2. Numbered \in SUBSET Node /\ Entry \in Numbered
  BY DEF Numbered, NumberInv
<1>3. ASSUME NEW m \in Numbered, NEW n \in succs[m] PROVE n \in Numbered
  <2>1. n \in Node \ {Entry} /\ m \in Node
    BY <1>2, GraphFacts DEF TreeInv
  <2> DEFINE a == Idom(succs, n)
  <2>2. a \in Node /\ a # n /\ Dom(a, n)
    <3>1. Dominates(succs, a, a)
      BY DEF Dominates
    <3> QED BY <2>1, <3>1, IdomFacts DEF TreeInv, Dom
  <2>3. Dom(a, m)
    BY <2>1, <2>2, PredDominated DEF Dom
  <2>4. a \in Numbered
    BY <2>2, <2>3 DEF NumberInv
  <2>5. n \in dtree[a]
    BY <2>1, <2>2 DEF TreeInv
  <2> QED BY <1>1, <2>4, <2>5 DEF NumberInv
<1> QED BY <1>1, <1>2, <1>3, GraphFacts DEF TreeInv

Numbers == \A a, b \in Node : Info!FastDominates(a, b) <=> Dom(a, b)

LEMMA NumbersAnswer ==
  ASSUME TreeInv, NumberInv, calls = <<>>
  PROVE  Numbers
<1> SUFFICES ASSUME NEW a \in Node, NEW b \in Node
             PROVE  Info!FastDominates(a, b) <=> Dom(a, b)
  BY DEF Numbers
<1>1. a \in Numbered \ Pending /\ b \in Numbered
  BY AllNumbered
<1>2. Dom(a, b) <=> dfn[a] <= dfn[b] /\ dfn[b] <= maxDfn[a]
  BY <1>1 DEF NumberInv
<1>3. dfn[a] = dfn[b] => a = b
  BY <1>1 DEF NumberInv
<1>4. dfn[a] \in Int /\ dfn[b] \in Int /\ maxDfn[a] \in Int
  BY DEF NumberInv
<1>5. a = b => Dom(a, b)
  BY DEF Dom, Dominates
<1> QED BY <1>2, <1>3, <1>4, <1>5 DEF Info!FastDominates

(* The walk up the tree answers the same: it is defined by recursion along *)
(* idom, and dominance is the one solution of its equation.                *)
LEMMA WalkAnswers ==
  ASSUME TreeInv, NEW a \in Node, NEW b \in Node
  PROVE  Info!DominatesByWalk(a, b) <=> Dom(a, b)
<1> DEFINE Solves(f) == f = [p \in Node |-> p = a \/ (Info!Preds(succs, p) # {} /\ f[idom[p]])]
           d == [p \in Node |-> Dom(a, p)]
<1>1. \A p \in Node : Info!Preds(succs, p) = {} <=> p = Entry
  <2>1. \A p \in Node : Info!Preds(succs, p) = {m \in Node : p \in succs[m]}
    BY DEF Info!Preds
  <2>2. Info!Preds(succs, Entry) = {}
    BY <2>1, NodeAssumption, GraphFacts DEF TreeInv
  <2>3. ASSUME NEW p \in Node, p # Entry PROVE \E m \in Node : p \in succs[m]
    <3> SUFFICES ASSUME \A m \in Node : p \notin succs[m] PROVE FALSE
      OBVIOUS
    <3>1. \A m \in Node \ {p} : succs[m] \subseteq Node \ {p}
      BY GraphFacts DEF TreeInv
    <3>2. Entry \in Node \ {p} /\ Node \ {p} \in SUBSET Node
      BY <2>3, NodeAssumption
    <3>3. Node \ {p} = Node
      BY <3>1, <3>2, GraphFacts DEF TreeInv
    <3> QED BY <3>3
  <2> QED BY <2>1, <2>2, <2>3
<1>2. ASSUME NEW p \in Node, p # Entry
      PROVE  /\ idom[p] \in Node
             /\ \A x \in Node : Dom(x, idom[p]) <=> x # p /\ Dom(x, p)
  BY <1>2, IdomFacts DEF TreeInv, Dom
<1>3. Dom(a, Entry) <=> a = Entry
  BY NodeAssumption, EntryDominates, DominatesAntisym DEF TreeInv, Dom
<1>4. \A p \in Node : Dom(p, p)
  BY DEF Dom, Dominates
<1>5. Solves(d)
  <2>1. ASSUME NEW p \in Node
        PROVE  Dom(a, p) = (p = a \/ (Info!Preds(succs, p) # {} /\ d[idom[p]]))
    <3>1. Dom(a, p) \in BOOLEAN
      BY DEF Dom, Dominates
    <3>2. CASE p = Entry
      BY <1>1, <1>3, <2>1, <3>1, <3>2
    <3>3. CASE p # Entry
      BY <1>1, <1>2, <1>4, <2>1, <3>1, <3>3
    <3> QED BY <3>2, <3>3
  <2>2. d = [p \in Node |-> p = a \/ (Info!Preds(succs, p) # {} /\ d[idom[p]])]
    BY <2>1, Zenon
  <2> QED BY <2>2
<1>6. ASSUME NEW f, Solves(f) PROVE f = d
  <2> DEFINE G == {p \in Node : \A x \in Node : Dom(x, p) => (f[x] <=> Dom(a, x))}
  <2>1. \A p \in Node : f[p] <=> p = a \/ (Info!Preds(succs, p) # {} /\ f[idom[p]])
    BY <1>6
  <2>2. Entry \in G
    <3>1. f[Entry] <=> Dom(a, Entry)
      BY <1>1, <1>3, <2>1, NodeAssumption
    <3>2. \A x \in Node : Dom(x, Entry) => x = Entry
      BY NodeAssumption, EntryDominates, DominatesAntisym DEF TreeInv, Dom
    <3> QED BY <3>1, <3>2, NodeAssumption
  <2>3. ASSUME NEW p \in G, NEW n \in succs[p] PROVE n \in G
    <3>1. n \in Node /\ n # Entry /\ p \in Node
      BY GraphFacts DEF TreeInv
    <3>2. \A x \in Node : Dom(x, n) /\ x # n => Dom(x, p)
      BY <3>1, PredDominated DEF Dom
    <3>3. \A x \in Node : Dom(x, n) /\ x # n => (f[x] <=> Dom(a, x))
      BY <3>2
    <3>4. f[idom[n]] <=> Dom(a, idom[n])
      BY <1>2, <1>4, <3>1, <3>3
    <3>5. f[n] <=> Dom(a, n)
      BY <1>1, <1>2, <1>4, <2>1, <3>1, <3>4
    <3> QED BY <3>1, <3>3, <3>5
  <2>4. G = Node
    <3> HIDE DEF G
    <3>1. G \in SUBSET Node
      BY DEF G
    <3> QED BY <2>2, <2>3, <3>1, GraphFacts DEF TreeInv
  <2>5. \A p \in Node : f[p] <=> Dom(a, p)
    BY <1>4, <2>4
  <2>6. f = [p \in Node |-> p = a \/ (Info!Preds(succs, p) # {} /\ f[idom[p]])]
    BY <1>6
  <2>7. ASSUME NEW p \in Node
        PROVE  (p = a \/ (Info!Preds(succs, p) # {} /\ f[idom[p]])) = Dom(a, p)
    <3>1. Dom(a, p) \in BOOLEAN
      BY DEF Dom, Dominates
    <3> QED BY <2>1, <2>5, <3>1
  <2> QED BY <2>6, <2>7, Zenon
<1>7. d = CHOOSE f : Solves(f)
  <2> HIDE DEF Solves, d
  <2> QED BY <1>5, <1>6
<1>8. Info!DominatesByWalk(a, b)
        <=> a = b \/ idom[b] = a \/ (idom[a] # b /\ b # Entry /\ d[idom[b]])
  BY <1>7 DEF Info!DominatesByWalk
<1>9. CASE a = b
  BY <1>4, <1>8, <1>9
<1>10. CASE a # b /\ b = Entry
  <2>1. idom[b] # a
    BY <1>10, NodeAssumption DEF TreeInv, Idom
  <2> QED BY <1>3, <1>8, <1>10, <2>1
<1>11. CASE a # b /\ b # Entry
  <2>1. d[idom[b]] <=> Dom(a, b)
    BY <1>2, <1>11
  <2>2. idom[b] = a => Dom(a, b)
    BY <1>2, <1>4, <1>11
  <2>3. idom[a] = b => ~Dom(a, b)
    <3> SUFFICES ASSUME idom[a] = b, Dom(a, b) PROVE FALSE
      OBVIOUS
    <3>1. a # Entry
      BY NodeAssumption DEF TreeInv, Idom
    <3>2. Dom(b, a)
      BY <1>2, <1>4, <3>1
    <3> QED BY <1>11, <3>2, DominatesAntisym DEF TreeInv, Dom
  <2> HIDE DEF d
  <2> QED BY <1>8, <1>11, <2>1, <2>2, <2>3
<1> QED BY <1>9, <1>10, <1>11

-----------------------------------------------------------------------------
(* The dominance of n ends at y. *)
Below(n, y) == n = y \/ ~Dom(n, y)
Prior(y) == Preds(succs, y)

(* What computeDominanceFrontiers knows: the frontiers hold no wrong block *)
(* and miss none of a block it has been at, but for the predecessors to    *)
(* come and what lies above the runner.                                    *)
FrontierInv ==
  /\ dfrontier \in [Node -> SUBSET Node]
  /\ \A n \in Node : \A y \in dfrontier[n] : Below(n, y) /\ \E p \in Prior(y) : Dom(n, p)
  /\ \A n \in Node, y \in Node \ left : \A p \in Prior(y) :
       Below(n, y) /\ Dom(n, p) /\ ~(y = block /\ p \in todo) =>
         y \in dfrontier[n] \/ (y = block /\ runner # NoNode /\ Dom(n, runner))
  /\ todo \subseteq {p \in Node : block \in Node /\ p \in Prior(block)}
  /\ runner # NoNode => /\ block \in Node /\ runner \in Node
                        /\ Dom(idom[block], runner)
                        /\ \E p \in Prior(block) : Dom(runner, p)

LEMMA PriorFacts ==
  ASSUME TreeInv, NEW y \in Node, NEW p \in Prior(y)
  PROVE  /\ p \in Node /\ y # Entry
         /\ idom[y] \in Node
         /\ Dom(idom[y], p)
         /\ \A x \in Node : Dom(x, idom[y]) <=> x # y /\ Dom(x, y)
         /\ \A x \in Node : x # y /\ Dom(x, y) => Dom(x, p)
<1>1. p \in Node /\ y \in succs[p] /\ y # Entry
  BY GraphFacts DEF Prior, Preds, TreeInv
<1>2. idom[y] \in Node \ {y} /\ \A x \in Node : Dom(x, idom[y]) <=> x # y /\ Dom(x, y)
  BY <1>1, IdomFacts DEF TreeInv, Dom
<1>3. Dom(idom[y], idom[y])
  BY DEF Dom, Dominates
<1>4. \A x \in Node : x # y /\ Dom(x, y) => Dom(x, p)
  BY <1>1, PredDominated DEF Dom
<1> QED BY <1>1, <1>2, <1>3, <1>4

(* A block with one predecessor ends no dominance. *)
LEMMA NoJoin ==
  ASSUME TreeInv, NEW y \in Node, ~Info!JoinPoint(y), NEW p \in Prior(y),
         NEW n \in Node, Dom(n, p)
  PROVE  ~Below(n, y)
<1>1. p \in Node /\ y \in succs[p] /\ y # Entry /\ succs \in FlowGraphs
  BY PriorFacts DEF TreeInv, Prior, Preds
<1>2. ASSUME NEW q \in Prior(y), q # p PROVE FALSE
  <2>1. Prior(y) = Info!Preds(succs, y) /\ Prior(y) \subseteq Node
    BY DEF Prior, Preds, Info!Preds
  <2>2. IsFiniteSet(Prior(y))
    BY <2>1, NodeAssumption, FS_Subset
  <2>3. {p, q} \in SUBSET Prior(y)
    OBVIOUS
  <2>4. Cardinality({p, q}) <= Cardinality(Prior(y))
    BY <2>2, <2>3, FS_Subset
  <2>5. IsFiniteSet({p}) /\ Cardinality({p}) = 1
    BY FS_Singleton
  <2>6. Cardinality({p} \cup {q}) = 2
    BY <1>2, <2>5, FS_AddElement
  <2>7. {p} \cup {q} = {p, q}
    OBVIOUS
  <2>8. Cardinality(Prior(y)) \in Nat
    BY <2>2, FS_CardinalityType
  <2>9. Info!Cardinality(Prior(y)) = Cardinality(Prior(y))
    BY DEF Info!Cardinality, Cardinality
  <2> QED BY <2>1, <2>4, <2>6, <2>7, <2>8, <2>9 DEF Info!JoinPoint
<1>3. \A m \in Node \ {p} : y \notin succs[m]
  BY <1>2 DEF Prior, Preds
<1>4. p # y
  <2> SUFFICES ASSUME p = y PROVE FALSE
    OBVIOUS
  <2>1. \A m \in Node \ {y} : succs[m] \subseteq Node \ {y}
    BY <1>1, <1>3, GraphFacts
  <2>2. Entry \in Node \ {y} /\ Node \ {y} \in SUBSET Node
    BY <1>1, NodeAssumption
  <2>3. Node \ {y} = Node
    BY <1>1, <2>1, <2>2, GraphFacts
  <2> QED BY <2>3
<1>5. Dom(p, y)
  <2> DEFINE S == Node \ {p, y}
  <2>1. Entry \in S \cup {p}
    BY <1>1, NodeAssumption
  <2>2. \A m \in S : succs[m] \subseteq S \cup {p}
    BY <1>1, <1>3, GraphFacts
  <2> QED BY <2>1, <2>2 DEF Dom, Dominates
<1>6. Dom(n, y)
  BY <1>5, DominatesTrans DEF Dom
<1>7. n # y
  BY <1>1, <1>4, <1>5, DominatesAntisym DEF Dom
<1> QED BY <1>6, <1>7 DEF Below

LEMMA NextBlockKeeps ==
  ASSUME TreeInv, FrontierInv, NEW y \in Node, Info!NextBlock(y)
  PROVE  FrontierInv'
<1>1. /\ todo = {} /\ runner = NoNode /\ left' = left \ {y} /\ block' = y
      /\ todo' = IF Info!JoinPoint(y) THEN Prior(y) ELSE {}
      /\ succs' = succs /\ idom' = idom /\ dfrontier' = dfrontier /\ runner' = runner
  BY DEF Info!NextBlock, Info!tree, Prior, Preds, Info!Preds
<1>2. /\ \A a, b : Dom(a, b)' = Dom(a, b) /\ Below(a, b)' = Below(a, b)
      /\ \A b : Prior(b)' = Prior(b)
  BY <1>1 DEF Dom, Dominates, Below, Prior, Preds
<1>3. ASSUME NEW n \in Node, NEW x \in Node \ left', NEW p \in Prior(x),
             Below(n, x), Dom(n, p), ~(x = y /\ p \in todo')
      PROVE  x \in dfrontier[n]
  <2>1. CASE x = y
    BY <1>1, <1>3, <2>1, NoJoin
  <2>2. CASE x # y
    BY <1>1, <1>3, <2>2 DEF FrontierInv
  <2> QED BY <2>1, <2>2
<1>4. todo' \subseteq {p \in Node : block' \in Node /\ p \in Prior(block')}
  BY <1>1 DEF Prior, Preds
<1> QED BY <1>1, <1>2, <1>3, <1>4 DEF FrontierInv

LEMMA NextPredKeeps ==
  ASSUME TreeInv, FrontierInv, NEW q \in Node, Info!NextPred(q)
  PROVE  FrontierInv'
<1>1. /\ q \in todo /\ runner = NoNode /\ todo' = todo \ {q} /\ runner' = q
      /\ succs' = succs /\ idom' = idom /\ dfrontier' = dfrontier /\ left' = left
      /\ block' = block
  BY DEF Info!NextPred, Info!tree
<1>2. /\ \A a, b : Dom(a, b)' = Dom(a, b) /\ Below(a, b)' = Below(a, b)
      /\ \A b : Prior(b)' = Prior(b)
  BY <1>1 DEF Dom, Dominates, Below, Prior, Preds
<1>3. block \in Node /\ q \in Prior(block) /\ q # NoNode
  BY <1>1, NodeAssumption DEF FrontierInv
<1>4. Dom(idom[block], q) /\ Dom(q, q)
  BY <1>3, PriorFacts DEF Dom, Dominates
<1>5. \A n \in Node, y \in Node \ left : \A p \in Prior(y) :
        Below(n, y) /\ Dom(n, p) /\ ~(y = block /\ p \in todo') =>
          y \in dfrontier[n] \/ (y = block /\ Dom(n, q))
  BY <1>1 DEF FrontierInv
<1> QED BY <1>1, <1>2, <1>3, <1>4, <1>5 DEF FrontierInv

LEMMA WalkKeeps ==
  ASSUME TreeInv, FrontierInv, Info!Walk
  PROVE  FrontierInv'
<1>1. /\ runner # NoNode /\ succs' = succs /\ idom' = idom /\ left' = left
      /\ block' = block /\ todo' = todo
      /\ IF runner = idom[block] THEN runner' = NoNode /\ dfrontier' = dfrontier
         ELSE /\ dfrontier' = [dfrontier EXCEPT ![runner] = @ \cup {block}]
              /\ runner' = idom[runner]
  BY DEF Info!Walk, Info!tree, Info!AtIdom, Info!Up
<1>2. /\ \A a, b : Dom(a, b)' = Dom(a, b) /\ Below(a, b)' = Below(a, b)
      /\ \A b : Prior(b)' = Prior(b)
  BY <1>1 DEF Dom, Dominates, Below, Prior, Preds
<1>3. /\ block \in Node /\ runner \in Node /\ Dom(idom[block], runner)
      /\ dfrontier \in [Node -> SUBSET Node]
  BY <1>1 DEF FrontierInv
<1>4. PICK q \in Prior(block) : Dom(runner, q)
  BY <1>1 DEF FrontierInv
<1>5. /\ idom[block] \in Node /\ idom[block] # block
      /\ \A x \in Node : Dom(x, idom[block]) <=> x # block /\ Dom(x, block)
  <2>1. Dom(block, block)
    BY DEF Dom, Dominates
  <2> QED BY <1>3, <2>1, PriorFacts
<1>6. CASE runner = idom[block]
  <2>1. \A n \in Node : Dom(n, runner) => ~Below(n, block)
    BY <1>5, <1>6 DEF Below
  <2>2. \A n \in Node, y \in Node \ left : \A p \in Prior(y) :
          Below(n, y) /\ Dom(n, p) /\ ~(y = block /\ p \in todo) => y \in dfrontier[n]
    BY <2>1 DEF FrontierInv
  <2> QED BY <1>1, <1>2, <1>6, <2>2 DEF FrontierInv
<1>7. CASE runner # idom[block]
  <2>1. Below(runner, block)
    <3> SUFFICES ASSUME runner # block, Dom(runner, block) PROVE FALSE
      BY DEF Below
    <3>1. Dom(runner, idom[block])
      BY <1>3, <1>5
    <3> QED BY <1>3, <1>5, <1>7, <3>1, DominatesAntisym DEF Dom, TreeInv
  <2>2. runner # Entry
    BY <1>3, <1>5, <1>7, NodeAssumption, EntryDominates, DominatesAntisym DEF Dom, TreeInv
  <2>3. /\ idom[runner] \in Node
        /\ \A x \in Node : Dom(x, idom[runner]) <=> x # runner /\ Dom(x, runner)
    BY <1>3, <2>2, IdomFacts DEF TreeInv, Dom
  <2>4. idom[runner] # NoNode /\ Dom(idom[block], idom[runner])
    BY <1>3, <1>5, <1>7, <2>3, NodeAssumption
  <2>5. Dom(idom[runner], q)
    <3>1. Dom(idom[runner], idom[runner])
      BY DEF Dom, Dominates
    <3>2. Dom(idom[runner], runner)
      BY <2>3, <3>1
    <3> QED BY <1>4, <3>2, DominatesTrans DEF Dom
  <2>6. /\ dfrontier' \in [Node -> SUBSET Node]
        /\ \A n \in Node : dfrontier'[n] = IF n = runner THEN dfrontier[n] \cup {block}
                                            ELSE dfrontier[n]
    BY <1>1, <1>3, <1>7
  <2>7. \A n \in Node : \A y \in dfrontier'[n] :
          Below(n, y) /\ \E p \in Prior(y) : Dom(n, p)
    BY <1>4, <2>1, <2>6 DEF FrontierInv
  <2>8. ASSUME NEW n \in Node, NEW y \in Node \ left, NEW p \in Prior(y),
               Below(n, y), Dom(n, p), ~(y = block /\ p \in todo)
        PROVE  y \in dfrontier'[n] \/ (y = block /\ Dom(n, idom[runner]))
    <3>1. y \in dfrontier[n] \/ (y = block /\ Dom(n, runner))
      BY <2>8 DEF FrontierInv
    <3> QED BY <2>3, <2>6, <3>1
  <2>9. runner' = idom[runner]
    BY <1>1, <1>7
  <2>10. todo \subseteq {p \in Node : block \in Node /\ p \in Prior(block)}
    BY DEF FrontierInv
  <2> QED BY <1>1, <1>2, <1>3, <2>3, <2>4, <2>5, <2>6, <2>7, <2>8, <2>9, <2>10
          DEF FrontierInv
<1> QED BY <1>6, <1>7

-----------------------------------------------------------------------------
(* The two computations together. *)
InfoInv ==
  /\ TreeInv
  /\ NumberInv
  /\ FrontierInv
  /\ infoPhase # "number" => calls = <<>>
  /\ infoPhase = "done" => left = {} /\ todo = {} /\ runner = NoNode

(* DominanceInfo sees the same graph. *)
LEMMA SameTree ==
  /\ \A s, a, n : Info!Dominates(s, a, n) = Dominates(s, a, n)
  /\ \A s, n : Info!DomFrontier(s, n) = DomFrontier(s, n)
  /\ \A s, n : Info!Idom(s, n) = Idom(s, n)
  /\ \A s : Info!DomTree(s) = DomTree(s)
  /\ Info!FlowGraphs = FlowGraphs
<1>1. \A s, a, n : Info!Dominates(s, a, n) = Dominates(s, a, n)
  BY DEF Dominates, Info!Dominates
<1>2. \A s, n : Info!Idom(s, n) = Idom(s, n)
  BY DEF Idom, Info!Idom, Doms, Info!Doms, Dominates, Info!Dominates
<1>3. \A s, n : Info!DomFrontier(s, n) = DomFrontier(s, n)
  BY DEF DomFrontier, Info!DomFrontier, Preds, Info!Preds, Dominates, Info!Dominates
<1>4. \A s : Info!DomTree(s) = DomTree(s)
  BY <1>2 DEF DomTree, Info!DomTree
<1>5. Info!FlowGraphs = FlowGraphs
  BY DEF FlowGraphs, Info!FlowGraphs, Connected, Info!Connected
<1> QED BY <1>1, <1>2, <1>3, <1>4, <1>5

LEMMA InitInfo == Init => InfoInv
<1> SUFFICES ASSUME Init PROVE InfoInv
  OBVIOUS
<1>1. /\ succs \in FlowGraphs /\ idom = [n \in Node |-> Idom(succs, n)]
      /\ dtree = DomTree(succs)
  BY SameTree DEF Init, Info!Init
<1>2. TreeInv
  BY <1>1 DEF TreeInv, DomTree
<1>3. /\ calls = <<Entry>> /\ cnt = 1 /\ maxDfn = [n \in Node |-> -1]
      /\ dfn = [n \in Node |-> IF n = Entry THEN 1 ELSE -1]
  BY DEF Init, Info!Init
<1>4. Numbered = {Entry} /\ Pending = {Entry} /\ Entry \in Node
  <2>1. Numbered = {Entry}
    BY <1>3, NodeAssumption DEF Numbered
  <2>2. Len(calls) = 1 /\ calls[1] = Entry /\ \A k \in 1 .. 1 : k = 1
    BY <1>3
  <2>3. Pending = {Entry}
    BY <2>2 DEF Pending
  <2> QED BY <2>1, <2>3, NodeAssumption
<1>5. NumberInv
  <2>1. /\ calls \in Seq(Node) /\ cnt \in Nat /\ maxDfn \in [Node -> Int]
        /\ dfn \in [Node -> {-1} \cup 1 .. cnt]
    BY <1>3, <1>4
  <2>2. \A x \in Node : Dom(x, Entry) => x = Entry
    BY <1>2, <1>4, EntryDominates, DominatesAntisym DEF TreeInv, Dom
  <2>3. \A k \in 1 .. Len(calls) : k = 1 /\ calls[k] = Entry
    BY <1>3
  <2>4. Dom(Entry, Entry) /\ dfn[Entry] = 1
    BY <1>3, <1>4 DEF Dom, Dominates
  <2> QED BY <1>4, <2>1, <2>2, <2>3, <2>4 DEF NumberInv
<1>6. FrontierInv
  BY DEF Init, Info!Init, FrontierInv
<1>7. infoPhase = "number"
  BY DEF Init, Info!Init
<1> QED BY <1>2, <1>5, <1>6, <1>7 DEF InfoInv

(* What neither changes the graph nor the tree. *)
LEMMA TreeKeeps == ASSUME TreeInv, UNCHANGED <<succs, idom, dtree>> PROVE TreeInv'
  BY DEF TreeInv

LEMMA NumbersKeep ==
  ASSUME NumberInv, UNCHANGED <<succs, dtree, calls, cnt, dfn, maxDfn>>
  PROVE  NumberInv'
<1>1. Numbered' = Numbered /\ Pending' = Pending
  BY DEF Numbered, Pending
<1>2. \A x, y : Dom(x, y)' = Dom(x, y)
  BY DEF Dom, Dominates
<1> QED BY <1>1, <1>2 DEF NumberInv

LEMMA FrontiersKeep ==
  ASSUME FrontierInv, UNCHANGED <<succs, idom, dfrontier, left, block, todo, runner>>
  PROVE  FrontierInv'
BY DEF FrontierInv, Below, Prior, Preds, Dom, Dominates

LEMMA InfoStepKeeps ==
  ASSUME InfoInv, Info!Next
  PROVE  InfoInv'
<1> USE DEF Info!tree, Info!numbers, Info!frontiers
<1>1. TreeInv /\ NumberInv /\ FrontierInv
  BY DEF InfoInv
<1>2. ASSUME NEW n \in Node, Info!Enter(n) PROVE InfoInv'
  <2>1. NumberInv'
    BY <1>1, <1>2, EnterKeeps
  <2>2. TreeInv' /\ FrontierInv' /\ infoPhase' = "number"
    BY <1>1, <1>2, TreeKeeps, FrontiersKeep DEF Info!Enter
  <2> QED BY <2>1, <2>2 DEF InfoInv
<1>3. CASE Info!Return
  <2>1. NumberInv'
    BY <1>1, <1>3, ReturnKeeps
  <2>2. TreeInv' /\ FrontierInv' /\ infoPhase' = "number"
    BY <1>1, <1>3, TreeKeeps, FrontiersKeep DEF Info!Return
  <2> QED BY <2>1, <2>2 DEF InfoInv
<1>4. CASE Info!EndNumbers
  <2>1. TreeInv' /\ NumberInv' /\ FrontierInv'
    BY <1>1, <1>4, TreeKeeps, NumbersKeep, FrontiersKeep DEF Info!EndNumbers
  <2> QED BY <1>4, <2>1 DEF InfoInv, Info!EndNumbers
<1>5. ASSUME NEW n \in Node, Info!NextBlock(n) PROVE InfoInv'
  <2>1. FrontierInv'
    BY <1>1, <1>5, NextBlockKeeps
  <2>2. TreeInv' /\ NumberInv'
    BY <1>1, <1>5, TreeKeeps, NumbersKeep DEF Info!NextBlock
  <2> QED BY <1>5, <2>1, <2>2 DEF InfoInv, Info!NextBlock
<1>6. ASSUME NEW n \in Node, Info!NextPred(n) PROVE InfoInv'
  <2>1. FrontierInv'
    BY <1>1, <1>6, NextPredKeeps
  <2>2. TreeInv' /\ NumberInv'
    BY <1>1, <1>6, TreeKeeps, NumbersKeep DEF Info!NextPred
  <2> QED BY <1>6, <2>1, <2>2 DEF InfoInv, Info!NextPred
<1>7. CASE Info!Walk
  <2>1. FrontierInv'
    BY <1>1, <1>7, WalkKeeps
  <2>2. TreeInv' /\ NumberInv'
    BY <1>1, <1>7, TreeKeeps, NumbersKeep DEF Info!Walk
  <2> QED BY <1>7, <2>1, <2>2 DEF InfoInv, Info!Walk
<1>8. CASE Info!EndFrontiers
  <2>1. TreeInv' /\ NumberInv' /\ FrontierInv'
    BY <1>1, <1>8, TreeKeeps, NumbersKeep, FrontiersKeep DEF Info!EndFrontiers
  <2> QED BY <1>8, <2>1 DEF InfoInv, Info!EndFrontiers
<1>9. CASE Info!Done
  <2>1. TreeInv' /\ NumberInv' /\ FrontierInv'
    BY <1>1, <1>9, TreeKeeps, NumbersKeep, FrontiersKeep DEF Info!Done, Info!vars
  <2> QED BY <1>9, <2>1 DEF InfoInv, Info!Done, Info!vars
<1> QED BY <1>2, <1>3, <1>4, <1>5, <1>6, <1>7, <1>8, <1>9 DEF Info!Next

(* The loop search does not touch any of it. *)
LEMMA InfoUntouched ==
  ASSUME InfoInv, UNCHANGED <<succs, info>>
  PROVE  InfoInv'
<1> USE DEF info
<1>1. TreeInv' /\ NumberInv' /\ FrontierInv'
  BY TreeKeeps, NumbersKeep, FrontiersKeep DEF InfoInv
<1> QED BY <1>1 DEF InfoInv

LEMMA InfoNextKeeps == InfoInv /\ [Next]_vars => InfoInv'
<1> SUFFICES ASSUME InfoInv, [Next]_vars PROVE InfoInv'
  OBVIOUS
<1>1. CASE InfoStep
  BY <1>1, InfoStepKeeps DEF InfoStep
<1>2. CASE FindNaturalLoops
  BY <1>2, InfoUntouched DEF FindNaturalLoops
<1>3. CASE LoopStep
  <2>1. UNCHANGED <<succs, info>>
    BY <1>3 DEF LoopStep, Loops!Next, Loops!StartLoop, Loops!Pop, Loops!EndLoop,
                Loops!EndSearch, Loops!FailAssert, Loops!Disjoint, Loops!NextOuter,
                Loops!Nest, Loops!EndScan, Loops!Done, Loops!vars, Loops!searching
  <2> QED BY <2>1, InfoUntouched
<1>4. CASE UNCHANGED vars
  BY <1>4, InfoUntouched DEF vars
<1> QED BY <1>1, <1>2, <1>3, <1>4 DEF Next

LEMMA NumbersAgree == InfoInv => QueriesAgree
<1> SUFFICES ASSUME InfoInv, infoPhase = "done", NEW a \in Node, NEW b \in Node
             PROVE  /\ Info!FastDominates(a, b) <=> Info!Dominates(succs, a, b)
                    /\ Info!FastDominates(a, b) <=> Info!DominatesByWalk(a, b)
  BY DEF QueriesAgree, Info!QueriesAgree
<1>1. TreeInv /\ NumberInv /\ calls = <<>>
  BY DEF InfoInv
<1>2. Info!FastDominates(a, b) <=> Dom(a, b)
  BY <1>1, NumbersAnswer DEF Numbers
<1>3. Info!DominatesByWalk(a, b) <=> Dom(a, b)
  BY <1>1, WalkAnswers
<1>4. Info!Dominates(succs, a, b) = Dom(a, b)
  BY SameTree DEF Dom
<1> QED BY <1>2, <1>3, <1>4

LEMMA FrontiersExact == InfoInv => FrontierExact
<1> SUFFICES ASSUME InfoInv PROVE Info!RunnerBelowIdom /\ Info!FrontierExact
  BY DEF FrontierExact
<1>1. TreeInv /\ FrontierInv
  BY DEF InfoInv
<1>2. Info!RunnerBelowIdom
  BY <1>1, SameTree DEF FrontierInv, Info!RunnerBelowIdom, Dom
<1>3. ASSUME infoPhase = "done", NEW n \in Node
      PROVE  dfrontier[n] = DomFrontier(succs, n)
  <2>1. left = {} /\ todo = {} /\ runner = NoNode
    BY <1>3 DEF InfoInv
  <2>2. dfrontier[n] \subseteq Node
    BY <1>1 DEF FrontierInv
  <2>3. \A y \in Node : y \in dfrontier[n] <=> Below(n, y) /\ \E p \in Prior(y) : Dom(n, p)
    BY <1>1, <2>1 DEF FrontierInv
  <2> QED BY <2>2, <2>3 DEF DomFrontier, Below, Prior, Dom
<1> QED BY <1>2, <1>3, SameTree DEF Info!FrontierExact

(* On every flow graph and for every order of the depth-first search, once *)
(* the numbers are there, the constant-time query and the walk up the tree *)
(* both answer dominance: a null query, a missed subtree or a number that  *)
(* two blocks share is impossible.                                         *)
THEOREM QueriesAreRight == Spec => []QueriesAgree
<1> QED BY InitInfo, InfoNextKeeps, NumbersAgree, PTL DEF Spec

(* On every flow graph, in every order of blocks and predecessors, the     *)
(* runner never falls off the tree and the frontiers are the blocks where  *)
(* dominance ends.                                                         *)
THEOREM FrontiersAreExact == Spec => []FrontierExact
<1> QED BY InitInfo, InfoNextKeeps, FrontiersExact, PTL DEF Spec

-----------------------------------------------------------------------------
(***************************************************************************)
(* Natural loops on every flow graph, of any size: findLoop collects the   *)
(* natural loop of a back edge, findNaturalLoops keeps all it should, for  *)
(* the dominance query it asks answers rightly, and the nesting loop       *)
(* builds a forest of them.                                                *)
(***************************************************************************)

(* The back edges, by the definition of dominance.                         *)
TrueBackEdges(s) ==
  {e \in Node \X Node : e[2] \in s[e[1]] /\ Dominates(s, e[2], e[1])}

NatLoop(e) == Loops!NaturalLoop(e[1], e[2])
LoopOf(e) == [head |-> e[2], latch |-> e[1], body |-> NatLoop(e)]

(* What findLoop knows: everything it has met belongs to the loop, and it  *)
(* has met the latch and all predecessors of what it has taken.            *)
InLoop ==
  /\ body \subseteq NatLoop(edge) /\ stack \subseteq NatLoop(edge)
  /\ edge[1] \in body \cup stack
  /\ \A x \in body \ {edge[2]} : Preds(succs, x) \subseteq body \cup stack

(* What findNaturalLoops knows: the loops of the edges it is done with.    *)
SearchInv ==
  /\ edges \subseteq TrueBackEdges(succs)
  /\ edge = Loops!NoEdge \/ (edge \in TrueBackEdges(succs) \ edges /\ InLoop)
  /\ loops = {l \in {LoopOf(e) : e \in TrueBackEdges(succs) \ (edges \cup {edge})} :
                Loops!Kept(l.body)}

LoopInv ==
  /\ succs \in FlowGraphs
  /\ phase = "wait" => loops = {} /\ edge = Loops!NoEdge
  /\ phase # "wait" => SearchInv
  /\ phase \notin {"wait", "search"} => edges = {} /\ edge = Loops!NoEdge

-----------------------------------------------------------------------------
(* NaturalLoops and DominanceInfo see the same graph. *)
LEMMA SameGraph ==
  /\ \A s, n : Loops!Preds(s, n) = Preds(s, n)
  /\ \A s, a, n : Loops!Dominates(s, a, n) = Dominates(s, a, n)
  /\ \A s, a, n : Info!Dominates(s, a, n) = Dominates(s, a, n)
  /\ Info!FlowGraphs = FlowGraphs
<1>1. \A s, n : Loops!Preds(s, n) = Preds(s, n)
  BY DEF Preds, Loops!Preds
<1>2. \A s, a, n : Loops!Dominates(s, a, n) = Dominates(s, a, n)
  BY DEF Dominates, Loops!Dominates
<1>3. \A s, a, n : Info!Dominates(s, a, n) = Dominates(s, a, n)
  BY DEF Dominates, Info!Dominates
<1>4. Info!FlowGraphs = FlowGraphs
  BY DEF FlowGraphs, Info!FlowGraphs, Connected, Info!Connected
<1> QED BY <1>1, <1>2, <1>3, <1>4

(* A natural loop holds its head and latch, and the predecessors of all    *)
(* its blocks but the head.                                                *)
LEMMA NatLoopClosed ==
  ASSUME NEW h \in Node, NEW t \in Node
  PROVE  LET L == Loops!NaturalLoop(t, h)
         IN  /\ L \subseteq Node /\ h \in L /\ t \in L
             /\ \A x \in L \ {h} : Preds(succs, x) \subseteq L
<1> DEFINE L == Loops!NaturalLoop(t, h)
<1>1. L \subseteq Node /\ h \in L /\ t \in L
  BY DEF Loops!NaturalLoop
<1>2. ASSUME NEW x \in L \ {h}, NEW p \in Preds(succs, x) PROVE p \in L
  <2> SUFFICES ASSUME NEW S \in SUBSET Node, {h, t} \subseteq S,
                      \A y \in S \ {h} : Loops!Preds(succs, y) \subseteq S
               PROVE  p \in S
    BY DEF Loops!NaturalLoop, Preds
  <2>1. x \in S
    BY DEF Loops!NaturalLoop
  <2> QED BY <2>1, SameGraph
<1> QED BY <1>1, <1>2

(* A set that holds the latch and the predecessors of all its blocks but   *)
(* the head holds the head: the entry is in it otherwise, and on the way   *)
(* from there to the latch is the head, which dominates it.                *)
LEMMA HeadIsMet ==
  ASSUME succs \in FlowGraphs,
         NEW h \in Node, NEW t \in Node, Dominates(succs, h, t),
         NEW S \in SUBSET Node, t \in S,
         \A x \in S \ {h} : Preds(succs, x) \subseteq S
  PROVE  h \in S
<1> SUFFICES ASSUME h \notin S PROVE FALSE
  OBVIOUS
<1>1. Connected(succs) /\ succs \in [Node -> SUBSET Node]
  BY DEF FlowGraphs
<1>2. PICK A \in SUBSET (Node \ {h, t}) :
        Entry \in A \cup {h} /\ \A m \in A : succs[m] \subseteq A \cup {h}
  BY DEF Dominates
<1>3. \A m \in Node \ S : succs[m] \cap S = {}
  BY DEF Preds
<1> DEFINE B == A \cup (Node \ S)
<1>4. B \in SUBSET Node /\ Entry \in B
  BY <1>2
<1>5. \A m \in B : succs[m] \subseteq B
  BY <1>1, <1>2, <1>3
<1>6. B = Node
  BY <1>1, <1>4, <1>5 DEF Connected
<1> QED BY <1>2, <1>6

(* So what findLoop has when its stack is empty is the natural loop.       *)
LEMMA LoopFound ==
  ASSUME succs \in FlowGraphs, edge \in TrueBackEdges(succs), InLoop, stack = {}
  PROVE  body = NatLoop(edge)
<1> DEFINE h == edge[2]
           t == edge[1]
<1>1. h \in Node /\ t \in Node /\ Dominates(succs, h, t)
  BY DEF TrueBackEdges
<1>2. body \subseteq Node /\ t \in body
  BY <1>1, NatLoopClosed DEF InLoop, NatLoop
<1>3. \A x \in body \ {h} : Preds(succs, x) \subseteq body
  BY DEF InLoop
<1>4. h \in body
  BY <1>1, <1>2, <1>3, HeadIsMet
<1>5. NatLoop(edge) \subseteq body
  BY <1>2, <1>3, <1>4, SameGraph DEF NatLoop, Loops!NaturalLoop
<1> QED BY <1>5 DEF InLoop

LEMMA NoEdgeIsNone == ASSUME NEW s PROVE Loops!NoEdge \notin TrueBackEdges(s)
  BY NodeAssumption DEF TrueBackEdges, Loops!NoEdge

-----------------------------------------------------------------------------
LEMMA InitLoops == Init => LoopInv
<1> SUFFICES ASSUME Init PROVE LoopInv
  OBVIOUS
<1>1. succs \in FlowGraphs
  BY SameGraph DEF Init, Info!Init
<1>2. phase = "wait" /\ loops = {} /\ edge = Loops!NoEdge
  BY DEF Init
<1> QED BY <1>1, <1>2 DEF LoopInv

(* The numbering and the frontiers leave the graph alone. *)
LEMMA InfoKeeps ==
  ASSUME LoopInv, InfoStep
  PROVE  LoopInv'
<1>1. succs' = succs
  BY DEF InfoStep, Info!Next, Info!Enter, Info!Return, Info!EndNumbers,
         Info!NextBlock, Info!NextPred, Info!Walk, Info!EndFrontiers, Info!Done,
         Info!vars, Info!tree
<1>2. phase = "wait" /\ UNCHANGED <<loops, edge, phase>>
  BY DEF InfoStep, ofLoops
<1> QED BY <1>1, <1>2 DEF LoopInv

(* The query gives the back edges. *)
LEMMA FindKeeps ==
  ASSUME LoopInv, QueriesAgree, FindNaturalLoops
  PROVE  LoopInv'
<1> USE DEF FindNaturalLoops
<1>1. edges' = TrueBackEdges(succs)
  BY SameGraph
     DEF QueriesAgree, Info!QueriesAgree, BackEdges, TrueBackEdges, Loops!Edge
<1>2. edge = Loops!NoEdge /\ loops = {} /\ succs \in FlowGraphs
  BY DEF LoopInv
<1>3. SearchInv'
  BY <1>1, <1>2 DEF SearchInv
<1> QED BY <1>2, <1>3 DEF LoopInv

LEMMA StartLoopKeeps ==
  ASSUME LoopInv, phase # "wait", NEW e \in Node \X Node, Loops!StartLoop(e)
  PROVE  LoopInv'
<1> USE DEF Loops!StartLoop
<1>1. SearchInv /\ succs \in FlowGraphs
  BY DEF LoopInv
<1>2. e \in TrueBackEdges(succs) /\ succs' = succs /\ edge' = e /\ edges' = edges \ {e}
  BY <1>1 DEF SearchInv
<1>3. edge' \in TrueBackEdges(succs') \ edges'
  BY <1>2
<1>4. InLoop'
  <2>1. e[1] \in NatLoop(e)
    BY NatLoopClosed DEF NatLoop
  <2>2. NatLoop(e)' = NatLoop(e)
    BY <1>2 DEF NatLoop, Loops!NaturalLoop, Loops!Preds
  <2> QED BY <1>2, <2>1, <2>2 DEF InLoop
<1>5. loops' = {l \in {LoopOf(x)' : x \in TrueBackEdges(succs') \ (edges' \cup {edge'})} :
                  Loops!Kept(l.body)'}
  <2>1. TrueBackEdges(succs) \ (edges' \cup {edge'}) = TrueBackEdges(succs) \ (edges \cup {edge})
    BY <1>2, NoEdgeIsNone DEF Loops!StartLoop
  <2>2. \A x : LoopOf(x)' = LoopOf(x)
    BY DEF LoopOf, NatLoop, Loops!NaturalLoop, Loops!Preds
  <2>3. \A b : Loops!Kept(b)' = Loops!Kept(b)
    BY DEF Loops!Kept
  <2> QED BY <1>1, <1>2, <2>1, <2>2, <2>3 DEF SearchInv
<1>6. SearchInv'
  <2>1. edges' \subseteq TrueBackEdges(succs')
    BY <1>1, <1>2 DEF SearchInv
  <2> QED BY <2>1, <1>3, <1>4, <1>5 DEF SearchInv
<1> QED BY <1>1, <1>2, <1>6 DEF LoopInv

LEMMA PopKeeps ==
  ASSUME LoopInv, phase # "wait", NEW n \in Node, Loops!Pop(n)
  PROVE  LoopInv'
<1> USE DEF Loops!Pop
<1>1. /\ SearchInv /\ succs \in FlowGraphs /\ edge # Loops!NoEdge
      /\ edge \in TrueBackEdges(succs) /\ InLoop
  BY DEF LoopInv, SearchInv
<1>2. /\ UNCHANGED <<succs, jumpy, edges, edge, loops, phase>>
      /\ body' = body \cup {n} /\ stack' = (stack \ {n}) \cup Loops!Push(n)
  OBVIOUS
<1>3. InLoop'
  <2>1. n \in NatLoop(edge) /\ body \subseteq NatLoop(edge) /\ stack \subseteq NatLoop(edge)
    BY <1>1 DEF InLoop
  <2>2. Loops!Push(n) \subseteq NatLoop(edge)
    <3>1. edge[1] \in Node /\ edge[2] \in Node
      BY <1>1 DEF TrueBackEdges
    <3>2. n # edge[2] => Preds(succs, n) \subseteq NatLoop(edge)
      BY <3>1, <2>1, NatLoopClosed DEF NatLoop
    <3> QED BY <3>2, SameGraph DEF Loops!Push
  <2>3. NatLoop(edge)' = NatLoop(edge)
    BY <1>2 DEF NatLoop, Loops!NaturalLoop, Loops!Preds
  <2>4. body' \subseteq NatLoop(edge)' /\ stack' \subseteq NatLoop(edge)'
    BY <1>2, <2>1, <2>2, <2>3
  <2>5. edge[1] \in body' \cup stack'
    BY <1>1, <1>2 DEF InLoop
  <2>6. ASSUME NEW x \in body' \ {edge[2]} PROVE Preds(succs, x) \subseteq body' \cup stack'
    <3>1. CASE x = n
      BY <3>1, <2>6, <1>2, SameGraph DEF Loops!Push
    <3>2. CASE x \in body
      BY <3>2, <2>6, <1>1, <1>2 DEF InLoop
    <3> QED BY <3>1, <3>2, <1>2
  <2>7. \A x : Preds(succs, x)' = Preds(succs, x)
    BY <1>2 DEF Preds
  <2> QED BY <1>2, <2>4, <2>5, <2>6, <2>7 DEF InLoop
<1>4. SearchInv'
  <2>1. \A x : LoopOf(x)' = LoopOf(x)
    BY <1>2 DEF LoopOf, NatLoop, Loops!NaturalLoop, Loops!Preds
  <2>2. \A b : Loops!Kept(b)' = Loops!Kept(b)
    BY <1>2 DEF Loops!Kept
  <2> QED BY <1>1, <1>2, <1>3, <2>1, <2>2 DEF SearchInv
<1> QED BY <1>1, <1>2, <1>4 DEF LoopInv

LEMMA EndLoopKeeps ==
  ASSUME LoopInv, phase # "wait", Loops!EndLoop
  PROVE  LoopInv'
<1> USE DEF Loops!EndLoop
<1>1. /\ SearchInv /\ succs \in FlowGraphs /\ edge # Loops!NoEdge
      /\ edge \in TrueBackEdges(succs) \ edges /\ InLoop
  BY DEF LoopInv, SearchInv
<1>2. body = NatLoop(edge)
  BY <1>1, LoopFound
<1>3. /\ UNCHANGED <<succs, jumpy, edges, phase>> /\ edge' = Loops!NoEdge
      /\ loops' = IF Loops!Kept(body) THEN loops \cup {LoopOf(edge)} ELSE loops
  BY <1>2 DEF LoopOf
<1> DEFINE Was == TrueBackEdges(succs) \ (edges \cup {edge})
           Is == TrueBackEdges(succs) \ (edges \cup {Loops!NoEdge})
<1>4. Is = Was \cup {edge}
  BY <1>1, NoEdgeIsNone
<1>5. loops = {l \in {LoopOf(e) : e \in Was} : Loops!Kept(l.body)}
  BY <1>1 DEF SearchInv
<1>6. LoopOf(edge).body = body
  BY <1>2 DEF LoopOf
<1>7. loops' = {l \in {LoopOf(e) : e \in Is} : Loops!Kept(l.body)}
  <2> HIDE DEF Was, Is, Loops!EndLoop
  <2> DEFINE W == {LoopOf(e) : e \in Was}
             V == {LoopOf(e) : e \in Is}
  <2>1. V = W \cup {LoopOf(edge)}
    BY <1>4
  <2> HIDE DEF W, V
  <2>2. loops = {l \in W : Loops!Kept(l.body)}
    BY <1>5 DEF W
  <2>3. CASE Loops!Kept(body)
    BY <2>1, <2>2, <2>3, <1>3, <1>6 DEF V
  <2>4. CASE ~Loops!Kept(body)
    BY <2>1, <2>2, <2>4, <1>3, <1>6 DEF V
  <2> QED BY <2>3, <2>4
<1>8. SearchInv'
  <2>1. \A x : LoopOf(x)' = LoopOf(x)
    BY <1>3 DEF LoopOf, NatLoop, Loops!NaturalLoop, Loops!Preds
  <2>2. \A b : Loops!Kept(b)' = Loops!Kept(b)
    BY <1>3 DEF Loops!Kept
  <2>3. edges' \subseteq TrueBackEdges(succs')
    BY <1>1, <1>3 DEF SearchInv
  <2> QED BY <1>3, <1>7, <2>1, <2>2, <2>3 DEF SearchInv
<1> QED BY <1>1, <1>3, <1>8 DEF LoopInv

(* Nothing after the search, and no stutter, touches what it has left.     *)
LEMMA RestKeeps ==
  ASSUME LoopInv, UNCHANGED <<succs, jumpy, edges, edge, body, stack, loops>>,
         \/ phase' = phase
         \/ phase = "search" /\ phase' # "wait" /\ edges = {} /\ edge = Loops!NoEdge
         \/ phase \notin {"wait", "search"} /\ phase' \notin {"wait", "search"}
  PROVE  LoopInv'
<1>1. \A x : LoopOf(x)' = LoopOf(x)
  BY DEF LoopOf, NatLoop, Loops!NaturalLoop, Loops!Preds
<1>2. \A b : Loops!Kept(b)' = Loops!Kept(b)
  BY DEF Loops!Kept
<1>3. InLoop' = InLoop
  BY DEF InLoop, NatLoop, Loops!NaturalLoop, Loops!Preds, Preds
<1>4. SearchInv => SearchInv'
  BY <1>1, <1>2, <1>3 DEF SearchInv
<1> QED BY <1>4 DEF LoopInv

LEMMA LoopStepKeeps ==
  ASSUME LoopInv, LoopStep
  PROVE  LoopInv'
<1>1. phase # "wait" /\ Loops!Next
  BY DEF LoopStep
<1>2. CASE \E e \in Loops!Edge : Loops!StartLoop(e)
  BY <1>1, <1>2, StartLoopKeeps DEF Loops!Edge
<1>3. CASE \E n \in Node : Loops!Pop(n)
  BY <1>1, <1>3, PopKeeps
<1>4. CASE Loops!EndLoop
  BY <1>1, <1>4, EndLoopKeeps
<1>5. CASE Loops!EndSearch
  <2>1. UNCHANGED <<succs, jumpy, edges, edge, body, stack, loops>>
    BY <1>5 DEF Loops!EndSearch, Loops!searching
  <2>2. phase = "search" /\ phase' # "wait" /\ edges = {} /\ edge = Loops!NoEdge
    BY <1>5 DEF Loops!EndSearch
  <2> QED BY <2>1, <2>2, RestKeeps
<1>6. CASE Loops!FailAssert
  BY <1>6, RestKeeps DEF Loops!FailAssert, Loops!InScan, Loops!searching
<1>7. CASE Loops!Disjoint
  BY <1>7, RestKeeps DEF Loops!Disjoint, Loops!InScan, Loops!searching
<1>8. CASE Loops!NextOuter
  BY <1>8, RestKeeps DEF Loops!NextOuter, Loops!searching
<1>9. CASE Loops!Nest
  BY <1>9, RestKeeps DEF Loops!Nest, Loops!InScan, Loops!searching
<1>10. CASE Loops!EndScan
  BY <1>10, RestKeeps DEF Loops!EndScan, Loops!searching
<1>11. CASE Loops!Done
  BY <1>11, RestKeeps DEF Loops!Done, Loops!vars, Loops!searching
<1> QED BY <1>1, <1>2, <1>3, <1>4, <1>5, <1>6, <1>7, <1>8, <1>9, <1>10, <1>11
        DEF Loops!Next

LEMMA SearchIsExact == LoopInv => LoopsExact
<1> SUFFICES ASSUME LoopInv, phase # "wait", phase # "search" PROVE Loops!LoopsExact
  BY DEF LoopsExact, Loops!LoopsExact
<1>1. SearchInv /\ edges = {} /\ edge = Loops!NoEdge
  BY DEF LoopInv
<1>2. TrueBackEdges(succs) \ (edges \cup {edge}) = TrueBackEdges(succs)
  BY <1>1, NoEdgeIsNone
<1>3. loops = {l \in {LoopOf(e) : e \in TrueBackEdges(succs)} : Loops!Kept(l.body)}
  BY <1>1, <1>2 DEF SearchInv
<1>4. TrueBackEdges(succs)
        = {x \in Loops!Edge : x[2] \in succs[x[1]] /\ Loops!Dominates(succs, x[2], x[1])}
  BY SameGraph DEF TrueBackEdges, Loops!Edge
<1> QED BY <1>3, <1>4 DEF Loops!LoopsExact, LoopOf, NatLoop, Loops!Kept

LEMMA LoopNextKeeps ==
  ASSUME LoopInv, QueriesAgree, [Next]_vars
  PROVE  LoopInv'
<1>1. CASE InfoStep
  BY <1>1, InfoKeeps
<1>2. CASE FindNaturalLoops
  BY <1>2, FindKeeps
<1>3. CASE LoopStep
  BY <1>3, LoopStepKeeps
<1>4. CASE UNCHANGED vars
  BY <1>4, RestKeeps DEF vars, ofLoops
<1> QED BY <1>1, <1>2, <1>3, <1>4 DEF Next

(* From analyzeGraph's numbers to its loops, on every flow graph and with  *)
(* every limit: the loops found are the natural loops of all edges back to *)
(* a dominator, less those skipped on purpose.                             *)
THEOREM LoopsAreExact == Spec => []LoopsExact
<1>1. Spec => []QueriesAgree
  BY QueriesAreRight
<1>2. LoopInv /\ QueriesAgree /\ [Next]_vars => LoopInv'
  BY LoopNextKeeps
<1> QED BY <1>1, <1>2, InitLoops, SearchIsExact, PTL DEF Spec

-----------------------------------------------------------------------------
(* The nesting loop. *)

Size(l) == Cardinality(l.body)
Inside(k, l) == k.body \subseteq l.body
Listed == Loops!Members(nested)

(* p is a smallest loop around l. *)
Around(p, l) ==
  /\ Inside(l, p) /\ l.body # p.body
  /\ \A q \in loops : Inside(l, q) /\ q # l => ~(Inside(q, p) /\ q.body # p.body)

(* The list is sorted and holds no loop twice, *)
Sorted ==
  /\ nested \in Seq(loops)
  /\ \A k, m \in 1 .. Len(nested) :
       k < m => Size(nested[k]) <= Size(nested[m]) /\ nested[k] # nested[m]

(* the scan has found none of the loops before i inside a later one, nor   *)
(* nested[i] inside one before j,                                          *)
Scanned ==
  /\ i \in Nat \ {0} /\ j \in Nat /\ i < j
  /\ \A k, m \in 1 .. Len(nested) :
       k < m /\ (k < i \/ (k = i /\ m < j)) => ~Inside(nested[k], nested[m])

(* and what is no longer listed holds none that is, and has its parent.    *)
Placed ==
  /\ children \in [loops -> SUBSET loops]
  /\ \A l \in Listed : Loops!Parents(l) = {}
  /\ \A l \in loops \ Listed :
       /\ \A k \in Listed : ~Inside(k, l)
       /\ \E p \in loops : Loops!Parents(l) = {p} /\ Around(p, l)

Nesting == Sorted /\ Scanned /\ Placed

NestInv ==
  /\ phase \in {"wait", "search"} => nested = <<>>
  /\ phase \notin {"wait", "search"} => Nesting
  /\ phase = "assert" =>
       /\ i <= Len(nested) /\ j <= Len(nested)
       /\ nested[i].body = nested[j].body

LEMMA LoopsFound ==
  ASSUME LoopInv, phase # "wait"
  PROVE  /\ IsFiniteSet(loops)
         /\ \A l \in loops : \E e \in TrueBackEdges(succs) : l = LoopOf(e)
<1> DEFINE T == TrueBackEdges(succs)
           f == [e \in T |-> LoopOf(e)]
           R == {LoopOf(e) : e \in T}
<1>1. SearchInv
  BY DEF LoopInv
<1>2. T \ (edges \cup {edge}) \subseteq T
  OBVIOUS
<1>3. loops \in SUBSET R
  BY <1>1, <1>2 DEF SearchInv
<1>4. IsFiniteSet(T)
  <2>1. IsFiniteSet(Node \X Node)
    BY NodeAssumption, FS_Product
  <2>2. T \in SUBSET (Node \X Node)
    BY DEF TrueBackEdges
  <2> QED BY <2>1, <2>2, FS_Subset
<1>5. f \in Surjection(T, R)
  BY DEF Surjection
<1>6. IsFiniteSet(R)
  BY <1>4, <1>5, FS_Surjection
<1> QED BY <1>3, <1>6, FS_Subset

LEMMA Sizes ==
  ASSUME LoopInv, phase # "wait", NEW k \in loops, NEW l \in loops
  PROVE  /\ Size(k) \in Nat
         /\ Inside(k, l) => /\ Size(k) <= Size(l)
                            /\ Size(k) = Size(l) => k.body = l.body
<1>1. k.body \subseteq Node /\ l.body \subseteq Node
  BY LoopsFound, NatLoopClosed DEF LoopOf, NatLoop, TrueBackEdges
<1>2. IsFiniteSet(k.body) /\ IsFiniteSet(l.body)
  BY <1>1, NodeAssumption, FS_Subset
<1>3. Size(k) \in Nat
  BY <1>2, FS_CardinalityType DEF Size
<1>4. ASSUME Inside(k, l) PROVE Size(k) <= Size(l) /\ (Size(k) = Size(l) => k.body = l.body)
  BY <1>2, <1>4, FS_Subset DEF Size, Inside
<1> QED BY <1>3, <1>4

(* What the sort returns: a list as long as the set has members has each   *)
(* of them once.                                                           *)
LEMMA SortFacts ==
  ASSUME NEW S, IsFiniteSet(S), NEW s \in Loops!BySize(S)
  PROVE  /\ s \in Seq(S) /\ Loops!Members(s) = S
         /\ \A k, m \in 1 .. Len(s) :
              k < m => Size(s[k]) <= Size(s[m]) /\ s[k] # s[m]
<1> DEFINE n == Cardinality(S)
<1>1. \A X : Loops!Cardinality(X) = Cardinality(X)
  BY DEF Loops!Cardinality, Cardinality
<1>2. /\ s \in [1 .. n -> S] /\ Loops!Members(s) = S
      /\ \A k, m \in 1 .. n : k < m => Size(s[k]) <= Size(s[m])
  BY <1>1 DEF Loops!BySize, Size
<1>3. n \in Nat
  BY FS_CardinalityType
<1>4. s \in Seq(S) /\ Len(s) = n
  <2> HIDE DEF n
  <2> QED BY <1>2, <1>3
<1>5. s \in Surjection(1 .. n, S)
  BY <1>2, <1>4 DEF Surjection, Loops!Members
<1>6. IsFiniteSet(1 .. n) /\ Cardinality(1 .. n) = n
  <2>1. IsFiniteSet(1 .. n) /\ Cardinality(1 .. n) = IF 1 > n THEN 0 ELSE n - 1 + 1
    BY <1>3, FS_Interval
  <2> HIDE DEF n
  <2> QED BY <1>3, <2>1
<1>7. s \in Injection(1 .. n, S)
  BY <1>5, <1>6, FS_SurjSameCardinalityImpliesInj
<1>8. \A k, m \in 1 .. n : s[k] = s[m] => k = m
  BY <1>2, <1>7 DEF Injection, IsInjective
<1>9. \A k, m \in 1 .. n : k < m => s[k] # s[m]
  <2> HIDE DEF n
  <2> QED BY <1>3, <1>8
<1> QED BY <1>2, <1>4, <1>9

LEMMA InitNest == Init => NestInv
  BY DEF Init, NestInv

(* The list a sort leaves behind, in the next state. *)
LEMMA Listing ==
  ASSUME NEW S \in SUBSET loops, IsFiniteSet(loops), loops' = loops,
         nested' \in Loops!BySize(S)
  PROVE  Sorted' /\ Listed' = S
<1>1. IsFiniteSet(S)
  BY FS_Subset
<1>2. /\ nested' \in Seq(S) /\ Loops!Members(nested') = S
      /\ \A k, m \in 1 .. Len(nested') :
           k < m => Size(nested'[k]) <= Size(nested'[m]) /\ nested'[k] # nested'[m]
  BY <1>1, SortFacts
<1>3. nested' \in Seq(loops)
  BY <1>2
<1>4. Sorted'
  BY <1>2, <1>3 DEF Sorted, Size
<1>5. Listed' = S
  BY <1>2 DEF Listed, Loops!Members
<1> QED BY <1>4, <1>5

LEMMA EndSearchNests ==
  ASSUME LoopInv, NestInv, Loops!EndSearch
  PROVE  NestInv'
<1> USE DEF Loops!EndSearch
<1>1. /\ phase' \in {"done", "scan"} /\ loops' = loops /\ i' = 1 /\ j' = 2
      /\ children' = [l \in loops |-> {}] /\ phase = "search"
  BY DEF Loops!searching
<1>2. IsFiniteSet(loops)
  BY <1>1, LoopsFound
<1>3. Sorted' /\ Listed' = loops
  <2>1. CASE loops = {}
    <3>1. nested' = <<>> /\ Len(<<>>) = 0
      BY <1>1, <2>1 DEF NestInv
    <3>2. Sorted'
      BY <3>1 DEF Sorted
    <3>3. Listed' = {}
      BY <3>1 DEF Listed, Loops!Members
    <3> QED BY <2>1, <3>2, <3>3
  <2>2. CASE loops # {}
    BY <1>1, <1>2, <2>2, Listing
  <2> QED BY <2>1, <2>2
<1>4. Scanned'
  <2>1. \A k \in 1 .. Len(nested') : k \in Int /\ ~(k < 1)
    BY <1>3 DEF Sorted
  <2>2. \A k, m \in 1 .. Len(nested') : ~(k < m /\ (k < 1 \/ (k = 1 /\ m < 2)))
    BY <1>3 DEF Sorted
  <2> QED BY <1>1, <2>2 DEF Scanned
<1>5. Placed'
  <2>1. \A l \in loops : {p \in loops : l \in children'[p]} = {}
    BY <1>1
  <2> QED BY <1>1, <1>3, <2>1 DEF Placed, Loops!Parents
<1> QED BY <1>1, <1>3, <1>4, <1>5 DEF NestInv, Nesting

LEMMA NestNests ==
  ASSUME LoopInv, NestInv, Loops!Nest
  PROVE  NestInv'
<1> SUFFICES ASSUME NEW l, NEW p, l = nested[i], p = nested[j] PROVE NestInv'
  OBVIOUS
<1> DEFINE N == Len(nested)
<1>1. /\ phase = "scan" /\ i <= N /\ j <= N
      /\ l.body # p.body /\ Inside(l, p)
      /\ children' = [children EXCEPT ![p] = @ \cup {l}]
      /\ nested' \in Loops!BySize(Listed \ {l})
      /\ i' = 1 /\ j' = 2 /\ loops' = loops /\ phase' = phase
  BY DEF Loops!Nest, Loops!InScan, Loops!Same, Loops!Contains, Loops!Without,
         Loops!searching, Inside, Listed
<1>2. Sorted /\ Scanned /\ Placed /\ IsFiniteSet(loops)
  BY <1>1, LoopsFound DEF NestInv, Nesting
<1>3. /\ i \in 1 .. N /\ j \in 1 .. N /\ i < j /\ N \in Nat
      /\ \A k \in 1 .. N : nested[k] \in loops
      /\ Listed = {nested[k] : k \in 1 .. N}
  <2>1. N \in Nat /\ \A k \in 1 .. N : nested[k] \in loops
    BY <1>2 DEF Sorted
  <2>2. i \in Nat \ {0} /\ j \in Nat /\ i < j
    BY <1>2 DEF Scanned
  <2> HIDE DEF N
  <2>3. i \in 1 .. N /\ j \in 1 .. N
    BY <1>1, <2>1, <2>2
  <2>4. Listed = {nested[k] : k \in 1 .. N}
    BY DEF Listed, Loops!Members, N
  <2> QED BY <2>1, <2>2, <2>3, <2>4
<1>4. l \in loops /\ p \in loops /\ l \in Listed /\ p \in Listed /\ Listed \subseteq loops
  BY <1>3
<1>5. /\ \A x \in loops : Size(x) \in Nat
      /\ \A x, y \in loops : Inside(x, y) => Size(x) <= Size(y)
                              /\ (Size(x) = Size(y) => x.body = y.body)
  BY <1>1, Sizes
<1>6. /\ \A k, m \in 1 .. N : k < m => Size(nested[k]) <= Size(nested[m])
      /\ \A k, m \in 1 .. N :
           k < m /\ (k < i \/ (k = i /\ m < j)) => ~Inside(nested[k], nested[m])
  BY <1>2 DEF Sorted, Scanned
<1>7. Size(l) < Size(p)
  BY <1>1, <1>4, <1>5
<1>8. \A x \in Listed \ {l} : ~Inside(x, l)
  <2> SUFFICES ASSUME NEW k \in 1 .. N, nested[k] # l, Inside(nested[k], l) PROVE FALSE
    BY <1>3
  <2>1. Size(nested[k]) <= Size(l) /\ (Size(nested[k]) = Size(l) => nested[k].body = l.body)
    BY <1>3, <1>4, <1>5
  <2>2. ~(k < i) /\ k # i
    BY <1>3, <1>6
  <2>3. i < k
    BY <1>3, <2>2
  <2>4. Size(l) <= Size(nested[k])
    BY <1>3, <1>6, <2>3
  <2>5. Size(nested[k]) = Size(l) /\ nested[k].body = l.body
    BY <1>3, <1>4, <1>5, <2>1, <2>4
  <2>6. Inside(l, nested[k])
    BY <2>5 DEF Inside
  <2>7. ~(k < j)
    BY <1>3, <1>6, <2>3, <2>6
  <2>8. Size(p) <= Size(nested[k])
    <3>1. k = j \/ j < k
      BY <1>3, <2>7
    <3> QED BY <1>3, <1>4, <1>5, <1>6, <3>1
  <2> QED BY <1>3, <1>4, <1>5, <1>7, <2>5, <2>8
<1>9. Around(p, l)
  <2> SUFFICES ASSUME NEW q \in loops, Inside(l, q), q # l, Inside(q, p), q.body # p.body
               PROVE  FALSE
    BY <1>1 DEF Around
  <2>1. Size(q) < Size(p)
    BY <1>4, <1>5
  <2>2. q \in Listed
    BY <1>2, <1>4 DEF Placed
  <2>3. PICK k \in 1 .. N : q = nested[k]
    BY <1>3, <2>2
  <2>4. k # i /\ k # j
    BY <2>1, <2>3, <1>4, <1>5
  <2>5. ~(j < k)
    BY <1>3, <1>4, <1>5, <1>6, <2>1, <2>3
  <2>6. ~(i < k)
    BY <1>3, <1>6, <2>3, <2>4, <2>5
  <2>7. k < i
    BY <1>3, <2>4, <2>6
  <2>8. Size(q) <= Size(l)
    BY <1>3, <1>6, <2>3, <2>7
  <2>9. Size(l) <= Size(q) /\ (Size(l) = Size(q) => l.body = q.body)
    BY <1>4, <1>5
  <2>10. l.body = q.body
    BY <1>4, <1>5, <2>8, <2>9
  <2>11. Inside(q, l)
    BY <2>10 DEF Inside
  <2> QED BY <1>3, <1>6, <2>3, <2>7, <2>11
<1>10. Sorted' /\ Listed' = Listed \ {l}
  <2>1. Listed \ {l} \in SUBSET loops
    BY <1>4
  <2> QED BY <1>1, <1>2, <2>1, Listing
<1>11. Scanned'
  <2>1. \A k, m \in 1 .. Len(nested') : ~(k < m /\ (k < 1 \/ (k = 1 /\ m < 2)))
    BY <1>10 DEF Sorted
  <2> QED BY <1>1, <2>1 DEF Scanned
<1>12. Placed'
  <2> HIDE DEF N
  <2>1. /\ children' \in [loops -> SUBSET loops]
        /\ \A x \in loops : children'[x] = IF x = p THEN children[p] \cup {l} ELSE children[x]
    BY <1>1, <1>2, <1>4 DEF Placed
  <2>2. /\ \A x : Loops!Parents(x) = {q \in loops : x \in children[q]}
        /\ \A x : Loops!Parents(x)' = {q \in loops : x \in children'[q]}
    BY <1>2, <2>1 DEF Placed, Loops!Parents
  <2>3. \A x \in loops \ {l} : Loops!Parents(x)' = Loops!Parents(x)
    BY <2>1, <2>2
  <2>4. Loops!Parents(l)' = {p}
    <3>1. \A q \in loops : l \notin children[q]
      BY <1>2, <1>4, <2>2 DEF Placed
    <3> QED BY <1>4, <2>1, <2>2, <3>1
  <2>5. /\ \A x, y : Inside(x, y)' <=> Inside(x, y)
        /\ \A x, y : Around(x, y)' <=> Around(x, y)
    BY <1>1 DEF Inside, Around
  <2>6. \A x \in Listed' : Loops!Parents(x)' = {}
    BY <1>2, <1>4, <1>10, <2>3 DEF Placed
  <2>7. ASSUME NEW x \in loops \ Listed'
        PROVE  /\ \A k \in Listed' : ~Inside(k, x)
               /\ \E q \in loops : Loops!Parents(x)' = {q} /\ Around(q, x)
    <3>1. CASE x = l
      BY <1>4, <1>8, <1>9, <1>10, <2>4, <3>1
    <3>2. CASE x # l
      BY <1>2, <1>10, <2>3, <3>2 DEF Placed
    <3> QED BY <3>1, <3>2
  <2> QED BY <1>1, <2>1, <2>5, <2>6, <2>7 DEF Placed
<1> QED BY <1>1, <1>10, <1>11, <1>12 DEF NestInv, Nesting

(* The steps that only move i and j, or stop. *)
LEMMA ScanNests ==
  ASSUME NestInv, phase = "scan", UNCHANGED <<loops, nested, children>>,
         phase' \in {"scan", "done", "assert"}, Scanned',
         phase' = "assert" => (i <= Len(nested) /\ j <= Len(nested)
                               /\ nested[i].body = nested[j].body)'
  PROVE  NestInv'
<1>1. Sorted' /\ Placed'
  BY DEF NestInv, Nesting, Sorted, Size, Placed, Listed, Inside, Around,
         Loops!Members, Loops!Parents
<1> QED BY <1>1 DEF NestInv, Nesting

LEMMA DisjointScans ==
  ASSUME NestInv, Loops!Disjoint
  PROVE  Scanned'
<1>1. /\ phase = "scan" /\ j' = j + 1 /\ i' = i /\ nested' = nested
      /\ ~Inside(nested[i], nested[j])
  BY DEF Loops!Disjoint, Loops!InScan, Loops!Contains, Inside
<1>2. Scanned
  BY <1>1 DEF NestInv, Nesting
<1>3. ASSUME NEW k \in 1 .. Len(nested), NEW m \in 1 .. Len(nested),
             k < m, k < i \/ (k = i /\ m < j + 1)
      PROVE  ~Inside(nested[k], nested[m])
  <2>1. k < i \/ (k = i /\ m < j) \/ (k = i /\ m = j)
    BY <1>2, <1>3 DEF Scanned
  <2> QED BY <1>1, <1>2, <1>3, <2>1 DEF Scanned
<1> QED BY <1>1, <1>2, <1>3 DEF Scanned, Inside

LEMMA NextOuterScans ==
  ASSUME NestInv, Loops!NextOuter
  PROVE  Scanned'
<1>1. /\ phase = "scan" /\ i <= Len(nested) /\ j > Len(nested)
      /\ i' = i + 1 /\ j' = i + 2 /\ nested' = nested
  BY DEF Loops!NextOuter
<1>2. Scanned /\ Len(nested) \in Nat
  BY <1>1 DEF NestInv, Nesting, Sorted
<1>3. ASSUME NEW k \in 1 .. Len(nested), NEW m \in 1 .. Len(nested),
             k < m, k < i + 1 \/ (k = i + 1 /\ m < i + 2)
      PROVE  ~Inside(nested[k], nested[m])
  <2>1. k < i \/ (k = i /\ m < j)
    BY <1>1, <1>2, <1>3 DEF Scanned
  <2> QED BY <1>2, <1>3, <2>1 DEF Scanned
<1> QED BY <1>1, <1>2, <1>3 DEF Scanned, Inside

(* What happens to neither the loops nor their nesting. *)
LEMMA NestingUntouched ==
  ASSUME NestInv, UNCHANGED <<loops, nested, children, i, j, phase>>
  PROVE  NestInv'
<1>1. Sorted => Sorted'
  BY DEF Sorted, Size
<1>2. Scanned => Scanned'
  BY DEF Scanned, Inside
<1>3. Placed => Placed'
  BY DEF Placed, Listed, Inside, Around, Loops!Members, Loops!Parents
<1> QED BY <1>1, <1>2, <1>3 DEF NestInv, Nesting

LEMMA NestNextKeeps ==
  ASSUME LoopInv, NestInv, [Next]_vars
  PROVE  NestInv'
<1>1. CASE InfoStep \/ UNCHANGED vars
  BY <1>1, NestingUntouched DEF InfoStep, ofLoops, vars
<1>2. CASE FindNaturalLoops
  BY <1>2 DEF FindNaturalLoops, NestInv
<1>3. CASE LoopStep
  <2>1. phase # "wait" /\ Loops!Next
    BY <1>3 DEF LoopStep
  <2>2. CASE (\E e \in Loops!Edge : Loops!StartLoop(e)) \/ \E n \in Node : Loops!Pop(n)
    <3>1. UNCHANGED <<nested, phase>> /\ (phase = "search")
      BY <2>1, <2>2 DEF Loops!StartLoop, Loops!Pop, Loops!nesting, LoopInv
    <3> QED BY <3>1 DEF NestInv
  <2>3. CASE Loops!EndLoop
    <3>1. UNCHANGED <<nested, phase>> /\ (phase = "search")
      BY <2>1, <2>3 DEF Loops!EndLoop, Loops!nesting, LoopInv
    <3> QED BY <3>1 DEF NestInv
  <2>4. CASE Loops!EndSearch
    BY <2>4, EndSearchNests
  <2>5. CASE Loops!FailAssert
    <3>1. /\ phase = "scan" /\ phase' = "assert" /\ i <= Len(nested) /\ j <= Len(nested)
          /\ nested[i].body = nested[j].body
          /\ UNCHANGED <<loops, nested, children, i, j>>
      BY <2>5 DEF Loops!FailAssert, Loops!InScan, Loops!Same, Loops!searching, Loops!nesting
    <3>2. Scanned'
      BY <3>1 DEF NestInv, Nesting, Scanned, Inside
    <3> QED BY <3>1, <3>2, ScanNests
  <2>6. CASE Loops!Disjoint
    BY <2>6, DisjointScans, ScanNests DEF Loops!Disjoint, Loops!InScan, Loops!searching
  <2>7. CASE Loops!NextOuter
    BY <2>7, NextOuterScans, ScanNests DEF Loops!NextOuter, Loops!searching
  <2>8. CASE Loops!Nest
    BY <2>8, NestNests
  <2>9. CASE Loops!EndScan
    <3>1. /\ phase = "scan" /\ phase' = "done"
          /\ UNCHANGED <<loops, nested, children, i, j>>
      BY <2>9 DEF Loops!EndScan, Loops!searching, Loops!nesting
    <3>2. Scanned'
      BY <3>1 DEF NestInv, Nesting, Scanned, Inside
    <3> QED BY <3>1, <3>2, ScanNests
  <2>10. CASE Loops!Done
    BY <2>10, NestingUntouched DEF Loops!Done, Loops!vars, Loops!searching, Loops!nesting
  <2> QED BY <2>1, <2>2, <2>3, <2>4, <2>5, <2>6, <2>7, <2>8, <2>9, <2>10 DEF Loops!Next
<1> QED BY <1>1, <1>2, <1>3 DEF Next

LEMMA NestedForest ==
  ASSUME LoopInv, NestInv
  PROVE  Forest
<1> SUFFICES ASSUME phase = "done", NEW l \in loops
             PROVE  /\ l \in Listed <=> Loops!Parents(l) = {}
                    /\ Loops!Cardinality(Loops!Parents(l)) <= 1
                    /\ \A p \in Loops!Parents(l) : Around(p, l)
  BY DEF Forest, Loops!Forest, Listed, Around, Inside
<1>1. \A X : Loops!Cardinality(X) = Cardinality(X)
  BY DEF Loops!Cardinality, Cardinality
<1>2. Placed
  BY DEF NestInv, Nesting
<1>3. CASE l \in Listed
  <2>1. Loops!Parents(l) = {}
    BY <1>2, <1>3 DEF Placed
  <2> QED BY <1>1, <1>3, <2>1, FS_EmptySet
<1>4. CASE l \notin Listed
  <2>1. PICK p \in loops : Loops!Parents(l) = {p} /\ Around(p, l)
    BY <1>2, <1>4 DEF Placed
  <2>2. Cardinality({p}) = 1
    BY FS_Singleton
  <2> QED BY <1>1, <1>4, <2>1, <2>2
<1> QED BY <1>3, <1>4

(* The head of a natural loop dominates all of its blocks. *)
LEMMA HeadDominates ==
  ASSUME NEW e \in TrueBackEdges(succs), succs \in FlowGraphs,
         NEW n \in NatLoop(e)
  PROVE  Dominates(succs, e[2], n)
<1> DEFINE h == e[2]
           S == {x \in Node : Dominates(succs, h, x)}
<1>1. h \in Node /\ e[1] \in Node /\ Dominates(succs, h, e[1])
  BY DEF TrueBackEdges
<1>2. Dominates(succs, h, h)
  BY DEF Dominates
<1>3. S \in SUBSET Node /\ {h, e[1]} \subseteq S
  BY <1>1, <1>2
<1>4. \A x \in S \ {h} : Loops!Preds(succs, x) \subseteq S
  <2> SUFFICES ASSUME NEW x \in S \ {h}, NEW q \in Preds(succs, x) PROVE q \in S
    BY SameGraph
  <2>1. q \in Node /\ x \in succs[q]
    BY DEF Preds
  <2> QED BY <2>1, PredDominated
<1>5. n \in S
  BY <1>3, <1>4 DEF NatLoop, Loops!NaturalLoop
<1> QED BY <1>5

LEMMA OnlyTwins ==
  ASSUME LoopInv, NestInv
  PROVE  AssertOnlyTwins
<1> SUFFICES ASSUME phase = "assert"
             PROVE  nested[i].head = nested[j].head /\ nested[i].latch # nested[j].latch
  BY DEF AssertOnlyTwins, Loops!AssertOnlyTwins
<1>1. /\ nested[i] \in loops /\ nested[j] \in loops /\ nested[i] # nested[j]
      /\ nested[i].body = nested[j].body
  <2>1. i \in 1 .. Len(nested) /\ j \in 1 .. Len(nested) /\ i < j
    BY DEF NestInv, Nesting, Sorted, Scanned
  <2> QED BY <2>1 DEF NestInv, Nesting, Sorted
<1>2. PICK d \in TrueBackEdges(succs) : nested[i] = LoopOf(d)
  BY <1>1, LoopsFound
<1>3. PICK e \in TrueBackEdges(succs) : nested[j] = LoopOf(e)
  BY <1>1, LoopsFound
<1>4. /\ d[1] \in Node /\ d[2] \in Node /\ e[1] \in Node /\ e[2] \in Node
      /\ d = <<d[1], d[2]>> /\ e = <<e[1], e[2]>>
  BY DEF TrueBackEdges
<1>5. NatLoop(d) = NatLoop(e)
  BY <1>1, <1>2, <1>3 DEF LoopOf
<1>6. d[2] \in NatLoop(e) /\ e[2] \in NatLoop(d)
  BY <1>4, <1>5, NatLoopClosed DEF NatLoop
<1>7. succs \in FlowGraphs
  BY DEF LoopInv
<1>8. d[2] = e[2]
  BY <1>4, <1>6, <1>7, HeadDominates, DominatesAntisym
<1>9. d[1] # e[1]
  BY <1>1, <1>2, <1>3, <1>4, <1>8
<1> QED BY <1>2, <1>3, <1>8, <1>9 DEF LoopOf

LEMMA AllKeep == LoopInv /\ NestInv /\ QueriesAgree /\ [Next]_vars => LoopInv' /\ NestInv'
  BY LoopNextKeeps, NestNextKeeps

(* The nesting loop leaves a forest, for every graph and every order in    *)
(* which loops of the same size come out of the sort: a loop is at the top *)
(* or has exactly one parent, a smallest loop around it, although the scan *)
(* starts over after each loop it moves.                                   *)
THEOREM NestingIsForest == Spec => []Forest
<1>1. Spec => []QueriesAgree
  BY QueriesAreRight
<1> QED BY <1>1, InitLoops, InitNest, AllKeep, NestedForest, PTL DEF Spec

(* The assertion that no two loops are the same can fail only for two back *)
(* edges to the same head, on any graph.                                   *)
THEOREM OnlyTwinsAssert == Spec => []AssertOnlyTwins
<1>1. Spec => []QueriesAgree
  BY QueriesAreRight
<1> QED BY <1>1, InitLoops, InitNest, AllKeep, OnlyTwins, PTL DEF Spec

(* A loop whose head another loop's head dominates lies inside it, if they *)
(* share a block: that block can only be reached through the inner head,   *)
(* which thus is in the outer loop, and then everything before it.         *)
LEMMA SharedIsInside ==
  ASSUME succs \in FlowGraphs,
         NEW d \in TrueBackEdges(succs), NEW e \in TrueBackEdges(succs),
         d[2] # e[2], Dominates(succs, d[2], e[2]),
         NEW x \in NatLoop(d) \cap NatLoop(e)
  PROVE  NatLoop(e) \subseteq NatLoop(d)
<1> SUFFICES ASSUME NEW h, NEW g, h = d[2], g = e[2]
             PROVE  NatLoop(e) \subseteq NatLoop(d)
  OBVIOUS
<1>1. /\ h \in Node /\ g \in Node /\ d[1] \in Node /\ e[1] \in Node
      /\ h # g /\ Dominates(succs, h, g) /\ g \in succs[e[1]]
  BY DEF TrueBackEdges
<1>2. /\ NatLoop(d) \subseteq Node /\ h \in NatLoop(d)
      /\ \A y \in NatLoop(d) \ {h} : Preds(succs, y) \subseteq NatLoop(d)
  BY <1>1, NatLoopClosed DEF NatLoop
<1>3. /\ NatLoop(e) \subseteq Node /\ g \in NatLoop(e) /\ e[1] \in NatLoop(e)
      /\ \A y \in NatLoop(e) \ {g} : Preds(succs, y) \subseteq NatLoop(e)
  BY <1>1, NatLoopClosed DEF NatLoop
<1>4. ~Dominates(succs, g, h)
  BY <1>1, DominatesAntisym
<1>5. g \in NatLoop(d)
  <2> SUFFICES ASSUME g \notin NatLoop(d) PROVE FALSE
    OBVIOUS
  <2>1. x \in Node /\ x # g /\ Dominates(succs, g, x)
    BY <1>2, HeadDominates
  <2>2. PICK S \in SUBSET (Node \ {g, x}) :
          Entry \in S \cup {g} /\ \A m \in S : succs[m] \subseteq S \cup {g}
    BY <2>1 DEF Dominates
  <2>3. g # Entry
    BY <1>4, EntryDominates
  <2>4. h \in S
    <3> SUFFICES ASSUME h \notin S PROVE FALSE
      OBVIOUS
    <3>1. S \in SUBSET (Node \ {g, h})
      BY <2>2
    <3> QED BY <1>4, <2>2, <3>1 DEF Dominates
  <2> DEFINE C == Node \ (NatLoop(d) \ S)
  <2>5. Entry \in C /\ C \in SUBSET Node
    BY <2>2, <2>3, NodeAssumption
  <2>6. ASSUME NEW m \in C, NEW y \in succs[m], y \notin C PROVE FALSE
    <3>1. y \in Node /\ m \in Preds(succs, y)
      BY <2>6, GraphFacts DEF Preds
    <3>2. y \in NatLoop(d) /\ y \notin S /\ y # h /\ y # g
      BY <2>4, <2>6, <3>1
    <3>3. m \in NatLoop(d)
      BY <1>2, <3>1, <3>2
    <3>4. m \in S
      BY <3>3
    <3> QED BY <2>2, <3>2, <3>4
  <2>7. C = Node
    <3> HIDE DEF C
    <3>1. \A m \in C : succs[m] \subseteq C
      BY <2>6
    <3> QED BY <2>5, <3>1, GraphFacts
  <2> QED BY <2>1, <2>2, <2>7
<1>6. e[1] \in NatLoop(d)
  BY <1>1, <1>2, <1>5 DEF Preds
<1>7. h \notin NatLoop(e)
  BY <1>4, HeadDominates
<1> DEFINE S == NatLoop(d) \cap NatLoop(e)
<1>8. S \in SUBSET Node /\ {g, e[1]} \subseteq S
  BY <1>2, <1>3, <1>5, <1>6
<1>9. \A y \in S \ {g} : Loops!Preds(succs, y) \subseteq S
  BY <1>2, <1>3, <1>7, SameGraph
<1>10. \A n \in NatLoop(e) : n \in S
  BY <1>8, <1>9 DEF NatLoop, Loops!NaturalLoop
<1> QED BY <1>10

LEMMA LoopsNest ==
  ASSUME LoopInv
  PROVE  Laminar
<1> SUFFICES ASSUME NEW k \in loops, NEW l \in loops, NEW x \in k.body \cap l.body,
                    k.head # l.head
             PROVE  k.body \subseteq l.body \/ l.body \subseteq k.body
  BY DEF Laminar
<1>1. phase # "wait" /\ succs \in FlowGraphs
  BY DEF LoopInv
<1>2. PICK d \in TrueBackEdges(succs) : k = LoopOf(d)
  BY <1>1, LoopsFound
<1>3. PICK e \in TrueBackEdges(succs) : l = LoopOf(e)
  BY <1>1, LoopsFound
<1>4. /\ k.body = NatLoop(d) /\ l.body = NatLoop(e) /\ d[2] # e[2]
      /\ d[2] \in Node /\ e[2] \in Node
  BY <1>2, <1>3 DEF LoopOf, TrueBackEdges
<1>5. x \in Node /\ {d[2], e[2]} \in SUBSET Doms(succs, x)
  <2>1. x \in Node
    BY <1>4 DEF NatLoop, Loops!NaturalLoop
  <2>2. Dominates(succs, d[2], x) /\ Dominates(succs, e[2], x)
    BY <1>1, <1>4, HeadDominates
  <2> QED BY <1>4, <2>1, <2>2 DEF Doms
<1>6. \E a \in {d[2], e[2]} : \A b \in {d[2], e[2]} : Dominates(succs, b, a)
  BY <1>1, <1>5, LowestDominator
<1>7. Dominates(succs, d[2], e[2]) \/ Dominates(succs, e[2], d[2])
  BY <1>6
<1> QED BY <1>1, <1>4, <1>7, SharedIsInside

(* The clusters asDot draws can be drawn: on every graph, loops that share *)
(* a block are nested, unless they have the same head.                     *)
THEOREM LoopsAreLaminar == Spec => []Laminar
<1>1. Spec => []QueriesAgree
  BY QueriesAreRight
<1>2. LoopInv /\ QueriesAgree /\ [Next]_vars => LoopInv'
  BY LoopNextKeeps
<1> QED BY <1>1, <1>2, InitLoops, LoopsNest, PTL DEF Spec

(* What asDot draws: the loops at the top and, below each, its children.   *)
(* A loop that is not at the top has a larger one as its parent.           *)
LEMMA AllDrawn ==
  ASSUME LoopInv, NestInv, phase = "done"
  PROVE  Drawn = loops
<1> DEFINE N == Cardinality(loops)
           h == CHOOSE f : f = [k \in 0 .. N |->
                                  IF k = 0 THEN Listed
                                  ELSE f[k - 1] \cup UNION {children[x] : x \in f[k - 1]}]
<1>1. IsFiniteSet(loops) /\ Sorted /\ Placed
  BY LoopsFound DEF NestInv, Nesting
<1>2. children \in [loops -> SUBSET loops] /\ Listed \in SUBSET loops
  BY <1>1 DEF Placed, Sorted, Listed, Loops!Members
<1>3. Drawn = h[N]
  BY Zenon DEF Drawn, Listed
<1>4. Rounds(h, children, Listed, N)
  <2> HIDE DEF Listed
  <2> QED BY <1>1, <1>2, RoundsSolved
<1>5. Drawn \in SUBSET loops /\ Listed \subseteq Drawn /\ ClosedIn(children, Drawn)
  <2>1. N = Cardinality(loops)
    OBVIOUS
  <2> HIDE DEF h, N, Listed
  <2>2. IsFiniteSet(loops)
    BY <1>1
  <2>3. ASSUME NEW f, Rounds(f, children, Listed, N)
        PROVE  f[N] \in SUBSET loops /\ Listed \subseteq f[N] /\ ClosedIn(children, f[N])
    BY <1>2, <2>1, <2>2, <2>3, Collected
  <2>4. Rounds(h, children, Listed, N)
    BY <1>4
  <2> QED BY <1>3, <2>3, <2>4
<1> DEFINE size == [l \in loops |-> Size(l)]
           M == Cardinality(Node)
           T == {M - size[l] : l \in loops \ Drawn}
<1> HIDE DEF Listed
<1>6. ASSUME NEW l \in loops PROVE Size(l) \in Nat /\ Size(l) <= M /\ M \in Nat
  <2>1. l.body \subseteq Node
    BY LoopsFound, NatLoopClosed DEF LoopOf, NatLoop, TrueBackEdges
  <2> QED BY <2>1, NodeAssumption, FS_Subset, FS_CardinalityType DEF Size
<1>7. ASSUME T # {} PROVE FALSE
  <2> HIDE DEF M
  <2>1. T \subseteq Nat
    BY <1>6
  <2>2. PICK m \in T : \A k \in T : m <= k
    <3> HIDE DEF T
    <3> QED BY <1>7, <2>1, Least
  <2>3. PICK l \in loops \ Drawn : m = M - size[l]
    BY <2>2
  <2>4. PICK p \in loops : Loops!Parents(l) = {p} /\ Around(p, l)
    BY <1>1, <1>5, <2>3 DEF Placed
  <2>5. l \in children[p]
    BY <2>4 DEF Loops!Parents
  <2>6. p \notin Drawn
    BY <1>5, <2>3, <2>5 DEF ClosedIn
  <2>7. Size(l) <= Size(p) /\ Size(l) # Size(p)
    BY <2>3, <2>4, Sizes DEF Around
  <2>8. m <= M - size[p]
    BY <2>2, <2>4, <2>6
  <2>9. size[p] = Size(p) /\ size[l] = Size(l)
    BY <2>3, <2>4
  <2>10. Size(p) \in Nat /\ Size(l) \in Nat /\ M \in Nat
    BY <1>6, <2>3, <2>4
  <2> HIDE DEF size, T
  <2> QED BY <2>3, <2>7, <2>8, <2>9, <2>10
<1>8. loops \subseteq Drawn
  BY <1>7
<1> QED BY <1>5, <1>8

(* The drawing shows every loop, and as clusters that a drawing can hold.  *)
THEOREM DrawnClustersNest == Spec => []ClustersNest
<1>1. Spec => []QueriesAgree
  BY QueriesAreRight
<1>2. LoopInv /\ NestInv => ClustersNest
  <2> SUFFICES ASSUME LoopInv, NestInv, phase = "done"
               PROVE  Drawn = loops /\ Laminar
    BY DEF ClustersNest
  <2> QED BY AllDrawn, LoopsNest
<1> QED BY <1>1, <1>2, InitLoops, InitNest, AllKeep, PTL DEF Spec
=============================================================================
