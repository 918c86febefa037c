------------------------- MODULE TraceReplayProofs -------------------------
(***************************************************************************)
(* Proofs about TraceReplay, for every address range, key width, program   *)
(* and trace: types and pointers first, then that no assertion fails and   *)
(* what the blocks look like, then that the edges are those executed, that *)
(* nothing is lost, and what exceptions leave of that.                     *)
(***************************************************************************)
EXTENDS TraceReplay, TLAPS

(* The part of the inductive invariant that survives exceptions and key    *)
(* collisions: successors and predecessors are converses, and every        *)
(* pointer leads to a block of bbMap.                                      *)
Sym(h) ==
  /\ \A x, y \in Addr : y \in h.succs[x] <=> x \in h.preds[y]
  /\ \A x \in Addr : h.succs[x] \subseteq h.bbMap /\ h.preds[x] \subseteq h.bbMap
MapsIn(h) ==
  /\ \A x \in Addr : h.succsMap[x] \subseteq h.bbMap
  /\ \A s \in Slot : h.insMap[s] # NoBlock => h.insMap[s] \in h.bbMap
WellFormed(h) == h \in Graph /\ Sym(h) /\ MapsIn(h)

LEMMA AddrFacts == /\ Addr \subseteq Nat
                   /\ Addr \subseteq Slot
                   /\ NoBlock \notin Addr
                   /\ \A a \in Addr : a - 1 \in Nat
BY AddrAssumption DEF Addr, Slot, NoBlock

LEMMA ConstructWF ==
  ASSUME NEW h, WellFormed(h), NEW a \in Addr
  PROVE  WellFormed(Construct(h, a))
BY DEF WellFormed, Sym, MapsIn, Construct, Graph

LEMMA AbortWF ==
  ASSUME NEW h, WellFormed(h), NEW f \in Fault
  PROVE  WellFormed(Abort(h, f))
BY DEF WellFormed, Sym, MapsIn, Abort, Graph

(* What AddSuccessor and AddIns return, member by member. *)
AddsSuccessor(n, h, b, c) ==
  /\ n \in Graph
  /\ n.bbMap = h.bbMap /\ n.insMap = h.insMap /\ n.vecIns = h.vecIns
  /\ n.termAddr = h.termAddr /\ n.readOnly = h.readOnly /\ n.fault = h.fault
  /\ n.succs = [h.succs EXCEPT ![b] = @ \cup {c}]
  /\ n.succsMap = [h.succsMap EXCEPT ![b] = MapSucc(@, c)]
  /\ n.preds = [h.preds EXCEPT ![c] = @ \cup {b}]

AddsIns(n, h, b, a) ==
  /\ n \in Graph
  /\ n.bbMap = h.bbMap /\ n.succs = h.succs /\ n.preds = h.preds
  /\ n.termAddr = h.termAddr /\ n.readOnly = h.readOnly
  /\ n.succsMap = h.succsMap /\ n.fault = h.fault
  /\ n.vecIns = [h.vecIns EXCEPT ![b] = Append(@, a)]
  /\ n.insMap = [h.insMap EXCEPT ![a] = b]

LEMMA AddSuccessorFields ==
  ASSUME NEW h \in Graph, NEW b \in Addr, NEW c \in Addr,
         c \notin h.succs[b], ~IsEmpty(h, b)
  PROVE  AddsSuccessor(AddSuccessor(h, b, c), h, b, c)
<1> DEFINE S  == [h.succs EXCEPT ![b] = @ \cup {c}]
           M  == [h.succsMap EXCEPT ![b] = MapSucc(@, c)]
           P  == [h.preds EXCEPT ![c] = @ \cup {b}]
           h1 == [h EXCEPT !.succs = S]
           h2 == [h1 EXCEPT !.succsMap = M]
           h3 == [h2 EXCEPT !.preds = P]
<1>1. S \in [Addr -> SUBSET Addr] /\ P \in [Addr -> SUBSET Addr]
  BY DEF Graph
<1>2. M \in [Addr -> SUBSET Addr]
  BY DEF Graph, MapSucc
<1>3. AddSuccessor(h, b, c) = h3
  BY DEF AddSuccessor, Graph
<1> HIDE DEF S, M, P
<1>4. /\ h1 \in Graph /\ h1.succs = S
      /\ h1.bbMap = h.bbMap /\ h1.insMap = h.insMap /\ h1.vecIns = h.vecIns
      /\ h1.termAddr = h.termAddr /\ h1.readOnly = h.readOnly
      /\ h1.succsMap = h.succsMap /\ h1.preds = h.preds /\ h1.fault = h.fault
  BY <1>1 DEF Graph
<1> HIDE DEF h1
<1>5. /\ h2 \in Graph /\ h2.succs = S /\ h2.succsMap = M
      /\ h2.bbMap = h.bbMap /\ h2.insMap = h.insMap /\ h2.vecIns = h.vecIns
      /\ h2.termAddr = h.termAddr /\ h2.readOnly = h.readOnly
      /\ h2.preds = h.preds /\ h2.fault = h.fault
  BY <1>2, <1>4 DEF Graph
<1> HIDE DEF h2
<1>6. /\ h3 \in Graph /\ h3.succs = S /\ h3.succsMap = M /\ h3.preds = P
      /\ h3.bbMap = h.bbMap /\ h3.insMap = h.insMap /\ h3.vecIns = h.vecIns
      /\ h3.termAddr = h.termAddr /\ h3.readOnly = h.readOnly
      /\ h3.fault = h.fault
  BY <1>1, <1>5 DEF Graph
<1> QED BY <1>3, <1>6 DEF S, M, P, AddsSuccessor
LEMMA AddSuccessorWF ==
  ASSUME NEW h, WellFormed(h), NEW b \in h.bbMap, NEW c \in h.bbMap
  PROVE  WellFormed(AddSuccessor(h, b, c))
<1> DEFINE n == AddSuccessor(h, b, c)
<1>0. h \in Graph /\ b \in Addr /\ c \in Addr
  BY DEF WellFormed, Graph
<1>1. CASE c \in h.succs[b]
  BY <1>1 DEF AddSuccessor
<1>2. CASE c \notin h.succs[b] /\ IsEmpty(h, b)
  BY <1>2, AbortWF DEF AddSuccessor, Fault
<1>3. CASE c \notin h.succs[b] /\ ~IsEmpty(h, b)
  <2>1. AddsSuccessor(n, h, b, c)
    BY <1>0, <1>3, AddSuccessorFields
  <2> HIDE DEF n
  <2>2. Sym(n)
    BY <1>0, <2>1 DEF AddsSuccessor, Graph, WellFormed, Sym
  <2>3. MapsIn(n)
    BY <1>0, <2>1 DEF AddsSuccessor, Graph, WellFormed, MapsIn, MapSucc
  <2>4. WellFormed(n)
    BY <2>1, <2>2, <2>3 DEF WellFormed, AddsSuccessor
  <2> QED BY <2>4 DEF n
<1> QED BY <1>1, <1>2, <1>3

LEMMA AddSuccessorBlocks ==
  ASSUME NEW h, h \in Graph, NEW b \in Addr, NEW c \in Addr
  PROVE  AddSuccessor(h, b, c).bbMap = h.bbMap
<1>1. CASE c \in h.succs[b]
  BY <1>1 DEF AddSuccessor
<1>2. CASE c \notin h.succs[b] /\ IsEmpty(h, b)
  BY <1>2 DEF AddSuccessor, Abort, Graph
<1>3. CASE c \notin h.succs[b] /\ ~IsEmpty(h, b)
  <2>1. AddsSuccessor(AddSuccessor(h, b, c), h, b, c)
    BY <1>3, AddSuccessorFields
  <2> QED BY <2>1 DEF AddsSuccessor
<1> QED BY <1>1, <1>2, <1>3

LEMMA NewBlockWF ==
  ASSUME NEW h, WellFormed(h), NEW a \in Addr, NEW b \in h.bbMap
  PROVE  /\ WellFormed(NewBlock(h, a, b))
         /\ NewBlock(h, a, b).bbMap = h.bbMap \cup {a}
<1> DEFINE n == Construct(h, a)
<1>1. WellFormed(n)
  BY ConstructWF
<1>2. n.bbMap = h.bbMap \cup {a}
  BY DEF Construct, WellFormed, Graph
<1> HIDE DEF n
<1>3. b \in n.bbMap /\ a \in n.bbMap /\ b \in Addr /\ n \in Graph
  BY <1>1, <1>2 DEF WellFormed, Graph
<1>4. WellFormed(AddSuccessor(n, b, a))
  BY <1>1, <1>3, AddSuccessorWF
<1>5. AddSuccessor(n, b, a).bbMap = h.bbMap \cup {a}
  BY <1>2, <1>3, AddSuccessorBlocks
<1> QED BY <1>4, <1>5 DEF NewBlock, n

LEMMA AddInsFields ==
  ASSUME NEW h \in Graph, NEW b \in Addr, NEW a \in Addr, ~h.readOnly[b]
  PROVE  AddsIns(AddIns(h, b, a), h, b, a)
<1> DEFINE V  == [h.vecIns EXCEPT ![b] = Append(@, a)]
           I  == [h.insMap EXCEPT ![a] = b]
           h1 == [h EXCEPT !.vecIns = V]
           h2 == [h1 EXCEPT !.insMap = I]
<1>1. V \in [Addr -> Seq(Addr)]
  BY DEF Graph
<1>2. I \in [Slot -> Addr \cup {NoBlock}]
  BY DEF Graph
<1>3. AddIns(h, b, a) = h2
  BY DEF AddIns, Graph
<1> HIDE DEF V, I
<1>4. /\ h1 \in Graph /\ h1.vecIns = V
      /\ h1.bbMap = h.bbMap /\ h1.insMap = h.insMap /\ h1.succs = h.succs
      /\ h1.termAddr = h.termAddr /\ h1.readOnly = h.readOnly
      /\ h1.succsMap = h.succsMap /\ h1.preds = h.preds /\ h1.fault = h.fault
  BY <1>1 DEF Graph
<1> HIDE DEF h1
<1>5. /\ h2 \in Graph /\ h2.vecIns = V /\ h2.insMap = I
      /\ h2.bbMap = h.bbMap /\ h2.succs = h.succs
      /\ h2.termAddr = h.termAddr /\ h2.readOnly = h.readOnly
      /\ h2.succsMap = h.succsMap /\ h2.preds = h.preds /\ h2.fault = h.fault
  BY <1>2, <1>4 DEF Graph
<1> QED BY <1>3, <1>5 DEF V, I, AddsIns

LEMMA AddInsWF ==
  ASSUME NEW h, WellFormed(h), NEW b \in h.bbMap, NEW a \in Addr
  PROVE  WellFormed(AddIns(h, b, a)) /\ AddIns(h, b, a).bbMap = h.bbMap
<1>1. CASE h.readOnly[b]
  BY <1>1 DEF AddIns
<1>2. CASE ~h.readOnly[b]
  <2> DEFINE n == AddIns(h, b, a)
  <2>1. h \in Graph /\ b \in Addr /\ a \in Slot
    BY AddrFacts DEF WellFormed, Graph
  <2>2. AddsIns(n, h, b, a)
    BY <1>2, <2>1, AddInsFields
  <2> HIDE DEF n
  <2>3. Sym(n) /\ MapsIn(n)
    BY SMTT(30), <2>1, <2>2 DEF AddsIns, WellFormed, Sym, MapsIn, Graph
  <2> QED BY <2>2, <2>3 DEF WellFormed, AddsIns, n
<1> QED BY <1>1, <1>2

LEMMA SetTermAddrWF ==
  ASSUME NEW h, WellFormed(h), NEW b \in Addr, NEW a \in Nat
  PROVE  WellFormed(SetTermAddr(h, b, a)) /\ SetTermAddr(h, b, a).bbMap = h.bbMap
BY DEF WellFormed, Sym, MapsIn, SetTermAddr, Graph

LEMMA SetReadOnlyWF ==
  ASSUME NEW h, WellFormed(h), NEW b \in Addr
  PROVE  WellFormed(SetReadOnly(h, b)) /\ SetReadOnly(h, b).bbMap = h.bbMap
BY DEF WellFormed, Sym, MapsIn, SetReadOnly, Graph
LEMMA OffsetFound ==
  ASSUME NEW h, NEW b, NEW a, a \in Insns(h, b)
  PROVE  /\ Offset(h, b, a) \in 1 .. Len(h.vecIns[b])
         /\ h.vecIns[b][Offset(h, b, a)] = a
BY DEF Insns, Offset

LEMMA SplitWF ==
  ASSUME NEW h, WellFormed(h), NEW b \in h.bbMap, NEW a \in Addr,
         a \notin h.bbMap, a \in Insns(h, b)
  PROVE  /\ WellFormed(Split(h, b, a))
         /\ Split(h, b, a).bbMap = h.bbMap \cup {a}
<1> DEFINE n == Split(h, b, a)
           k == Offset(h, b, a)
<1>1. h \in Graph /\ b \in Addr /\ a # b
  BY DEF WellFormed, Graph
<1>2. k \in 1 .. Len(h.vecIns[b])
  BY OffsetFound
<1> HIDE DEF k
<1>3. n.bbMap = h.bbMap \cup {a} /\ n.fault = h.fault
  BY DEF Split
<1>4. n.insMap = [s \in Slot |-> IF s \in b + k - 1 .. b + Len(h.vecIns[b]) - 1
                                 THEN a ELSE h.insMap[s]]
  BY DEF Split, SplitInsMap, k
<1>5. n.vecIns = [h.vecIns EXCEPT ![a] = SubSeq(h.vecIns[b], k, Len(h.vecIns[b])),
                                  ![b] = SubSeq(h.vecIns[b], 1, k - 1)]
  BY DEF Split, k
<1>6. n.termAddr = [h.termAddr EXCEPT ![a] = h.termAddr[b], ![b] = a - 1]
  BY DEF Split, SplitTermAddr
<1>7. n.readOnly = [h.readOnly EXCEPT ![a] = TRUE, ![b] = TRUE]
  BY DEF Split
<1>8. n.succs = [h.succs EXCEPT ![a] = h.succs[b], ![b] = {a}]
  BY DEF Split
<1>9. n.preds = [x \in Addr |-> IF x = a THEN {b}
                                ELSE IF x \in h.succs[b] THEN (h.preds[x] \ {b}) \cup {a}
                                ELSE h.preds[x]]
  BY DEF Split, SplitPreds
<1>10. n.succsMap = [h.succsMap EXCEPT ![a] = MapSuccs(h.succs[b]), ![b] = {a}]
  BY DEF Split
<1>11. n = [bbMap |-> n.bbMap, insMap |-> n.insMap, vecIns |-> n.vecIns,
             termAddr |-> n.termAddr, readOnly |-> n.readOnly,
             succs |-> n.succs, preds |-> n.preds, succsMap |-> n.succsMap,
             fault |-> n.fault]
  BY DEF Split
<1> HIDE DEF n
<1>12. /\ h.succs \in [Addr -> SUBSET Addr] /\ h.preds \in [Addr -> SUBSET Addr]
       /\ h.succsMap \in [Addr -> SUBSET Addr] /\ h.bbMap \subseteq Addr
       /\ h.insMap \in [Slot -> Addr \cup {NoBlock}]
  BY <1>1 DEF Graph
<1>13. n \in Graph
  <2>1. h.vecIns \in [Addr -> Seq(Addr)] /\ h.vecIns[b] \in Seq(Addr)
    BY <1>1 DEF Graph
  <2>2. SubSeq(h.vecIns[b], k, Len(h.vecIns[b])) \in Seq(Addr)
    BY <1>2, <2>1
  <2>3. SubSeq(h.vecIns[b], 1, k - 1) \in Seq(Addr)
    BY <1>2, <2>1
  <2>4. n.vecIns \in [Addr -> Seq(Addr)]
    BY <1>1, <1>5, <2>1, <2>2, <2>3
  <2>5. n.insMap \in [Slot -> Addr \cup {NoBlock}]
    BY <1>1, <1>4 DEF Graph
  <2>6. n.termAddr \in [Addr -> Nat]
    BY <1>1, <1>6, AddrFacts DEF Graph
  <2>7. n.readOnly \in [Addr -> BOOLEAN]
    BY ZenonT(30), <1>1, <1>7 DEF Graph
  <2>8. n.succs \in [Addr -> SUBSET Addr]
    BY <1>1, <1>8, <1>12
  <2>9. n.preds \in [Addr -> SUBSET Addr]
    <3> DEFINE P(x) == IF x = a THEN {b}
                       ELSE IF x \in h.succs[b] THEN (h.preds[x] \ {b}) \cup {a}
                       ELSE h.preds[x]
    <3>1. ASSUME NEW x \in Addr PROVE P(x) \subseteq Addr
      <4>1. h.preds[x] \subseteq Addr
        BY <1>12
      <4> QED BY <1>1, <4>1
    <3>2. n.preds = [x \in Addr |-> P(x)]
      BY <1>9
    <3> HIDE DEF P
    <3> QED BY <3>1, <3>2
  <2>10. n.succsMap \in [Addr -> SUBSET Addr]
    <3>1. MapSuccs(h.succs[b]) \subseteq Addr
      BY <1>1, <1>12 DEF MapSuccs
    <3> HIDE DEF MapSuccs
    <3> QED BY <1>1, <1>10, <1>12, <3>1
  <2>11. n.bbMap \in SUBSET Addr /\ n.fault \in Fault
    BY <1>1, <1>3 DEF Graph
  <2> QED BY <1>11, <2>4, <2>5, <2>6, <2>7, <2>8, <2>9, <2>10, <2>11 DEF Graph
<1>14. Sym(n)
  <2>1. /\ \A x, y \in Addr : y \in h.succs[x] <=> x \in h.preds[y]
        /\ \A x \in Addr : h.succs[x] \subseteq h.bbMap /\ h.preds[x] \subseteq h.bbMap
    BY DEF WellFormed, Sym
  <2>2. \A x \in Addr : a \notin h.succs[x] /\ a \notin h.preds[x]
    BY <2>1
  <2>3. h.succs[a] = {} /\ h.preds[a] = {}
    BY <1>12, <2>1, <2>2
  <2>4. \A x \in Addr : n.succs[x] = IF x = b THEN {a} ELSE IF x = a THEN h.succs[b]
                                     ELSE h.succs[x]
    BY <1>1, <1>8, <1>12
  <2>5. \A x \in Addr : n.preds[x] = IF x = a THEN {b}
                                ELSE IF x \in h.succs[b] THEN (h.preds[x] \ {b}) \cup {a}
                                ELSE h.preds[x]
    BY <1>9
  <2>6. ASSUME NEW x \in Addr, NEW y \in Addr
        PROVE  y \in n.succs[x] <=> x \in n.preds[y]
    <3>1. /\ y \in h.succs[x] <=> x \in h.preds[y]
          /\ y \in h.succs[b] <=> b \in h.preds[y]
          /\ a \notin h.succs[x] /\ a \notin h.preds[y] /\ a \notin h.succs[b]
          /\ y \notin h.succs[a] /\ x \notin h.preds[a]
      BY <1>1, <2>1, <2>2, <2>3
    <3>2. CASE x = b
      BY ZenonT(30), <1>1, <2>4, <2>5, <3>1, <3>2
    <3>3. CASE x = a
      BY ZenonT(30), <1>1, <2>4, <2>5, <3>1, <3>3
    <3>4. CASE x # a /\ x # b
      BY ZenonT(30), <1>1, <2>4, <2>5, <3>1, <3>4
    <3> QED BY <3>2, <3>3, <3>4
  <2>7. ASSUME NEW x \in Addr
        PROVE  n.succs[x] \subseteq n.bbMap /\ n.preds[x] \subseteq n.bbMap
    <3>1. /\ h.succs[x] \subseteq h.bbMap /\ h.preds[x] \subseteq h.bbMap
          /\ h.succs[b] \subseteq h.bbMap
      BY <1>1, <2>1
    <3>2. n.succs[x] \subseteq n.bbMap
      BY <1>3, <2>4, <3>1
    <3>3. n.preds[x] \subseteq n.bbMap
      BY <1>3, <2>5, <3>1
    <3> QED BY <3>2, <3>3
  <2> QED BY <2>6, <2>7 DEF Sym
<1>15. \A x \in Addr : n.succsMap[x] \subseteq n.bbMap
  <2>1. h.succs[b] \subseteq h.bbMap /\ \A x \in Addr : h.succsMap[x] \subseteq h.bbMap
    BY <1>1 DEF WellFormed, Sym, MapsIn
  <2>2. MapSuccs(h.succs[b]) \subseteq h.bbMap
    BY <2>1 DEF MapSuccs
  <2> QED BY <1>1, <1>3, <1>10, <1>12, <2>1, <2>2
<1>16. \A s \in Slot : n.insMap[s] # NoBlock => n.insMap[s] \in n.bbMap
  BY <1>3, <1>4 DEF WellFormed, MapsIn
<1> QED BY <1>3, <1>13, <1>14, <1>15, <1>16 DEF WellFormed, MapsIn, n

-----------------------------------------------------------------------------
(* What the functions that look up the next block return: a well-formed    *)
(* graph that has lost no block, and one of its blocks (findBlock may      *)
(* return nullptr instead).                                                *)
Leads(r, h) ==
  /\ WellFormed(r.graph)
  /\ h.bbMap \subseteq r.graph.bbMap
  /\ r.blk \in r.graph.bbMap

LEMMA AbortLeads ==
  ASSUME NEW h, WellFormed(h), NEW b \in h.bbMap, NEW f \in Fault
  PROVE  Leads([blk |-> b, graph |-> Abort(h, f)], h)
<1>1. Abort(h, f).bbMap = h.bbMap
  BY DEF Abort, WellFormed, Graph
<1> HIDE DEF Abort
<1> QED BY <1>1, AbortWF DEF Leads

LEMMA FindBlockWF ==
  ASSUME NEW h, WellFormed(h), NEW b \in h.bbMap, NEW a \in Addr
  PROVE  LET f == FindBlock(h, b, a)
         IN  Leads(f, h) \/ f = [blk |-> NoBlock, graph |-> h]
<1> DEFINE f   == FindBlock(h, b, a)
           hit == {x \in h.succsMap[b] : Key(x) = Key(a)}
           own == BbInBlock(h, a)
<1>0. h \in Graph /\ b \in Addr
  BY DEF WellFormed, Graph
<1>1. CASE hit # {}
  <2> DEFINE c == CHOOSE x \in hit : TRUE
  <2>1. f = [blk |-> c, graph |-> h]
    BY <1>1 DEF FindBlock
  <2>2. c \in hit
    BY <1>1
  <2>3. c \in h.bbMap
    BY <1>0, <2>2 DEF WellFormed, MapsIn
  <2> HIDE DEF c, f
  <2> QED BY <2>1, <2>3 DEF Leads, f
<1>2. CASE hit = {} /\ a \in h.bbMap
  <2> DEFINE n == AddSuccessor(h, b, a)
  <2>1. f = [blk |-> a, graph |-> n]
    BY <1>2 DEF FindBlock
  <2>2. WellFormed(n)
    BY <1>2, AddSuccessorWF
  <2>3. n.bbMap = h.bbMap
    BY <1>0, AddSuccessorBlocks
  <2> HIDE DEF n, f
  <2> QED BY <1>2, <2>1, <2>2, <2>3 DEF Leads, f
<1>3. CASE hit = {} /\ a \notin h.bbMap /\ own # NoBlock /\ a \in Insns(h, own)
  <2> DEFINE m == Split(h, own, a)
             n == AddSuccessor(m, b, a)
  <2>1. f = [blk |-> a, graph |-> n]
    BY <1>3 DEF FindBlock
  <2>2. own \in h.bbMap
    BY <1>3, AddrFacts DEF BbInBlock, WellFormed, MapsIn
  <2>3. WellFormed(m) /\ m.bbMap = h.bbMap \cup {a}
    BY <1>3, <2>2, SplitWF
  <2> HIDE DEF m, own, hit
  <2>4. m \in Graph /\ b \in m.bbMap /\ a \in m.bbMap
    BY <2>3 DEF WellFormed
  <2>5. WellFormed(n)
    BY <2>3, <2>4, AddSuccessorWF
  <2>6. n.bbMap = h.bbMap \cup {a}
    BY <1>0, <2>3, <2>4, AddSuccessorBlocks
  <2> HIDE DEF n, f
  <2> QED BY <2>1, <2>5, <2>6 DEF Leads, f
<1>4. CASE hit = {} /\ a \notin h.bbMap /\ own # NoBlock /\ a \notin Insns(h, own)
  <2>1. f = [blk |-> b, graph |-> Abort(h, "split")]
    BY <1>4 DEF FindBlock
  <2> HIDE DEF f
  <2> QED BY <2>1, AbortLeads DEF Fault, f
<1>5. CASE hit = {} /\ a \notin h.bbMap /\ own = NoBlock
  BY <1>5 DEF FindBlock
<1> QED BY <1>1, <1>2, <1>3, <1>4, <1>5

LEMMA SuccessorWF ==
  ASSUME NEW h, WellFormed(h), NEW b \in h.bbMap, NEW a \in Addr
  PROVE  Leads(Successor(h, b, a), h)
<1> DEFINE f == FindBlock(h, b, a)
<1>1. Leads(f, h) \/ f = [blk |-> NoBlock, graph |-> h]
  BY FindBlockWF
<1>3. CASE f.blk = NoBlock
  <2> DEFINE n == NewBlock(h, a, b)
  <2>1. Successor(h, b, a) = [blk |-> a, graph |-> n]
    BY <1>3 DEF Successor
  <2>2. WellFormed(n) /\ n.bbMap = h.bbMap \cup {a}
    BY NewBlockWF
  <2> HIDE DEF n
  <2> QED BY <2>1, <2>2 DEF Leads
<1>4. CASE f.blk # NoBlock
  <2>1. Successor(h, b, a) = f
    BY <1>4 DEF Successor
  <2>2. Leads(f, h)
    BY <1>1, <1>4
  <2> QED BY <2>1, <2>2
<1> QED BY <1>3, <1>4

LEMMA GetNextBlockWF ==
  ASSUME NEW h, WellFormed(h), NEW b \in h.bbMap, NEW a \in Addr
  PROVE  Leads(GetNextBlock(h, b, a), h)
<1> DEFINE s == Successor(h, b, a)
           n == SetReadOnly(s.graph, b)
<1>1. Leads(s, h)
  BY SuccessorWF
<1> HIDE DEF s
<1>2. b \in Addr /\ WellFormed(s.graph)
  BY <1>1 DEF Leads, WellFormed, Graph
<1>3. WellFormed(n) /\ n.bbMap = s.graph.bbMap
  BY <1>2, SetReadOnlyWF
<1>4. GetNextBlock(h, b, a) = [blk |-> s.blk, graph |-> n]
  BY DEF GetNextBlock, s
<1> HIDE DEF n
<1> QED BY <1>1, <1>3, <1>4 DEF Leads

LEMMA TranslateRiscvWF ==
  ASSUME NEW h, WellFormed(h), NEW b \in h.bbMap, pc \in Addr, NEW npc \in Addr
  PROVE  Leads(TranslateRiscv(h, b, npc), h)
<1> DEFINE n == AddIns(h, b, pc)
           m == SetTermAddr(n, b, pc)
<1>1. WellFormed(n) /\ n.bbMap = h.bbMap
  BY AddInsWF
<1> HIDE DEF n
<1>2. b \in Addr /\ pc \in Nat
  BY AddrFacts DEF WellFormed, Graph
<1>3. WellFormed(m) /\ m.bbMap = h.bbMap
  BY <1>1, <1>2, SetTermAddrWF
<1> HIDE DEF m
<1>4. CASE EndsBlock(code[pc])
  <2>1. TranslateRiscv(h, b, npc) = GetNextBlock(m, b, npc)
    BY <1>4 DEF TranslateRiscv, n, m
  <2>2. Leads(GetNextBlock(m, b, npc), m)
    BY <1>3, GetNextBlockWF
  <2> QED BY <1>3, <2>1, <2>2 DEF Leads
<1>5. CASE ~EndsBlock(code[pc])
  <2>1. TranslateRiscv(h, b, npc) = [blk |-> b, graph |-> n]
    BY <1>5 DEF TranslateRiscv, n
  <2> QED BY <1>1, <2>1 DEF Leads
<1> QED BY <1>4, <1>5

-----------------------------------------------------------------------------
(* The inductive invariant behind TypeCorrect and GraphSymmetric.          *)
GraphInv == TypeOK /\ WellFormed(g) /\ cBB \in g.bbMap

LEMMA EmptyWF == WellFormed(EmptyGraph)
<1>1. EmptyGraph \in Graph
  BY DEF EmptyGraph, Graph, Fault
<1>2. Sym(EmptyGraph) /\ MapsIn(EmptyGraph)
  BY DEF EmptyGraph, Sym, MapsIn
<1> QED BY <1>1, <1>2 DEF WellFormed

LEMMA InitGraphInv == Init => GraphInv
<1> SUFFICES ASSUME Init PROVE GraphInv
  OBVIOUS
<1>1. WellFormed(g)
  BY EmptyWF, ConstructWF DEF Init
<1>2. pc \in g.bbMap
  BY DEF Init, Construct, EmptyGraph
<1>3. TypeOK
  BY <1>1, EdgeCapAssumption DEF Init, TypeOK, WellFormed, Phase
<1> QED BY <1>1, <1>2, <1>3 DEF Init, GraphInv

LEMMA ResyncWF ==
  ASSUME GraphInv
  PROVE  Resync \in g.bbMap
<1>1. pc \in Slot /\ MapsIn(g)
  BY AddrFacts DEF GraphInv, TypeOK, WellFormed
<1>2. BbInBlock(g, pc) # NoBlock => BbInBlock(g, pc) \in g.bbMap
  BY <1>1 DEF MapsIn, BbInBlock
<1> QED BY <1>2 DEF Resync, GraphInv

(* Each of the four things a record can lead to leads to a block.          *)
LEMMA RecordWF ==
  ASSUME GraphInv, NEW npc \in Addr,
         Stay(npc) \/ Leave(npc) \/ Build(npc) \/ Join(npc)
  PROVE  Leads([blk |-> cBB', graph |-> g'], g)
<1> DEFINE b == Resync
<1>1. WellFormed(g) /\ b \in g.bbMap /\ pc \in Addr /\ b \in Addr
  BY ResyncWF DEF GraphInv, TypeOK, WellFormed, Graph
<1> HIDE DEF b
<1>2. CASE Stay(npc)
  BY <1>1, <1>2 DEF Stay, Become, Leads, b
<1>3. CASE Leave(npc)
  <2>1. Leads(Successor(g, b, npc), g)
    BY <1>1, SuccessorWF
  <2> QED BY <1>3, <2>1 DEF Leave, Become, Leads, b
<1>4. CASE Build(npc)
  <2>1. Leads(TranslateRiscv(g, b, npc), g)
    BY <1>1, TranslateRiscvWF
  <2> QED BY <1>4, <2>1 DEF Build, Become, Leads, b
<1>5. CASE Join(npc)
  <2>1. CASE IsEmpty(g, b)
    <3>1. Leads([blk |-> b, graph |-> Abort(g, "at")], g)
      BY <1>1, AbortLeads DEF Fault
    <3> QED BY <1>5, <2>1, <3>1 DEF Join, Become, Leads, b
  <2>2. CASE ~IsEmpty(g, b)
    <3> DEFINE m == SetTermAddr(g, b, LastPc(g, b))
               s == GetNextBlock(m, b, pc)
               t == TranslateRiscv(s.graph, s.blk, npc)
    <3>1. LastPc(g, b) \in Nat
      <4>1. g.vecIns[b] \in Seq(Addr) /\ g.vecIns[b] # <<>>
        BY <1>1, <2>2 DEF IsEmpty, WellFormed, Graph
      <4>2. g.vecIns[b][Len(g.vecIns[b])] \in Addr
        BY <4>1
      <4> QED BY <4>2, AddrFacts DEF LastPc
    <3>2. WellFormed(m) /\ m.bbMap = g.bbMap
      BY <1>1, <3>1, SetTermAddrWF
    <3> HIDE DEF m
    <3>3. Leads(s, m)
      BY <1>1, <3>2, GetNextBlockWF
    <3> HIDE DEF s
    <3>4. Leads(t, s.graph)
      BY <1>1, <3>3, TranslateRiscvWF DEF Leads
    <3> HIDE DEF t
    <3>5. (cBB' = s.blk /\ g' = s.graph) \/ (cBB' = t.blk /\ g' = t.graph)
      BY <1>5, <2>2 DEF Join, Become, b, m, s, t
    <3> QED BY <3>2, <3>3, <3>4, <3>5 DEF Leads
  <2> QED BY <2>1, <2>2
<1> QED BY <1>2, <1>3, <1>4, <1>5

LEMMA StepGraphInv == GraphInv /\ [Next]_vars => GraphInv'
<1> SUFFICES ASSUME GraphInv, [Next]_vars PROVE GraphInv'
  OBVIOUS
<1>1. ASSUME NEW npc \in NextPcs(pc), Step(npc) PROVE GraphInv'
  <2>1. npc \in Addr
    BY <1>1 DEF NextPcs
  <2>2. Leads([blk |-> cBB', graph |-> g'], g)
    BY <1>1, <2>1, RecordWF DEF Step
  <2>3. WellFormed(g') /\ cBB' \in g'.bbMap
    BY <2>2 DEF Leads
  <2>4. globalEdges' \in [Addr -> [Addr -> 0 .. EdgeCap]]
    BY <1>1, <2>1, EdgeCapAssumption DEF Step, CountEdge, GraphInv, TypeOK
  <2>5. g' \in Graph /\ cBB' \in Addr
    BY <2>3 DEF WellFormed, Graph
  <2>6. TypeOK'
    BY <1>1, <2>1, <2>4, <2>5 DEF Step, GraphInv, TypeOK
  <2> QED BY <2>3, <2>6 DEF GraphInv
<1>2. ASSUME EndTrace PROVE GraphInv'
  BY <1>2 DEF EndTrace, GraphInv, TypeOK, Phase
<1>3. ASSUME UNCHANGED vars PROVE GraphInv'
  BY <1>3 DEF vars, GraphInv, TypeOK
<1> QED BY <1>1, <1>2, <1>3 DEF Next

LEMMA AlwaysGraphInv == Spec => []GraphInv
BY InitGraphInv, StepGraphInv, PTL DEF Spec

(* The types of TraceReplay are right: in particular no block pointer is   *)
(* null or names an address where no block was ever constructed.           *)
THEOREM TypeCorrect == Spec => []TypeOK
<1>1. GraphInv => TypeOK
  BY DEF GraphInv
<1> QED BY <1>1, AlwaysGraphInv, PTL

LEMMA SymSymmetric == ASSUME g \in Graph, Sym(g) PROVE Symmetric
<1> SUFFICES ASSUME NEW b \in Addr
             PROVE  /\ g.succs[b] \subseteq g.bbMap
                    /\ g.preds[b] \subseteq g.bbMap
                    /\ b \notin g.bbMap => g.succs[b] = {} /\ g.preds[b] = {}
                    /\ \A c \in Addr : c \in g.succs[b] <=> b \in g.preds[c]
  BY DEF Symmetric
<1>1. g.bbMap \subseteq Addr
  BY DEF Graph
<1>2. /\ g.succs[b] \subseteq g.bbMap /\ g.preds[b] \subseteq g.bbMap
      /\ \A c \in Addr : c \in g.succs[b] <=> b \in g.preds[c]
  BY DEF Sym
<1>3. ASSUME b \notin g.bbMap PROVE g.succs[b] = {}
  <2>1. ASSUME NEW c \in g.succs[b] PROVE FALSE
    BY <1>1, <1>2, <1>3, <2>1 DEF Sym
  <2> QED BY <2>1
<1>4. ASSUME b \notin g.bbMap PROVE g.preds[b] = {}
  <2>1. ASSUME NEW c \in g.preds[b] PROVE FALSE
    BY <1>1, <1>2, <1>4, <2>1 DEF Sym
  <2> QED BY <2>1
<1> QED BY <1>2, <1>3, <1>4

(* Whatever the program, the exceptions and the key collisions, the        *)
(* predecessors and successors that split, addSuccessor and the            *)
(* constructors leave behind are converses and none dangles.               *)
THEOREM GraphSymmetric == Spec => []Symmetric
<1>1. GraphInv => Symmetric
  BY SymSymmetric DEF GraphInv, WellFormed
<1> QED BY <1>1, AlwaysGraphInv, PTL

-----------------------------------------------------------------------------
(***************************************************************************)
(* Without exceptions no assertion of the block table fails, for every     *)
(* address range, key width, program and trace.                            *)
(*                                                                         *)
(* The argument: a block's instructions lie at consecutive addresses from  *)
(* its entry address on, and insMap says exactly that.  Then split is      *)
(* right to rewrite insMap by arithmetic, and its search finds the         *)
(* address.  Every block but the current one is closed and not empty, so   *)
(* no edge is ever added to an empty block.                                *)
(***************************************************************************)

(* The addresses of b's instructions. *)
Extent(h, b) == b .. b + Len(h.vecIns[b]) - 1

LaidOut(h) ==
  /\ \A b \in Addr : \A i \in 1 .. Len(h.vecIns[b]) : h.vecIns[b][i] = b + i - 1
  /\ \A s \in Slot, b \in Addr : h.insMap[s] = b <=> s \in Extent(h, b)
  /\ \A b \in Addr \ h.bbMap : h.vecIns[b] = <<>> /\ ~h.readOnly[b]

Sound(h) == WellFormed(h) /\ LaidOut(h) /\ h.fault = "none"

Closed(h, x) == h.readOnly[x] /\ h.vecIns[x] # <<>>

(* b has instructions, and every other block is closed. *)
Shut(h, b) ==
  /\ Sound(h)
  /\ b \in h.bbMap
  /\ h.vecIns[b] # <<>>
  /\ \A x \in h.bbMap \ {b} : Closed(h, x)

(* b is the current block when the record at p is next: every other block  *)
(* is closed, and if b is not, the record at p continues it.               *)
Settled(h, b, p) ==
  /\ Sound(h)
  /\ b \in h.bbMap
  /\ \A x \in h.bbMap \ {b} : Closed(h, x)
  /\ h.readOnly[b] => h.vecIns[b] # <<>>
  /\ ~h.readOnly[b] => /\ p = b + Len(h.vecIns[b])
                       /\ h.vecIns[b] = <<>> => h.insMap[b] = NoBlock

(* The graph members LaidOut is about. *)
Same(n, h) ==
  /\ n.bbMap = h.bbMap /\ n.insMap = h.insMap /\ n.vecIns = h.vecIns
  /\ n.readOnly = h.readOnly /\ n.fault = h.fault

LEMMA SameLaid ==
  ASSUME NEW n, NEW h, Same(n, h), LaidOut(h)
  PROVE  LaidOut(n)
BY DEF Same, LaidOut, Extent

LEMMA AddSuccessorSame ==
  ASSUME NEW h \in Graph, NEW b \in Addr, NEW c \in Addr, h.vecIns[b] # <<>>
  PROVE  Same(AddSuccessor(h, b, c), h)
<1>1. CASE c \in h.succs[b]
  BY <1>1 DEF AddSuccessor, Same
<1>2. CASE c \notin h.succs[b]
  <2>1. AddsSuccessor(AddSuccessor(h, b, c), h, b, c)
    BY <1>2, AddSuccessorFields DEF IsEmpty
  <2> QED BY <2>1 DEF AddsSuccessor, Same
<1> QED BY <1>1, <1>2

LEMMA LenFacts ==
  ASSUME NEW h \in Graph, NEW b \in Addr
  PROVE  /\ Len(h.vecIns[b]) \in Nat
         /\ h.vecIns[b] \in Seq(Addr)
         /\ h.vecIns[b] # <<>> <=> Len(h.vecIns[b]) > 0
<1>1. h.vecIns[b] \in Seq(Addr)
  BY DEF Graph
<1> QED BY <1>1

(* What split changes, member by member. *)
Splits(n, h, b, a, k) ==
  /\ n.bbMap = h.bbMap \cup {a} /\ n.fault = h.fault
  /\ n.insMap = [s \in Slot |-> IF s \in b + k - 1 .. b + Len(h.vecIns[b]) - 1
                                THEN a ELSE h.insMap[s]]
  /\ n.vecIns = [h.vecIns EXCEPT ![a] = SubSeq(h.vecIns[b], k, Len(h.vecIns[b])),
                                 ![b] = SubSeq(h.vecIns[b], 1, k - 1)]
  /\ n.readOnly = [h.readOnly EXCEPT ![a] = TRUE, ![b] = TRUE]

LEMMA SplitFields ==
  ASSUME NEW h, NEW b, NEW a
  PROVE  Splits(Split(h, b, a), h, b, a, Offset(h, b, a))
BY DEF Split, Splits, SplitInsMap

LEMMA ExtentInsns ==
  ASSUME NEW h \in Graph, LaidOut(h), NEW b \in Addr, NEW a \in Extent(h, b)
  PROVE  /\ a \in Insns(h, b)
         /\ Offset(h, b, a) = a - b + 1
<1> DEFINE k == a - b + 1
<1>1. b \in Nat /\ Len(h.vecIns[b]) \in Nat /\ a \in Int
  BY AddrFacts, LenFacts DEF Extent
<1>2. k \in 1 .. Len(h.vecIns[b])
  BY <1>1 DEF Extent
<1>3. b + k - 1 = a
  BY <1>1
<1> HIDE DEF k
<1>4. h.vecIns[b][k] = a
  BY <1>2, <1>3 DEF LaidOut
<1>5. a \in Insns(h, b)
  BY <1>2, <1>4 DEF Insns
<1>6. /\ Offset(h, b, a) \in 1 .. Len(h.vecIns[b])
      /\ h.vecIns[b][Offset(h, b, a)] = a
  BY <1>5, OffsetFound
<1>7. h.vecIns[b][Offset(h, b, a)] = b + Offset(h, b, a) - 1
  BY <1>6 DEF LaidOut
<1> QED BY <1>1, <1>5, <1>6, <1>7

LEMMA SplitLaid ==
  ASSUME NEW h, WellFormed(h), LaidOut(h), NEW b \in h.bbMap, NEW a \in Addr,
         a \notin h.bbMap, a \in Extent(h, b), NEW n, n = Split(h, b, a)
  PROVE  /\ LaidOut(n)
         /\ Closed(n, a) /\ Closed(n, b)
         /\ \A x \in Addr \ {a, b} : /\ n.vecIns[x] = h.vecIns[x]
                                    /\ n.readOnly[x] = h.readOnly[x]
         /\ n.fault = h.fault
<1> DEFINE k == a - b + 1
           T == SubSeq(h.vecIns[b], k, Len(h.vecIns[b]))
           H == SubSeq(h.vecIns[b], 1, k - 1)
           l == Len(h.vecIns[b])
<1>1. /\ h \in Graph /\ b \in Addr /\ a # b
      /\ h.vecIns \in [Addr -> Seq(Addr)] /\ h.readOnly \in [Addr -> BOOLEAN]
  BY DEF WellFormed, Graph
<1>2. a \in Nat /\ b \in Nat /\ l \in Nat /\ h.vecIns[b] \in Seq(Addr)
  BY <1>1, AddrFacts, LenFacts
<1>3. k \in 2 .. l
  BY <1>1, <1>2 DEF Extent
<1>4. Splits(n, h, b, a, k)
  BY <1>1, ExtentInsns, SplitFields
<1>5. /\ H \in Seq(Addr) /\ Len(H) = k - 1
      /\ \A i \in 1 .. k - 1 : H[i] = h.vecIns[b][i]
      /\ T \in Seq(Addr) /\ Len(T) = l - k + 1
      /\ \A i \in 1 .. l - k + 1 : T[i] = h.vecIns[b][k + i - 1]
  BY <1>2, <1>3
<1>6. n.vecIns[a] = T /\ n.vecIns[b] = H
      /\ n.readOnly[a] = TRUE /\ n.readOnly[b] = TRUE
      /\ \A x \in Addr \ {a, b} : /\ n.vecIns[x] = h.vecIns[x]
                                 /\ n.readOnly[x] = h.readOnly[x]
  BY <1>1, <1>4 DEF Splits
<1> HIDE DEF T, H
<1>7. T # <<>> /\ H # <<>>
  BY <1>2, <1>3, <1>5
<1>8. a = b + k - 1 /\ k \in Nat
  BY <1>2, <1>3
<1> HIDE DEF k
<1>9. ASSUME NEW x \in Addr, NEW i \in 1 .. Len(n.vecIns[x])
      PROVE  n.vecIns[x][i] = x + i - 1
  <2>1. CASE x = a
    <3>1. i \in 1 .. l - k + 1 /\ k + i - 1 \in 1 .. l
      BY <1>2, <1>3, <1>5, <1>6, <1>9, <2>1
    <3>2. n.vecIns[x][i] = h.vecIns[b][k + i - 1]
      BY <1>5, <1>6, <2>1, <3>1
    <3>3. h.vecIns[b][k + i - 1] = b + (k + i - 1) - 1
      BY <1>1, <3>1 DEF LaidOut
    <3> QED BY <1>2, <1>8, <2>1, <3>1, <3>2, <3>3
  <2>2. CASE x = b
    <3>1. i \in 1 .. k - 1 /\ i \in 1 .. l
      BY SMTT(30), <1>2, <1>3, <1>5, <1>6, <1>9, <2>2
    <3>2. h.vecIns[b][i] = b + i - 1
      BY <1>1, <3>1 DEF LaidOut
    <3> QED BY <1>5, <1>6, <2>2, <3>1, <3>2
  <2>3. CASE x # a /\ x # b
    BY <1>6, <1>9, <2>3 DEF LaidOut
  <2> QED BY <2>1, <2>2, <2>3
<1>10. ASSUME NEW s \in Slot, NEW x \in Addr
       PROVE  n.insMap[s] = x <=> s \in Extent(n, x)
  <2>1. n.insMap[s] = IF s \in b + k - 1 .. b + l - 1 THEN a ELSE h.insMap[s]
    BY <1>4 DEF Splits
  <2>2. h.insMap[s] = x <=> s \in Extent(h, x)
    BY DEF LaidOut
  <2>3. h.insMap[s] = b <=> s \in b .. b + l - 1
    BY <1>1 DEF LaidOut, Extent
  <2>4. s \in Int /\ x \in Nat
    BY AddrFacts, AddrAssumption DEF Slot
  <2>5. CASE x = a
    <3>1. Extent(n, a) = b + k - 1 .. b + l - 1
      <4>1. Len(n.vecIns[a]) = l - k + 1
        BY <1>5, <1>6
      <4> HIDE DEF l
      <4>2. a + (l - k + 1) - 1 = b + l - 1
        BY <1>2, <1>8
      <4> QED BY <1>8, <4>1, <4>2 DEF Extent
    <3>2. h.insMap[s] # a
      <4>1. h.vecIns[a] = <<>>
        BY DEF LaidOut
      <4>2. s \notin Extent(h, a)
        BY <1>2, <2>4, <4>1 DEF Extent
      <4> QED BY <2>2, <2>5, <4>2
    <3> QED BY <2>1, <2>5, <3>1, <3>2
  <2>6. CASE x = b
    <3>1. Len(n.vecIns[b]) = k - 1
      BY <1>5, <1>6
    <3>2. s \in Extent(n, b) <=> b <= s /\ s < b + k - 1
      BY SMTT(30), <1>2, <1>8, <2>4, <3>1 DEF Extent
    <3>3. s \in b + k - 1 .. b + l - 1 <=> b + k - 1 <= s /\ s <= b + l - 1
      BY <1>2, <1>8, <2>4
    <3>4. h.insMap[s] = b <=> b <= s /\ s <= b + l - 1
      BY <1>2, <2>3, <2>4
    <3>5. k <= l
      BY <1>2, <1>3
    <3> HIDE DEF l
    <3> QED BY <1>1, <1>2, <1>8, <2>1, <2>4, <2>6, <3>2, <3>3, <3>4, <3>5
  <2>7. CASE x # a /\ x # b
    <3>1. Extent(n, x) = Extent(h, x)
      BY <1>6, <2>7 DEF Extent
    <3>2. s \in b + k - 1 .. b + l - 1 => h.insMap[s] = b
      BY <1>2, <1>3, <2>3, <2>4
    <3> QED BY <1>1, <2>1, <2>2, <2>7, <3>1, <3>2
  <2> QED BY <2>5, <2>6, <2>7
<1>11. ASSUME NEW x \in Addr \ n.bbMap
       PROVE  n.vecIns[x] = <<>> /\ ~n.readOnly[x]
  <2>1. x \notin h.bbMap /\ x # a /\ x # b
    BY <1>4 DEF Splits
  <2> QED BY <1>6, <2>1 DEF LaidOut
<1>12. LaidOut(n)
  BY SMTT(30), <1>9, <1>10, <1>11 DEF LaidOut
<1> QED BY <1>4, <1>6, <1>7, <1>12 DEF Closed, Splits

LEMMA AddInsLaid ==
  ASSUME NEW h, WellFormed(h), LaidOut(h), NEW b \in h.bbMap, ~h.readOnly[b],
         NEW a \in Addr, a = b + Len(h.vecIns[b]), h.insMap[a] = NoBlock,
         NEW n, n = AddIns(h, b, a)
  PROVE  /\ LaidOut(n)
         /\ n.bbMap = h.bbMap /\ n.readOnly = h.readOnly /\ n.fault = h.fault
         /\ n.vecIns[b] # <<>> /\ Len(n.vecIns[b]) = Len(h.vecIns[b]) + 1
         /\ \A x \in Addr \ {b} : n.vecIns[x] = h.vecIns[x]
<1> DEFINE l == Len(h.vecIns[b])
<1>1. /\ h \in Graph /\ b \in Addr /\ a \in Slot
      /\ h.vecIns \in [Addr -> Seq(Addr)] /\ h.vecIns[b] \in Seq(Addr)
      /\ h.insMap \in [Slot -> Addr \cup {NoBlock}]
  BY SMTT(30), AddrFacts DEF WellFormed, Graph
<1>2. l \in Nat /\ b \in Nat /\ a \in Nat
  BY <1>1, AddrFacts, LenFacts
<1>3. AddsIns(n, h, b, a)
  BY <1>1, AddInsFields
<1>4. /\ n.vecIns[b] = Append(h.vecIns[b], a)
      /\ \A x \in Addr \ {b} : n.vecIns[x] = h.vecIns[x]
  BY SMTT(30), <1>1, <1>3 DEF AddsIns
<1>5. /\ Len(n.vecIns[b]) = l + 1 /\ n.vecIns[b][l + 1] = a
      /\ \A i \in 1 .. l : n.vecIns[b][i] = h.vecIns[b][i]
      /\ n.vecIns[b] # <<>>
  BY SMTT(30), <1>1, <1>4
<1>6. ASSUME NEW x \in Addr, NEW i \in 1 .. Len(n.vecIns[x])
      PROVE  n.vecIns[x][i] = x + i - 1
  <2>1. CASE x = b /\ i = l + 1
    BY <1>2, <1>5, <2>1
  <2>2. CASE x = b /\ i # l + 1
    <3>1. i \in 1 .. l
      BY SMTT(30), <1>2, <1>5, <1>6, <2>2
    <3> QED BY <1>5, <2>2, <3>1 DEF LaidOut
  <2>3. CASE x # b
    BY <1>4, <1>6, <2>3 DEF LaidOut
  <2> QED BY <2>1, <2>2, <2>3
<1>7. ASSUME NEW s \in Slot, NEW x \in Addr
      PROVE  n.insMap[s] = x <=> s \in Extent(n, x)
  <2>1. n.insMap[s] = IF s = a THEN b ELSE h.insMap[s]
    BY <1>1, <1>3 DEF AddsIns
  <2>2. /\ h.insMap[s] = x <=> s \in Extent(h, x)
        /\ h.insMap[a] = x <=> a \in Extent(h, x)
    BY <1>1 DEF LaidOut
  <2>3. s \in Int /\ x \in Nat /\ x # NoBlock
    BY AddrFacts, AddrAssumption DEF Slot
  <2>4. CASE x = b
    <3>1. s \in Extent(n, b) <=> b <= s /\ s <= b + l
      <4>1. Len(n.vecIns[b]) = l + 1
        BY <1>5
      <4> HIDE DEF l
      <4>2. b + (l + 1) - 1 = b + l
        BY <1>2
      <4> QED BY <1>2, <2>3, <4>1, <4>2 DEF Extent
    <3>2. s \in Extent(h, b) <=> b <= s /\ s <= b + l - 1
      BY <1>2, <2>3 DEF Extent
    <3> HIDE DEF l
    <3>3. a = b + l
      BY DEF l
    <3>4. s \in Extent(n, b) <=> s \in Extent(h, b) \/ s = a
      BY <1>2, <2>3, <3>1, <3>2, <3>3
    <3> QED BY <2>1, <2>2, <2>4, <3>4
  <2>5. CASE x # b
    <3>1. Extent(n, x) = Extent(h, x)
      BY <1>4, <2>5 DEF Extent
    <3> QED BY <2>1, <2>2, <2>3, <2>5, <3>1
  <2> QED BY <2>4, <2>5
<1>8. ASSUME NEW x \in Addr \ n.bbMap
      PROVE  n.vecIns[x] = <<>> /\ ~n.readOnly[x]
  <2>1. x \notin h.bbMap /\ x # b
    BY <1>3 DEF AddsIns
  <2> QED BY <1>3, <1>4, <2>1 DEF LaidOut, AddsIns
<1>9. LaidOut(n)
  BY <1>6, <1>7, <1>8 DEF LaidOut
<1> QED BY <1>3, <1>4, <1>5, <1>9 DEF AddsIns

LEMMA NewBlockLaid ==
  ASSUME NEW h, Sound(h), NEW b \in h.bbMap, h.vecIns[b] # <<>>,
         NEW a \in Addr, a \notin h.bbMap, NEW n, n = NewBlock(h, a, b)
  PROVE  /\ Sound(n)
         /\ n.bbMap = h.bbMap \cup {a} /\ n.insMap = h.insMap
         /\ n.vecIns = h.vecIns /\ n.readOnly = h.readOnly
<1> DEFINE m == Construct(h, a)
<1>1. h \in Graph /\ b \in Addr /\ LaidOut(h) /\ WellFormed(h)
  BY DEF Sound, WellFormed, Graph
<1>2. /\ m.bbMap = h.bbMap \cup {a} /\ m.insMap = h.insMap
      /\ m.vecIns = h.vecIns /\ m.readOnly = h.readOnly /\ m.fault = h.fault
  BY <1>1 DEF Construct, Graph
<1>3. WellFormed(m)
  BY <1>1, ConstructWF
<1> HIDE DEF m
<1>4. LaidOut(m)
  BY <1>1, <1>2 DEF LaidOut, Extent
<1>5. m \in Graph
  BY <1>3 DEF WellFormed
<1>6. Same(AddSuccessor(m, b, a), m)
  BY <1>1, <1>2, <1>5, AddSuccessorSame
<1>7. n = AddSuccessor(m, b, a)
  BY DEF NewBlock, m
<1>8. WellFormed(n)
  BY <1>1, NewBlockWF
<1>9. LaidOut(n)
  BY <1>4, <1>6, <1>7, SameLaid
<1> QED BY <1>2, <1>6, <1>7, <1>8, <1>9 DEF Sound, Same

(* a block that has just been constructed at a *)
Fresh(h, x, a) ==
  x = a /\ h.vecIns[x] = <<>> /\ ~h.readOnly[x] /\ h.insMap[x] = NoBlock

(* What r, the result of going from block b to address a, is like. *)
Reached(r, b, a) ==
  /\ Sound(r.graph)
  /\ b \in r.graph.bbMap /\ r.graph.vecIns[b] # <<>>
  /\ r.blk \in r.graph.bbMap
  /\ \A x \in r.graph.bbMap \ {b} :
       Closed(r.graph, x) \/ (x = r.blk /\ Fresh(r.graph, x, a))

LEMMA SuccessorReached ==
  ASSUME NEW h, NEW b, Shut(h, b), NEW a \in Addr, NEW s, s = Successor(h, b, a)
  PROVE  /\ Reached(s, b, a)
         /\ h.readOnly[b] => s.graph.readOnly[b]
         /\ h.insMap[a] # NoBlock => s.graph.insMap[a] # NoBlock
<1> DEFINE hit == {x \in h.succsMap[b] : Key(x) = Key(a)}
           own == BbInBlock(h, a)
           f   == FindBlock(h, b, a)
<1>1. /\ Sound(h) /\ WellFormed(h) /\ LaidOut(h) /\ h.fault = "none"
      /\ h \in Graph /\ b \in h.bbMap /\ b \in Addr /\ a \in Slot
      /\ h.bbMap \subseteq Addr /\ h.vecIns[b] # <<>>
      /\ \A x \in h.bbMap \ {b} : Closed(h, x)
  BY AddrFacts DEF Shut, Sound, WellFormed, Graph
<1>2. CASE hit # {}
  <2> DEFINE c == CHOOSE x \in hit : TRUE
  <2>1. f = [blk |-> c, graph |-> h]
    BY <1>2 DEF FindBlock
  <2>2. c \in h.bbMap
    BY <1>1, <1>2 DEF WellFormed, MapsIn
  <2> HIDE DEF c, f
  <2>3. c # NoBlock
    BY <1>1, <2>2, AddrFacts
  <2>4. s.blk = c /\ s.graph = h
    <3>1. s = [blk |-> c, graph |-> h]
      BY <2>1, <2>3 DEF Successor, f
    <3> QED BY <3>1
  <2> QED BY <1>1, <2>2, <2>4 DEF Reached
<1>3. CASE hit = {} /\ a \in h.bbMap
  <2> DEFINE n == AddSuccessor(h, b, a)
  <2>1. f = [blk |-> a, graph |-> n]
    BY <1>3 DEF FindBlock
  <2>2. WellFormed(n) /\ Same(n, h)
    BY <1>1, <1>3, AddSuccessorWF, AddSuccessorSame
  <2> HIDE DEF n, f
  <2>3. LaidOut(n)
    BY <1>1, <2>2, SameLaid
  <2>4. s.blk = a /\ s.graph = n
    <3>1. s = [blk |-> a, graph |-> n]
      BY <2>1, AddrFacts DEF Successor, f
    <3> QED BY <3>1
  <2>5. Sound(n)
    BY <1>1, <2>2, <2>3 DEF Sound, Same
  <2>6. \A x \in n.bbMap \ {b} : Closed(n, x)
    BY <1>1, <2>2 DEF Same, Closed
  <2> QED BY <1>1, <1>3, <2>2, <2>4, <2>5, <2>6 DEF Reached, Same
<1>4. CASE hit = {} /\ a \notin h.bbMap /\ own # NoBlock
  <2> DEFINE m == Split(h, own, a)
             n == AddSuccessor(m, b, a)
  <2>1. own \in h.bbMap /\ own \in Addr
    BY <1>1, <1>4 DEF BbInBlock, WellFormed, MapsIn
  <2>2. a \in Extent(h, own)
    BY <1>1, <2>1 DEF LaidOut, BbInBlock
  <2>3. a \in Insns(h, own)
    BY <1>1, <2>1, <2>2, ExtentInsns
  <2>4. f = [blk |-> a, graph |-> n]
    BY <1>4, <2>3 DEF FindBlock
  <2> HIDE DEF own, hit
  <2>5. /\ LaidOut(m) /\ Closed(m, a) /\ Closed(m, own) /\ m.fault = h.fault
        /\ \A x \in Addr \ {a, own} : /\ m.vecIns[x] = h.vecIns[x]
                                     /\ m.readOnly[x] = h.readOnly[x]
    BY <1>1, <1>4, <2>1, <2>2, SplitLaid
  <2>6. WellFormed(m) /\ m.bbMap = h.bbMap \cup {a}
    BY <1>1, <1>4, <2>1, <2>3, SplitWF
  <2> HIDE DEF m
  <2>7. \A x \in m.bbMap \ {b} : Closed(m, x)
    <3> SUFFICES ASSUME NEW x \in m.bbMap \ {b} PROVE Closed(m, x)
      OBVIOUS
    <3>1. CASE x = a \/ x = own
      BY <2>5, <3>1
    <3>2. CASE x # a /\ x # own
      BY <1>1, <2>5, <2>6, <3>2 DEF Closed
    <3> QED BY <3>1, <3>2
  <2>8. m.vecIns[b] # <<>> /\ (h.readOnly[b] => m.readOnly[b])
    BY <1>1, <1>4, <2>5 DEF Closed
  <2>9. m \in Graph /\ b \in m.bbMap /\ a \in m.bbMap
    BY <1>1, <2>6 DEF WellFormed
  <2>10. WellFormed(n) /\ Same(n, m)
    BY <1>1, <2>6, <2>8, <2>9, AddSuccessorWF, AddSuccessorSame
  <2> HIDE DEF n, f
  <2>11. LaidOut(n)
    BY <2>5, <2>10, SameLaid
  <2>12. Sound(n)
    BY <1>1, <2>5, <2>10, <2>11 DEF Sound, Same
  <2>13. s.blk = a /\ s.graph = n
    <3>1. s = [blk |-> a, graph |-> n]
      BY <2>4, AddrFacts DEF Successor, f
    <3> QED BY <3>1
  <2>14. \A x \in n.bbMap \ {b} : Closed(n, x)
    BY <2>7, <2>10 DEF Same, Closed
  <2>15. m.insMap[a] # NoBlock
    <3>1. a \in Extent(m, a)
      BY <2>5, <2>9, LenFacts, AddrFacts DEF Extent, Closed
    <3> QED BY <1>1, <2>5, <3>1, AddrFacts DEF LaidOut
  <2> QED BY <2>8, <2>9, <2>10, <2>12, <2>13, <2>14, <2>15 DEF Reached, Same
<1>5. CASE hit = {} /\ a \notin h.bbMap /\ own = NoBlock
  <2> DEFINE n == NewBlock(h, a, b)
  <2>1. f = [blk |-> NoBlock, graph |-> h]
    BY <1>5 DEF FindBlock
  <2>2. s.blk = a /\ s.graph = n
    <3>1. s = [blk |-> a, graph |-> n]
      BY <2>1 DEF Successor
    <3> QED BY <3>1
  <2>3. /\ Sound(n) /\ n.bbMap = h.bbMap \cup {a} /\ n.insMap = h.insMap
        /\ n.vecIns = h.vecIns /\ n.readOnly = h.readOnly
    BY <1>1, <1>5, NewBlockLaid
  <2> HIDE DEF n
  <2>4. Fresh(n, a, a)
    BY <1>1, <1>5, <2>3 DEF Fresh, LaidOut, BbInBlock
  <2>5. \A x \in n.bbMap \ {b} : Closed(n, x) \/ (x = a /\ Fresh(n, x, a))
    BY <1>1, <2>3, <2>4 DEF Closed
  <2> QED BY <1>1, <2>2, <2>3, <2>5 DEF Reached
<1> QED BY <1>2, <1>3, <1>4, <1>5

LEMMA SetTermAddrSound ==
  ASSUME NEW h, Sound(h), NEW b \in Addr, NEW a \in Nat,
         NEW n, n = SetTermAddr(h, b, a)
  PROVE  Sound(n) /\ Same(n, h)
<1>1. WellFormed(n)
  BY SetTermAddrWF DEF Sound
<1>2. Same(n, h)
  BY DEF SetTermAddr, Same, Sound, WellFormed, Graph
<1>3. LaidOut(n)
  BY <1>2, SameLaid DEF Sound
<1> QED BY <1>1, <1>2, <1>3 DEF Sound, Same

LEMMA SetReadOnlySound ==
  ASSUME NEW h, Sound(h), NEW b \in h.bbMap, NEW n, n = SetReadOnly(h, b)
  PROVE  /\ Sound(n)
         /\ n.bbMap = h.bbMap /\ n.insMap = h.insMap /\ n.vecIns = h.vecIns
         /\ n.readOnly[b]
         /\ \A x \in Addr \ {b} : n.readOnly[x] = h.readOnly[x]
<1>1. h \in Graph /\ b \in Addr
  BY DEF Sound, WellFormed, Graph
<1>2. WellFormed(n)
  BY <1>1, SetReadOnlyWF DEF Sound
<1>3. /\ n.bbMap = h.bbMap /\ n.insMap = h.insMap /\ n.vecIns = h.vecIns
      /\ n.fault = h.fault /\ n.readOnly = [h.readOnly EXCEPT ![b] = TRUE]
  BY <1>1 DEF SetReadOnly, Graph
<1>4. n.readOnly[b] /\ \A x \in Addr \ {b} : n.readOnly[x] = h.readOnly[x]
  BY <1>1, <1>3 DEF Graph
<1>5. LaidOut(n)
  BY <1>3, <1>4 DEF Sound, LaidOut, Extent
<1> QED BY <1>2, <1>3, <1>4, <1>5 DEF Sound

(* Going on in r.blk after b has been closed. *)
LEMMA SettleClosed ==
  ASSUME NEW r, NEW b, NEW a \in Addr, Reached(r, b, a), r.graph.readOnly[b]
  PROVE  Settled(r.graph, r.blk, a)
<1> DEFINE h == r.graph
<1>1. \A x \in h.bbMap : Closed(h, x) \/ (x = r.blk /\ Fresh(h, x, a))
  BY DEF Reached, Closed
<1>2. r.blk \in h.bbMap /\ Sound(h)
  BY DEF Reached
<1> HIDE DEF h
<1>3. \A x \in h.bbMap \ {r.blk} : Closed(h, x)
  BY <1>1
<1>4. h.readOnly[r.blk] => h.vecIns[r.blk] # <<>>
  BY <1>1, <1>2 DEF Closed, Fresh
<1>5. ASSUME ~h.readOnly[r.blk]
      PROVE  /\ a = r.blk + Len(h.vecIns[r.blk])
             /\ h.insMap[r.blk] = NoBlock
  <2>1. Fresh(h, r.blk, a)
    BY <1>1, <1>2, <1>5 DEF Closed
  <2>2. Len(h.vecIns[r.blk]) = 0
    BY <2>1 DEF Fresh
  <2> QED BY <2>1, <2>2, AddrFacts DEF Fresh
<1> QED BY <1>2, <1>3, <1>4, <1>5 DEF Settled, h

LEMMA GetNextBlockSettled ==
  ASSUME NEW h, NEW b, Shut(h, b), NEW a \in Addr, NEW t, t = GetNextBlock(h, b, a)
  PROVE  /\ Settled(t.graph, t.blk, a)
         /\ h.insMap[a] # NoBlock => t.graph.readOnly[t.blk]
<1> DEFINE s == Successor(h, b, a)
           n == SetReadOnly(s.graph, b)
<1>1. Reached(s, b, a) /\ (h.insMap[a] # NoBlock => s.graph.insMap[a] # NoBlock)
  BY SuccessorReached
<1>2. t = [blk |-> s.blk, graph |-> n]
  BY DEF GetNextBlock
<1> HIDE DEF s
<1>3. /\ Sound(n)
      /\ n.bbMap = s.graph.bbMap /\ n.insMap = s.graph.insMap
      /\ n.vecIns = s.graph.vecIns
      /\ n.readOnly[b]
      /\ \A x \in Addr \ {b} : n.readOnly[x] = s.graph.readOnly[x]
  BY <1>1, SetReadOnlySound DEF Reached
<1> HIDE DEF n
<1>4. t.blk = s.blk /\ t.graph = n
  BY <1>2
<1>5. n.bbMap \subseteq Addr
  BY <1>3 DEF Sound, WellFormed, Graph
<1>6. \A x \in n.bbMap \ {b} : Closed(n, x) \/ (x = s.blk /\ Fresh(n, x, a))
  BY <1>1, <1>3, <1>5 DEF Reached, Closed, Fresh
<1>7. Reached(t, b, a)
  BY <1>1, <1>3, <1>4, <1>6 DEF Reached
<1>8. Settled(t.graph, t.blk, a)
  BY <1>3, <1>4, <1>7, SettleClosed
<1>9. ASSUME h.insMap[a] # NoBlock PROVE n.readOnly[s.blk]
  BY <1>1, <1>3, <1>6, <1>9 DEF Reached, Closed, Fresh
<1> QED BY <1>4, <1>8, <1>9

-----------------------------------------------------------------------------
(* translateRiscv, first in a closed block, then in the open one.          *)
LEMMA SettledShut ==
  ASSUME NEW h, NEW b, NEW p, Settled(h, b, p), h.vecIns[b] # <<>>
  PROVE  Shut(h, b)
BY DEF Settled, Shut

LEMMA TranslateClosed ==
  ASSUME NEW h, NEW b, Settled(h, b, pc), h.readOnly[b], pc \in Addr,
         NEW npc \in Addr, NEW t, t = TranslateRiscv(h, b, npc)
  PROVE  Settled(t.graph, t.blk, npc)
<1> DEFINE m == SetTermAddr(h, b, pc)
<1>1. AddIns(h, b, pc) = h
  BY DEF AddIns
<1>2. Sound(h) /\ b \in Addr /\ pc \in Nat /\ h.vecIns[b] # <<>>
  BY AddrFacts DEF Settled, Sound, WellFormed, Graph
<1>3. CASE EndsBlock(code[pc])
  <2>1. Sound(m) /\ Same(m, h)
    BY <1>2, SetTermAddrSound
  <2>2. t = GetNextBlock(m, b, npc)
    BY <1>1, <1>3 DEF TranslateRiscv
  <2> HIDE DEF m
  <2>3. Shut(m, b)
    BY <1>2, <2>1 DEF Settled, Shut, Same, Closed
  <2> QED BY <2>2, <2>3, GetNextBlockSettled
<1>4. CASE ~EndsBlock(code[pc])
  <2>1. t = [blk |-> b, graph |-> h]
    BY <1>1, <1>4 DEF TranslateRiscv
  <2>2. t.blk = b /\ t.graph = h
    BY <2>1
  <2> QED BY <2>2 DEF Settled
<1> QED BY <1>3, <1>4

LEMMA TranslateOpen ==
  ASSUME ~Traps, code \in [Addr -> Class], pc \in Addr,
         NEW h, NEW b, Settled(h, b, pc), ~h.readOnly[b], h.insMap[pc] = NoBlock,
         NEW npc \in NextPcs(pc), NEW t, t = TranslateRiscv(h, b, npc)
  PROVE  Settled(t.graph, t.blk, npc)
<1> DEFINE n == AddIns(h, b, pc)
           m == SetTermAddr(n, b, pc)
<1>1. /\ Sound(h) /\ WellFormed(h) /\ LaidOut(h) /\ b \in h.bbMap /\ b \in Addr
      /\ h \in Graph /\ h.bbMap \subseteq Addr /\ h.fault = "none"
      /\ \A x \in h.bbMap \ {b} : Closed(h, x)
      /\ pc = b + Len(h.vecIns[b])
  BY DEF Settled, Sound, WellFormed, Graph
<1>2. /\ LaidOut(n)
      /\ n.bbMap = h.bbMap /\ n.readOnly = h.readOnly /\ n.fault = h.fault
      /\ n.vecIns[b] # <<>> /\ Len(n.vecIns[b]) = Len(h.vecIns[b]) + 1
      /\ \A x \in Addr \ {b} : n.vecIns[x] = h.vecIns[x]
  <2>1. n = AddIns(h, b, pc)
    OBVIOUS
  <2> HIDE DEF n
  <2> QED BY SMTT(30), <1>1, <2>1, AddInsLaid
<1>3. WellFormed(n)
  BY <1>1, AddInsWF
<1>4. npc \in Addr /\ pc \in Nat
  BY AddrFacts DEF NextPcs
<1>5. t = IF EndsBlock(code[pc]) THEN GetNextBlock(m, b, npc)
          ELSE [blk |-> b, graph |-> n]
  BY DEF TranslateRiscv
<1> HIDE DEF n
<1>6. Sound(n) /\ \A x \in n.bbMap \ {b} : Closed(n, x)
  BY <1>1, <1>2, <1>3 DEF Sound, Closed
<1>7. CASE EndsBlock(code[pc])
  <2>1. Sound(m) /\ Same(m, n)
    BY <1>1, <1>4, <1>6, SetTermAddrSound
  <2> HIDE DEF m
  <2>2. Shut(m, b)
    BY <1>1, <1>2, <1>6, <2>1 DEF Shut, Same, Closed
  <2> QED BY <1>4, <1>5, <1>7, <2>2, GetNextBlockSettled
<1>8. CASE ~EndsBlock(code[pc])
  <2>1. npc = pc + 1
    BY <1>8 DEF EndsBlock, Class, NextPcs
  <2>2. Len(h.vecIns[b]) \in Nat /\ b \in Nat
    BY <1>1, LenFacts, AddrFacts
  <2>3. npc = b + Len(n.vecIns[b])
    BY <1>1, <1>2, <2>1, <2>2
  <2>4. t.blk = b /\ t.graph = n
    BY <1>5, <1>8
  <2> QED BY <1>1, <1>2, <1>6, <2>3, <2>4 DEF Settled
<1> QED BY <1>7, <1>8

-----------------------------------------------------------------------------
(* The inductive invariant behind ReplayNeverAborts and InsMapIsExact.     *)
ReplayInv == GraphInv /\ Settled(g, cBB, pc)

LEMMA InitReplayInv == Init => ReplayInv
<1> SUFFICES ASSUME Init PROVE ReplayInv
  OBVIOUS
<1>1. GraphInv /\ pc \in Addr /\ cBB = pc /\ pc \in g.bbMap
  BY InitGraphInv DEF Init, GraphInv
<1>2. /\ g.bbMap = {pc} /\ g.insMap = [s \in Slot |-> NoBlock]
      /\ g.vecIns = [a \in Addr |-> <<>>] /\ g.fault = "none"
      /\ g.readOnly = [a \in Addr |-> FALSE]
  BY DEF Init, Construct, EmptyGraph
<1>3. \A s \in Slot, b \in Addr : s \notin Extent(g, b)
  <2> SUFFICES ASSUME NEW s \in Slot, NEW b \in Addr PROVE s \notin Extent(g, b)
    OBVIOUS
  <2>1. Len(g.vecIns[b]) = 0
    BY <1>2
  <2> QED BY <2>1, AddrFacts DEF Extent
<1>4. LaidOut(g)
  BY <1>2, <1>3, AddrFacts DEF LaidOut
<1>5. Sound(g)
  BY <1>1, <1>2, <1>4 DEF Sound, GraphInv
<1>6. pc = pc + Len(g.vecIns[pc]) /\ g.insMap[pc] = NoBlock
  <2>1. Len(g.vecIns[pc]) = 0
    BY <1>1, <1>2
  <2> QED BY <1>1, <1>2, <2>1, AddrFacts
<1> QED BY <1>1, <1>2, <1>5, <1>6 DEF ReplayInv, Settled

LEMMA ResyncSettled ==
  ASSUME ReplayInv
  PROVE  /\ g.readOnly[Resync] => Shut(g, Resync) /\ Settled(g, Resync, pc)
         /\ ~g.readOnly[Resync] => Resync = cBB
<1>1. Resync \in g.bbMap
  BY ResyncWF DEF ReplayInv
<1>2. \A x \in g.bbMap \ {cBB} : Closed(g, x)
  BY DEF ReplayInv, Settled
<1>3. CASE Resync = cBB
  BY <1>3, SettledShut DEF ReplayInv, Settled
<1>4. CASE Resync # cBB
  <2>1. g.readOnly[cBB]
    BY <1>4 DEF Resync
  <2>2. Closed(g, Resync) /\ Closed(g, cBB)
    BY <1>1, <1>2, <1>4, <2>1 DEF ReplayInv, Settled, Closed
  <2>3. \A x \in g.bbMap : Closed(g, x)
    BY <1>2, <2>2
  <2>4. Sound(g)
    BY DEF ReplayInv, Settled
  <2> QED BY <1>1, <2>2, <2>3, <2>4 DEF Shut, Settled, Closed
<1> QED BY <1>3, <1>4

LEMMA JoinSettled ==
  ASSUME ~Traps, ReplayInv, NEW npc \in NextPcs(pc), Join(npc)
  PROVE  Settled(g', cBB', npc)
<1> DEFINE b == Resync
           m == SetTermAddr(g, b, LastPc(g, b))
           s == GetNextBlock(m, b, pc)
           t == TranslateRiscv(s.graph, s.blk, npc)
<1>1. /\ b = cBB /\ ~g.readOnly[b] /\ g.insMap[pc] # NoBlock
      /\ Settled(g, b, pc) /\ Sound(g) /\ b \in Addr
  BY SMTT(30), ResyncSettled DEF Join, BbInBlock, ReplayInv, Settled, Sound, WellFormed, Graph
<1>2. pc \in Addr /\ npc \in Addr
  BY DEF ReplayInv, GraphInv, TypeOK, NextPcs
<1>3. ~IsEmpty(g, b)
  <2> SUFFICES ASSUME IsEmpty(g, b) PROVE FALSE
    OBVIOUS
  <2>1. g.vecIns[b] = <<>> /\ Len(g.vecIns[b]) = 0
    BY DEF IsEmpty
  <2>2. pc = b
    BY <1>1, <2>1, AddrFacts DEF Settled
  <2> QED BY <1>1, <2>1, <2>2 DEF Settled
<1>4. (cBB' = s.blk /\ g' = s.graph /\ s.graph.fault # "none")
      \/ (cBB' = t.blk /\ g' = t.graph)
  BY <1>3 DEF Join, Become
<1> HIDE DEF b
<1>5. LastPc(g, b) \in Nat
  <2>1. g.vecIns[b] \in Seq(Addr) /\ g.vecIns[b] # <<>>
    BY <1>1, <1>3 DEF IsEmpty, Sound, WellFormed, Graph
  <2>2. g.vecIns[b][Len(g.vecIns[b])] \in Addr
    BY <2>1
  <2> QED BY <2>2, AddrFacts DEF LastPc
<1>6. Sound(m) /\ Same(m, g)
  BY <1>1, <1>5, SetTermAddrSound
<1> HIDE DEF m
<1>7. Shut(m, b) /\ m.insMap[pc] # NoBlock
  BY <1>1, <1>3, <1>6 DEF Shut, Same, Settled, IsEmpty, Closed
<1>8. Settled(s.graph, s.blk, pc) /\ s.graph.readOnly[s.blk]
  BY <1>2, <1>7, GetNextBlockSettled
<1> HIDE DEF s
<1>9. Settled(t.graph, t.blk, npc)
  BY <1>2, <1>8, TranslateClosed
<1>10. s.graph.fault = "none"
  BY <1>8 DEF Settled, Sound
<1> HIDE DEF t
<1> QED BY <1>4, <1>9, <1>10

LEMMA RecordSettled ==
  ASSUME ~Traps, ReplayInv, NEW npc \in NextPcs(pc),
         Stay(npc) \/ Leave(npc) \/ Build(npc) \/ Join(npc)
  PROVE  Settled(g', cBB', npc)
<1> DEFINE b == Resync
<1>1. /\ g.readOnly[b] => Shut(g, b) /\ Settled(g, b, pc)
      /\ ~g.readOnly[b] => b = cBB
  BY ResyncSettled
<1>2. npc \in Addr /\ pc \in Addr /\ code \in [Addr -> Class]
  BY DEF ReplayInv, GraphInv, TypeOK, NextPcs
<1>3. CASE Stay(npc)
  <2>1. g.readOnly[b] /\ cBB' = b /\ g' = g
    BY <1>3 DEF Stay, Become
  <2> QED BY <1>1, <2>1 DEF Settled
<1>4. CASE Leave(npc)
  <2> DEFINE s == Successor(g, b, npc)
  <2>1. g.readOnly[b] /\ cBB' = s.blk /\ g' = s.graph
    BY <1>4 DEF Leave, Become
  <2> HIDE DEF b
  <2>2. Reached(s, b, npc) /\ s.graph.readOnly[b]
    BY <1>1, <1>2, <2>1, SuccessorReached
  <2> HIDE DEF s
  <2>3. Settled(s.graph, s.blk, npc)
    BY <1>2, <2>2, SettleClosed
  <2> QED BY <2>1, <2>3
<1>5. CASE Build(npc)
  <2> DEFINE t == TranslateRiscv(g, b, npc)
  <2>1. /\ ~g.readOnly[b] /\ g.insMap[pc] = NoBlock
        /\ cBB' = t.blk /\ g' = t.graph
    BY <1>5 DEF Build, Become, BbInBlock
  <2>2. Settled(g, b, pc)
    BY <1>1, <2>1 DEF ReplayInv
  <2> HIDE DEF b
  <2>3. Settled(t.graph, t.blk, npc)
    BY <1>2, <2>1, <2>2, TranslateOpen
  <2> HIDE DEF t
  <2> QED BY <2>1, <2>3
<1>6. CASE Join(npc)
  BY <1>6, JoinSettled
<1> QED BY <1>3, <1>4, <1>5, <1>6

LEMMA StepReplayInv ==
  ASSUME ~Traps, ReplayInv, [Next]_vars
  PROVE  ReplayInv'
<1>1. GraphInv'
  BY StepGraphInv DEF ReplayInv
<1>2. ASSUME NEW npc \in NextPcs(pc), Step(npc) PROVE Settled(g', cBB', pc')
  <2>1. Settled(g', cBB', npc)
    BY <1>2, RecordSettled DEF Step
  <2> QED BY <1>2, <2>1 DEF Step
<1>3. ASSUME EndTrace PROVE Settled(g', cBB', pc')
  BY <1>3 DEF EndTrace, ReplayInv
<1>4. ASSUME UNCHANGED vars PROVE Settled(g', cBB', pc')
  BY <1>4 DEF vars, ReplayInv
<1>5. Settled(g', cBB', pc')
  BY <1>2, <1>3, <1>4 DEF Next
<1> QED BY <1>1, <1>5 DEF ReplayInv

LEMMA AlwaysReplayInv == ASSUME ~Traps PROVE Spec => []ReplayInv
<1>1. ReplayInv /\ [Next]_vars => ReplayInv'
  BY StepReplayInv
<1> QED BY <1>1, InitReplayInv, PTL DEF Spec

(* When control only leaves the straight line at an instruction that ends  *)
(* a block, no assert of split, fallsThru or vecIns.at fails while the     *)
(* trace is replayed, whatever the program, the trace and the collisions   *)
(* of succsMap keys.                                                       *)
THEOREM ReplayNeverAborts == ASSUME ~Traps PROVE Spec => []NoFault
<1>1. ReplayInv => NoFault
  BY DEF ReplayInv, Settled, Sound, NoFault
<1> QED BY <1>1, AlwaysReplayInv, PTL

(* ... and insMap names, for every instruction address, exactly the block  *)
(* that has the instruction: the index that split rewrites by arithmetic   *)
(* and bbInBlock trusts is never stale.                                    *)
THEOREM InsMapIsExact == ASSUME ~Traps PROVE Spec => []InsMapExact
<1>1. ReplayInv => InsMapExact
  <2> SUFFICES ASSUME ReplayInv PROVE InsMapExact
    OBVIOUS
  <2>1. /\ g \in Graph /\ g.bbMap \subseteq Addr /\ LaidOut(g)
        /\ \A s \in Slot : g.insMap[s] # NoBlock => g.insMap[s] \in g.bbMap
    BY DEF ReplayInv, Settled, Sound, WellFormed, MapsIn, Graph
  <2>2. ASSUME NEW b \in g.bbMap, NEW a \in Insns(g, b) PROVE g.insMap[a] = b
    <3>1. PICK i \in 1 .. Len(g.vecIns[b]) : a = g.vecIns[b][i]
      BY DEF Insns
    <3>2. g.vecIns[b] \in Seq(Addr) /\ b \in Addr
      BY <2>1 DEF Graph
    <3>3. a \in Addr
      BY <3>1, <3>2
    <3>4. a = b + i - 1
      BY <2>1, <3>1, <3>2 DEF LaidOut
    <3>5. a \in Extent(g, b)
      BY <3>1, <3>2, <3>4, AddrFacts, LenFacts, <2>1 DEF Extent
    <3> QED BY <2>1, <3>2, <3>3, <3>5, AddrFacts DEF LaidOut
  <2>3. ASSUME NEW s \in Slot, g.insMap[s] # NoBlock
        PROVE  g.insMap[s] \in g.bbMap /\ s \in Insns(g, g.insMap[s])
    <3>1. g.insMap[s] \in g.bbMap /\ g.insMap[s] \in Addr
      BY <2>1, <2>3
    <3>2. s \in Extent(g, g.insMap[s])
      BY <2>1, <3>1 DEF LaidOut
    <3> QED BY <2>1, <3>1, <3>2, ExtentInsns
  <2> QED BY <2>2, <2>3 DEF InsMapExact
<1> QED BY <1>1, AlwaysReplayInv, PTL

-----------------------------------------------------------------------------
(***************************************************************************)
(* What regionCFG asserts of every block, and what split relies on, for    *)
(* every address range, key width, program and trace, exceptions and key   *)
(* collisions included: no block goes on after a jump, and no instruction  *)
(* is in two places.                                                       *)
(*                                                                         *)
(* The argument: translateRiscv closes a block in the iteration that adds  *)
(* an instruction which ends it, and only one block is open at a time.     *)
(* addIns runs on an open block only, and only when insMap has no block    *)
(* for the address; every instruction of a block has an entry in insMap,   *)
(* though perhaps, after an exception, not that of its own block.          *)
(***************************************************************************)

(* Every instruction before the last place of a block is followed by the   *)
(* one after it; the blocks of E may have been given their last one.       *)
Straight(h, cd, E) ==
  /\ \A x \in Addr : \A i \in 1 .. Len(h.vecIns[x]) - 1 :
       ~EndsBlock(cd[h.vecIns[x][i]])
  /\ \A x \in Addr \ E : ~h.readOnly[x] =>
       \A i \in 1 .. Len(h.vecIns[x]) : ~EndsBlock(cd[h.vecIns[x][i]])

Placed(h) ==
  /\ \A x, y \in Addr :
       \A i \in 1 .. Len(h.vecIns[x]), j \in 1 .. Len(h.vecIns[y]) :
         h.vecIns[x][i] = h.vecIns[y][j] => x = y /\ i = j
  /\ \A x \in Addr : \A i \in 1 .. Len(h.vecIns[x]) :
       h.insMap[h.vecIns[x][i]] # NoBlock

(* Form(h, cd, E, b): only b is open. *)
Form(h, cd, E, b) ==
  /\ WellFormed(h)
  /\ Straight(h, cd, E)
  /\ Placed(h)
  /\ b \in h.bbMap
  /\ \A x \in h.bbMap \ {b} : h.readOnly[x]

(* The members Form is about. *)
SameForm(n, h) ==
  n.vecIns = h.vecIns /\ n.readOnly = h.readOnly /\ n.insMap = h.insMap

LEMMA SameStraight ==
  ASSUME NEW n, NEW h, NEW cd, NEW E, SameForm(n, h), Straight(h, cd, E), Placed(h)
  PROVE  Straight(n, cd, E) /\ Placed(n)
BY SMTT(30) DEF SameForm, Straight, Placed

LEMMA AddSuccessorForm ==
  ASSUME NEW h \in Graph, NEW b \in Addr, NEW c \in Addr
  PROVE  SameForm(AddSuccessor(h, b, c), h)
<1>1. CASE c \in h.succs[b]
  BY <1>1 DEF AddSuccessor, SameForm
<1>2. CASE c \notin h.succs[b] /\ IsEmpty(h, b)
  BY <1>2 DEF AddSuccessor, Abort, SameForm, Graph
<1>3. CASE c \notin h.succs[b] /\ ~IsEmpty(h, b)
  <2>1. AddsSuccessor(AddSuccessor(h, b, c), h, b, c)
    BY <1>3, AddSuccessorFields
  <2> QED BY <2>1 DEF AddsSuccessor, SameForm
<1> QED BY <1>1, <1>2, <1>3

LEMMA Length ==
  ASSUME NEW h \in Graph, NEW x \in Addr
  PROVE  /\ h.vecIns[x] \in Seq(Addr)
         /\ Len(h.vecIns[x]) \in Nat
         /\ \A i \in 1 .. Len(h.vecIns[x]) : h.vecIns[x][i] \in Addr
<1>1. h.vecIns[x] \in Seq(Addr)
  BY DEF Graph
<1> QED BY <1>1


(* n is h with b's places from k on moved to a.                            *)
Parts(n, h, b, a, k) ==
  /\ k \in 1 .. Len(h.vecIns[b])
  /\ \A x \in Addr \ {a, b} : n.vecIns[x] = h.vecIns[x]
  /\ Len(n.vecIns[a]) = Len(h.vecIns[b]) - k + 1
  /\ \A i \in 1 .. Len(n.vecIns[a]) : n.vecIns[a][i] = h.vecIns[b][k + i - 1]
  /\ Len(n.vecIns[b]) = k - 1
  /\ \A i \in 1 .. Len(n.vecIns[b]) : n.vecIns[b][i] = h.vecIns[b][i]
  /\ n.readOnly = [h.readOnly EXCEPT ![a] = TRUE, ![b] = TRUE]
  /\ \A s \in Slot : h.insMap[s] # NoBlock => n.insMap[s] # NoBlock

LEMMA SplitPlaces ==
  ASSUME NEW h \in Graph, NEW b \in Addr, NEW a \in Addr, a # b,
         a \in Insns(h, b), NEW n, n = Split(h, b, a)
  PROVE  Parts(n, h, b, a, Offset(h, b, a))
<1> DEFINE k == Offset(h, b, a)
           l == Len(h.vecIns[b])
           T == SubSeq(h.vecIns[b], k, l)
           H == SubSeq(h.vecIns[b], 1, k - 1)
<1>1. k \in 1 .. l
  BY OffsetFound
<1>2. h.vecIns \in [Addr -> Seq(Addr)] /\ h.vecIns[b] \in Seq(Addr) /\ l \in Nat
  BY Length DEF Graph
<1>3. n.vecIns = [h.vecIns EXCEPT ![a] = T, ![b] = H]
  BY DEF Split
<1>4. n.readOnly = [h.readOnly EXCEPT ![a] = TRUE, ![b] = TRUE]
  BY DEF Split
<1>5. \A s \in Slot : h.insMap[s] # NoBlock => n.insMap[s] # NoBlock
  BY AddrFacts DEF Split, SplitInsMap
<1>6. /\ Len(T) = l - k + 1
      /\ \A i \in 1 .. Len(T) : T[i] = h.vecIns[b][k + i - 1]
  BY SMTT(30), <1>1, <1>2
<1>7. /\ Len(H) = k - 1
      /\ \A i \in 1 .. Len(H) : H[i] = h.vecIns[b][i]
  BY SMTT(30), <1>1, <1>2
<1> HIDE DEF T, H
<1>8. /\ n.vecIns[a] = T /\ n.vecIns[b] = H
      /\ \A x \in Addr \ {a, b} : n.vecIns[x] = h.vecIns[x]
  BY <1>2, <1>3
<1> QED BY <1>1, <1>4, <1>5, <1>6, <1>7, <1>8 DEF Parts

LEMMA SplitForm ==
  ASSUME NEW h \in Graph, NEW b \in Addr, NEW a \in Addr, a # b,
         a \in Insns(h, b), NEW cd, NEW E, Straight(h, cd, E), Placed(h),
         NEW n, n = Split(h, b, a)
  PROVE  Straight(n, cd, E) /\ Placed(n)
<1> DEFINE k == Offset(h, b, a)
           l == Len(h.vecIns[b])
<1>0. Parts(n, h, b, a, k)
  BY SplitPlaces
<1> HIDE DEF k
<1>1. /\ k \in 1 .. l
      /\ \A x \in Addr \ {a, b} : n.vecIns[x] = h.vecIns[x]
      /\ Len(n.vecIns[a]) = l - k + 1
      /\ \A i \in 1 .. Len(n.vecIns[a]) : n.vecIns[a][i] = h.vecIns[b][k + i - 1]
      /\ Len(n.vecIns[b]) = k - 1
      /\ \A i \in 1 .. Len(n.vecIns[b]) : n.vecIns[b][i] = h.vecIns[b][i]
      /\ n.readOnly = [h.readOnly EXCEPT ![a] = TRUE, ![b] = TRUE]
      /\ \A s \in Slot : h.insMap[s] # NoBlock => n.insMap[s] # NoBlock
  BY <1>0 DEF Parts
<1>2. l \in Nat /\ k \in Nat /\ h.readOnly \in [Addr -> BOOLEAN]
  <2>1. l \in Nat /\ h.readOnly \in [Addr -> BOOLEAN]
    BY Length DEF Graph
  <2> QED BY <1>1, <2>1
<1>3. ASSUME NEW x \in Addr, NEW i \in 1 .. Len(n.vecIns[x]) - 1
      PROVE  ~EndsBlock(cd[n.vecIns[x][i]])
  <2>1. CASE x = a
    <3>1. n.vecIns[x][i] = h.vecIns[b][k + i - 1]
      <4>1. Len(n.vecIns[a]) \in Nat
        <5> HIDE DEF l
        <5> QED BY <1>1, <1>2
      <4>2. i \in 1 .. Len(n.vecIns[a])
        BY <2>1, <4>1
      <4> QED BY <1>1, <2>1, <4>2
    <3>2. k + i - 1 \in 1 .. l - 1
      <4> HIDE DEF l
      <4> QED BY <1>1, <1>2, <2>1
    <3> QED BY <3>1, <3>2 DEF Straight
  <2>2. CASE x = b
    <3>1. /\ n.vecIns[x][i] = h.vecIns[b][i]
          /\ i \in 1 .. l - 1
      BY SMTT(30), <1>1, <1>2, <2>2
    <3> QED BY <3>1 DEF Straight
  <2>3. CASE x \notin {a, b}
    <3>1. n.vecIns[x] = h.vecIns[x]
      BY <1>1, <2>3
    <3> QED BY <3>1 DEF Straight
  <2> QED BY <2>1, <2>2, <2>3
<1>4. ASSUME NEW x \in Addr \ E, ~n.readOnly[x], NEW i \in 1 .. Len(n.vecIns[x])
      PROVE  ~EndsBlock(cd[n.vecIns[x][i]])
  <2>1. x \notin {a, b} /\ ~h.readOnly[x]
    BY <1>1, <1>2, <1>4
  <2>2. n.vecIns[x] = h.vecIns[x]
    BY <1>1, <2>1
  <2> QED BY <2>1, <2>2 DEF Straight
<1>5. Straight(n, cd, E)
  BY <1>3, <1>4 DEF Straight
(* Every place of the new graph is a place of the old one, and no two are  *)
(* the same one.                                                           *)
<1> DEFINE Blk(x) == IF x = a THEN b ELSE x
           Pos(x, i) == IF x = a THEN k + i - 1 ELSE i
<1>6. ASSUME NEW x \in Addr, NEW i \in 1 .. Len(n.vecIns[x])
      PROVE  /\ Blk(x) \in Addr
             /\ Pos(x, i) \in 1 .. Len(h.vecIns[Blk(x)])
             /\ n.vecIns[x][i] = h.vecIns[Blk(x)][Pos(x, i)]
             /\ x = b => i < k
             /\ x = a => Pos(x, i) >= k
  <2>1. CASE x = a
    <3>1. Blk(x) = b /\ Pos(x, i) = k + i - 1
      BY <2>1
    <3>2. k + i - 1 \in 1 .. l /\ k + i - 1 >= k
      <4> HIDE DEF l
      <4> QED BY <1>1, <1>2, <2>1
    <3>3. n.vecIns[x][i] = h.vecIns[b][k + i - 1]
      BY <1>1, <2>1
    <3> HIDE DEF Blk, Pos
    <3> QED BY <2>1, <3>1, <3>2, <3>3
  <2>2. CASE x = b
    <3>1. Blk(x) = b /\ Pos(x, i) = i
      BY <2>2
    <3>2. i \in 1 .. l /\ i < k
      <4> HIDE DEF l
      <4> QED BY <1>1, <1>2, <2>2
    <3>3. n.vecIns[x][i] = h.vecIns[b][i]
      BY <1>1, <2>2
    <3> HIDE DEF Blk, Pos
    <3> QED BY <2>2, <3>1, <3>2, <3>3
  <2>3. CASE x \notin {a, b}
    BY <1>1, <2>3
  <2> QED BY <2>1, <2>2, <2>3
<1>7. ASSUME NEW x \in Addr, NEW y \in Addr,
             NEW i \in 1 .. Len(n.vecIns[x]), NEW j \in 1 .. Len(n.vecIns[y]),
             n.vecIns[x][i] = n.vecIns[y][j]
      PROVE  x = y /\ i = j
  <2>1. Blk(x) = Blk(y) /\ Pos(x, i) = Pos(y, j)
    <3> HIDE DEF Blk, Pos
    <3>1. /\ Blk(x) \in Addr /\ Pos(x, i) \in 1 .. Len(h.vecIns[Blk(x)])
          /\ Blk(y) \in Addr /\ Pos(y, j) \in 1 .. Len(h.vecIns[Blk(y)])
          /\ h.vecIns[Blk(x)][Pos(x, i)] = h.vecIns[Blk(y)][Pos(y, j)]
      BY <1>6, <1>7
    <3> QED BY SMTT(30), <3>1 DEF Placed
  <2>2. k \in Int /\ i \in Int /\ j \in Int
    BY <1>1
  <2>3. x = y
    <3>1. x = b => i < k
      BY <1>6
    <3>2. y = b => j < k
      BY <1>6
    <3>3. x = a => Pos(x, i) >= k
      BY <1>6
    <3>4. y = a => Pos(y, j) >= k
      BY <1>6
    <3> QED BY <2>1, <2>2, <3>1, <3>2, <3>3, <3>4
  <2> QED BY <2>1, <2>2, <2>3
<1>8. ASSUME NEW x \in Addr, NEW i \in 1 .. Len(n.vecIns[x])
      PROVE  n.insMap[n.vecIns[x][i]] # NoBlock
  <2>1. /\ Blk(x) \in Addr
        /\ Pos(x, i) \in 1 .. Len(h.vecIns[Blk(x)])
        /\ n.vecIns[x][i] = h.vecIns[Blk(x)][Pos(x, i)]
    BY <1>6
  <2> HIDE DEF Blk, Pos
  <2>2. h.insMap[n.vecIns[x][i]] # NoBlock
    BY <2>1 DEF Placed
  <2>3. n.vecIns[x][i] \in Slot
    BY <2>1, Length, AddrFacts
  <2> QED BY <1>1, <2>2, <2>3
<1>9. Placed(n)
  BY <1>7, <1>8 DEF Placed
<1> QED BY <1>5, <1>9

LEMMA AddInsForm ==
  ASSUME NEW h \in Graph, NEW b \in Addr, NEW a \in Addr, NEW cd,
         Straight(h, cd, {}), Placed(h), ~h.readOnly[b], h.insMap[a] = NoBlock,
         NEW n, n = AddIns(h, b, a)
  PROVE  /\ Straight(n, cd, IF EndsBlock(cd[a]) THEN {b} ELSE {})
         /\ Placed(n)
<1> DEFINE l == Len(h.vecIns[b])
<1>1. AddsIns(n, h, b, a)
  BY AddInsFields
<1>2. /\ h.vecIns \in [Addr -> Seq(Addr)] /\ h.vecIns[b] \in Seq(Addr) /\ l \in Nat
      /\ h.insMap \in [Slot -> Addr \cup {NoBlock}]
  BY Length DEF Graph
<1>3. /\ n.vecIns[b] = Append(h.vecIns[b], a)
      /\ \A x \in Addr \ {b} : n.vecIns[x] = h.vecIns[x]
      /\ n.readOnly = h.readOnly
      /\ n.insMap = [h.insMap EXCEPT ![a] = b]
  BY <1>1, <1>2 DEF AddsIns
<1>4. /\ Len(n.vecIns[b]) = l + 1
      /\ \A i \in 1 .. l : n.vecIns[b][i] = h.vecIns[b][i]
      /\ n.vecIns[b][l + 1] = a
  BY <1>2, <1>3
<1>5. \A i \in 1 .. l : ~EndsBlock(cd[h.vecIns[b][i]])
  BY DEF Straight
<1> HIDE DEF l
<1>6. ASSUME NEW x \in Addr, NEW i \in 1 .. Len(n.vecIns[x]) - 1
      PROVE  ~EndsBlock(cd[n.vecIns[x][i]])
  <2>1. CASE x = b
    <3>1. i \in 1 .. l
      BY <1>2, <1>4, <2>1
    <3> QED BY <1>4, <1>5, <2>1, <3>1
  <2>2. CASE x # b
    BY <1>3, <2>2 DEF Straight
  <2> QED BY <2>1, <2>2
<1>7. ASSUME NEW x \in Addr \ (IF EndsBlock(cd[a]) THEN {b} ELSE {}),
             ~n.readOnly[x], NEW i \in 1 .. Len(n.vecIns[x])
      PROVE  ~EndsBlock(cd[n.vecIns[x][i]])
  <2>1. CASE x = b
    <3>1. ~EndsBlock(cd[a])
      BY <1>7, <2>1
    <3>2. i \in 1 .. l \/ i = l + 1
      BY <1>2, <1>4, <2>1
    <3> QED BY <1>4, <1>5, <2>1, <3>1, <3>2
  <2>2. CASE x # b
    BY <1>3, <1>7, <2>2 DEF Straight
  <2> QED BY <2>1, <2>2
<1>8. Straight(n, cd, IF EndsBlock(cd[a]) THEN {b} ELSE {})
  BY <1>6, <1>7 DEF Straight
(* An old place of the new graph, and the new one. *)
<1>9. ASSUME NEW x \in Addr, NEW i \in 1 .. Len(n.vecIns[x])
      PROVE  \/ /\ i \in 1 .. Len(h.vecIns[x]) /\ n.vecIns[x][i] = h.vecIns[x][i]
                /\ h.insMap[h.vecIns[x][i]] # NoBlock
                /\ h.vecIns[x][i] \in Addr
             \/ x = b /\ i = l + 1 /\ n.vecIns[x][i] = a
  <2>1. CASE x = b
    <3>1. i \in 1 .. l \/ i = l + 1
      BY <1>2, <1>4, <2>1
    <3>2. l = Len(h.vecIns[x])
      BY <2>1 DEF l
    <3>3. \A j \in 1 .. Len(h.vecIns[x]) :
            h.insMap[h.vecIns[x][j]] # NoBlock /\ h.vecIns[x][j] \in Addr
      BY Length DEF Placed
    <3> QED BY <1>4, <2>1, <3>1, <3>2, <3>3
  <2>2. CASE x # b
    BY <1>3, <2>2, Length DEF Placed
  <2> QED BY <2>1, <2>2
<1>10. ASSUME NEW x \in Addr, NEW y \in Addr,
              NEW i \in 1 .. Len(n.vecIns[x]), NEW j \in 1 .. Len(n.vecIns[y]),
              n.vecIns[x][i] = n.vecIns[y][j]
       PROVE  x = y /\ i = j
  <2>1. CASE n.vecIns[x][i] = a
    <3>1. x = b /\ i = l + 1
      BY <1>9, <2>1
    <3>2. y = b /\ j = l + 1
      BY <1>9, <1>10, <2>1
    <3> QED BY <3>1, <3>2
  <2>2. CASE n.vecIns[x][i] # a
    <3>1. i \in 1 .. Len(h.vecIns[x]) /\ n.vecIns[x][i] = h.vecIns[x][i]
      BY <1>9, <2>2
    <3>2. j \in 1 .. Len(h.vecIns[y]) /\ n.vecIns[y][j] = h.vecIns[y][j]
      BY <1>9, <1>10, <2>2
    <3>3. h.vecIns[x][i] = h.vecIns[y][j]
      BY <1>10, <3>1, <3>2
    <3>4. i \in 1 .. Len(h.vecIns[x]) /\ j \in 1 .. Len(h.vecIns[y])
      BY <3>1, <3>2
    <3> QED BY <3>3, <3>4 DEF Placed
  <2> QED BY <2>1, <2>2
<1>11. ASSUME NEW x \in Addr, NEW i \in 1 .. Len(n.vecIns[x])
       PROVE  n.insMap[n.vecIns[x][i]] # NoBlock
  <2>1. \A s \in Slot : n.insMap[s] = IF s = a THEN b ELSE h.insMap[s]
    BY <1>2, <1>3
  <2>2. a \in Slot /\ b # NoBlock
    BY AddrFacts
  <2>3. CASE n.vecIns[x][i] = a
    BY <2>1, <2>2, <2>3
  <2>4. CASE n.vecIns[x][i] # a
    <3>1. /\ n.vecIns[x][i] = h.vecIns[x][i] /\ h.vecIns[x][i] \in Slot
          /\ h.insMap[h.vecIns[x][i]] # NoBlock
      BY <1>9, <2>4, AddrFacts
    <3> QED BY <2>1, <2>4, <3>1
  <2> QED BY <2>3, <2>4
<1>12. Placed(n)
  BY <1>10, <1>11 DEF Placed
<1> QED BY <1>8, <1>12

-----------------------------------------------------------------------------
(* Going from b to a: what the block reached is like.                      *)
Went(r, h, cd, E, b, a) ==
  /\ WellFormed(r.graph) /\ Straight(r.graph, cd, E) /\ Placed(r.graph)
  /\ b \in r.graph.bbMap /\ r.blk \in r.graph.bbMap
  /\ \A x \in r.graph.bbMap \ {b, r.blk} : r.graph.readOnly[x]
  /\ h.readOnly[b] => r.graph.readOnly[b]
  /\ h.insMap[a] # NoBlock => r.graph.readOnly[r.blk] \/ r.blk = b

LEMMA SuccessorForm ==
  ASSUME NEW h, NEW cd, NEW E, NEW b, Form(h, cd, E, b), NEW a \in Addr,
         NEW s, s = Successor(h, b, a)
  PROVE  Went(s, h, cd, E, b, a)
<1> DEFINE hit == {x \in h.succsMap[b] : Key(x) = Key(a)}
           own == BbInBlock(h, a)
           f   == FindBlock(h, b, a)
<1>1. /\ WellFormed(h) /\ Straight(h, cd, E) /\ Placed(h) /\ h \in Graph
      /\ b \in h.bbMap /\ b \in Addr /\ a \in Slot /\ h.bbMap \subseteq Addr
      /\ \A x \in h.bbMap \ {b} : h.readOnly[x]
      /\ h.readOnly \in [Addr -> BOOLEAN]
  BY AddrFacts DEF Form, WellFormed, Graph
<1>2. Leads(s, h)
  BY <1>1, SuccessorWF
<1>3. CASE hit # {}
  <2> DEFINE c == CHOOSE x \in hit : TRUE
  <2>1. f = [blk |-> c, graph |-> h]
    BY <1>3 DEF FindBlock
  <2>2. c \in h.bbMap
    BY <1>1, <1>3 DEF WellFormed, MapsIn
  <2> HIDE DEF c, f
  <2>3. c # NoBlock
    BY <1>1, <2>2, AddrFacts
  <2>4. s = [blk |-> c, graph |-> h]
    BY <2>1, <2>3 DEF Successor, f
  <2>5. s.blk = c /\ s.graph = h
    BY <2>4
  <2> QED BY <1>1, <2>2, <2>5 DEF Went
<1>4. CASE hit = {} /\ a \in h.bbMap
  <2> DEFINE n == AddSuccessor(h, b, a)
  <2>1. f = [blk |-> a, graph |-> n]
    BY <1>4 DEF FindBlock
  <2>2. SameForm(n, h) /\ n.bbMap = h.bbMap
    BY <1>1, AddSuccessorForm, AddSuccessorBlocks
  <2> HIDE DEF n, f
  <2>3. s = [blk |-> a, graph |-> n]
    BY <2>1, AddrFacts DEF Successor, f
  <2>4. s.blk = a /\ s.graph = n
    BY <2>3
  <2>5. WellFormed(n) /\ Straight(n, cd, E) /\ Placed(n)
    BY <1>1, <1>2, <2>2, <2>4, SameStraight DEF Leads
  <2> QED BY <1>1, <1>4, <2>2, <2>4, <2>5 DEF Went, SameForm
<1>5. CASE hit = {} /\ a \notin h.bbMap /\ own # NoBlock /\ a \in Insns(h, own)
  <2> DEFINE m == Split(h, own, a)
             n == AddSuccessor(m, b, a)
  <2>1. f = [blk |-> a, graph |-> n]
    BY <1>5 DEF FindBlock
  <2>2. own \in h.bbMap /\ own \in Addr /\ own # a
    BY <1>1, <1>5 DEF BbInBlock, WellFormed, MapsIn
  <2>3. WellFormed(m) /\ m.bbMap = h.bbMap \cup {a} /\ m \in Graph
    BY <1>1, <1>5, <2>2, SplitWF DEF WellFormed
  <2>4. Straight(m, cd, E) /\ Placed(m)
    BY <1>1, <1>5, <2>2, SplitForm
  <2>5. m.readOnly = [h.readOnly EXCEPT ![a] = TRUE, ![own] = TRUE]
    BY DEF Split
  <2> HIDE DEF m, own, hit
  <2>6. SameForm(n, m) /\ n.bbMap = m.bbMap
    BY <1>1, <2>3, AddSuccessorForm, AddSuccessorBlocks
  <2> HIDE DEF n, f
  <2>7. s = [blk |-> a, graph |-> n]
    BY <2>1, AddrFacts DEF Successor, f
  <2>8. s.blk = a /\ s.graph = n
    BY <2>7
  <2>9. WellFormed(n) /\ Straight(n, cd, E) /\ Placed(n)
    BY <1>2, <2>4, <2>6, <2>8, SameStraight DEF Leads
  <2>10. /\ n.bbMap = h.bbMap \cup {a}
         /\ n.readOnly = [h.readOnly EXCEPT ![a] = TRUE, ![own] = TRUE]
    BY <2>3, <2>5, <2>6 DEF SameForm
  <2>11. /\ \A x \in n.bbMap \ {b, a} : n.readOnly[x]
         /\ h.readOnly[b] => n.readOnly[b]
         /\ n.readOnly[a]
    BY <1>1, <2>2, <2>10
  <2> QED BY <1>1, <2>8, <2>9, <2>10, <2>11 DEF Went
<1>6. CASE hit = {} /\ a \notin h.bbMap /\ own # NoBlock /\ a \notin Insns(h, own)
  <2> DEFINE n == Abort(h, "split")
  <2>1. f = [blk |-> b, graph |-> n]
    BY <1>6 DEF FindBlock
  <2>2. SameForm(n, h) /\ n.bbMap = h.bbMap
    BY <1>1 DEF Abort, SameForm, Graph
  <2> HIDE DEF n, f
  <2>3. s = [blk |-> b, graph |-> n]
    BY <1>1, <2>1, AddrFacts DEF Successor, f
  <2>4. s.blk = b /\ s.graph = n
    BY <2>3
  <2>5. WellFormed(n) /\ Straight(n, cd, E) /\ Placed(n)
    BY <1>1, <1>2, <2>2, <2>4, SameStraight DEF Leads
  <2> QED BY <1>1, <2>2, <2>4, <2>5 DEF Went, SameForm
<1>7. CASE hit = {} /\ a \notin h.bbMap /\ own = NoBlock
  <2> DEFINE m == Construct(h, a)
             n == AddSuccessor(m, b, a)
  <2>1. f.blk = NoBlock
    BY <1>7 DEF FindBlock
  <2>2. s = [blk |-> a, graph |-> n]
    BY <2>1 DEF Successor, NewBlock, f
  <2>3. m.bbMap = h.bbMap \cup {a} /\ SameForm(m, h)
    BY <1>1 DEF Construct, SameForm, Graph
  <2>4. m \in Graph
    BY <1>1, ConstructWF DEF WellFormed
  <2> HIDE DEF m
  <2>5. SameForm(n, m) /\ n.bbMap = m.bbMap
    BY <1>1, <2>4, AddSuccessorForm, AddSuccessorBlocks
  <2> HIDE DEF n, f
  <2>6. s.blk = a /\ s.graph = n
    BY <2>2
  <2>7. SameForm(n, h) /\ n.bbMap = h.bbMap \cup {a}
    BY <2>3, <2>5 DEF SameForm
  <2>8. WellFormed(n) /\ Straight(n, cd, E) /\ Placed(n)
    BY <1>1, <1>2, <2>6, <2>7, SameStraight DEF Leads
  <2>9. h.insMap[a] = NoBlock
    BY <1>7 DEF BbInBlock
  <2> QED BY <1>1, <2>6, <2>7, <2>8, <2>9 DEF Went, SameForm
<1> QED BY <1>3, <1>4, <1>5, <1>6, <1>7

(* b, which may just have got its last instruction, is closed; the block   *)
(* reached is then the only one that can be open, and is not if a was      *)
(* already in a block.                                                     *)
LEMMA GetNextBlockForm ==
  ASSUME NEW h, NEW cd, NEW b, Form(h, cd, {b}, b), NEW a \in Addr,
         NEW t, t = GetNextBlock(h, b, a)
  PROVE  /\ Form(t.graph, cd, {}, t.blk)
         /\ h.insMap[a] # NoBlock => t.graph.readOnly[t.blk]
<1> DEFINE s == Successor(h, b, a)
           n == SetReadOnly(s.graph, b)
<1>1. Went(s, h, cd, {b}, b, a)
  BY SuccessorForm
<1>2. t.blk = s.blk /\ t.graph = n
  BY DEF GetNextBlock
<1> HIDE DEF s
<1>3. WellFormed(s.graph) /\ s.graph \in Graph /\ b \in s.graph.bbMap /\ b \in Addr
  BY <1>1 DEF Went, WellFormed, Graph
<1>4. WellFormed(n) /\ n.bbMap = s.graph.bbMap
  BY <1>3, SetReadOnlyWF
<1>5. /\ n.vecIns = s.graph.vecIns /\ n.insMap = s.graph.insMap
      /\ n.readOnly = [s.graph.readOnly EXCEPT ![b] = TRUE]
      /\ s.graph.readOnly \in [Addr -> BOOLEAN]
  BY <1>3 DEF SetReadOnly, Graph
<1> HIDE DEF n
<1>6. Placed(n)
  BY <1>1, <1>5 DEF Went, Placed
<1>7. Straight(n, cd, {})
  BY <1>1, <1>3, <1>5 DEF Went, Straight
<1>8. s.blk \in n.bbMap /\ n.bbMap \subseteq Addr
  BY <1>1, <1>4 DEF Went, WellFormed, Graph
<1>9. \A x \in n.bbMap \ {s.blk} : n.readOnly[x]
  BY <1>1, <1>3, <1>4, <1>5, <1>8 DEF Went
<1>10. h.insMap[a] # NoBlock => n.readOnly[s.blk]
  BY <1>1, <1>3, <1>5, <1>8 DEF Went
<1> QED BY <1>2, <1>4, <1>6, <1>7, <1>8, <1>9, <1>10 DEF Form

LEMMA SetTermAddrForm ==
  ASSUME NEW h, NEW cd, NEW E, NEW b, Form(h, cd, E, b), NEW a \in Nat,
         NEW n, n = SetTermAddr(h, b, a)
  PROVE  Form(n, cd, E, b) /\ SameForm(n, h)
<1>1. h \in Graph /\ b \in Addr
  BY DEF Form, WellFormed, Graph
<1>2. WellFormed(n) /\ n.bbMap = h.bbMap
  BY <1>1, SetTermAddrWF DEF Form
<1>3. SameForm(n, h)
  BY <1>1 DEF SetTermAddr, SameForm, Graph
<1>4. Straight(n, cd, E) /\ Placed(n)
  BY <1>3, SameStraight DEF Form
<1> QED BY <1>2, <1>3, <1>4 DEF Form, SameForm

LEMMA WiderForm ==
  ASSUME NEW h, NEW cd, NEW b, Form(h, cd, {}, b)
  PROVE  Form(h, cd, {b}, b)
BY DEF Form, Straight

LEMMA TranslateForm ==
  ASSUME pc \in Addr, NEW npc \in Addr, NEW h, NEW b, Form(h, code, {}, b),
         h.readOnly[b] \/ h.insMap[pc] = NoBlock,
         NEW t, t = TranslateRiscv(h, b, npc)
  PROVE  Form(t.graph, code, {}, t.blk)
<1> DEFINE n == AddIns(h, b, pc)
           m == SetTermAddr(n, b, pc)
           E == IF EndsBlock(code[pc]) THEN {b} ELSE {}
<1>1. h \in Graph /\ b \in Addr /\ b \in h.bbMap /\ pc \in Nat /\ WellFormed(h)
  BY AddrFacts DEF Form, WellFormed, Graph
<1>2. Form(n, code, E, b)
  <2>1. CASE h.readOnly[b]
    <3>1. n = h
      BY <2>1 DEF AddIns
    <3> QED BY <3>1, WiderForm
  <2>2. CASE ~h.readOnly[b]
    <3>1. Straight(n, code, E) /\ Placed(n)
      BY <1>1, <2>2, AddInsForm DEF Form
    <3>2. WellFormed(n) /\ n.bbMap = h.bbMap
      BY <1>1, AddInsWF
    <3>3. AddsIns(n, h, b, pc)
      BY <1>1, <2>2, AddInsFields
    <3>4. n.readOnly = h.readOnly
      BY <3>3 DEF AddsIns
    <3> HIDE DEF n, E
    <3> QED BY <3>1, <3>2, <3>4 DEF Form
  <2> QED BY <2>1, <2>2
<1>3. CASE EndsBlock(code[pc])
  <2>1. t = GetNextBlock(m, b, npc)
    BY <1>3 DEF TranslateRiscv
  <2> HIDE DEF n
  <2>2. Form(m, code, {b}, b)
    BY <1>1, <1>2, <1>3, SetTermAddrForm
  <2> HIDE DEF m
  <2> QED BY <2>1, <2>2, GetNextBlockForm
<1>4. CASE ~EndsBlock(code[pc])
  <2>1. t = [blk |-> b, graph |-> n]
    BY <1>4 DEF TranslateRiscv
  <2>2. E = {}
    BY <1>4
  <2> HIDE DEF n, E
  <2>3. t.blk = b /\ t.graph = n
    BY <2>1
  <2> QED BY <1>2, <2>2, <2>3
<1> QED BY <1>3, <1>4

-----------------------------------------------------------------------------
(* The inductive invariant.                                                *)
ShapeInv == GraphInv /\ Form(g, code, {}, cBB)

LEMMA InitShapeInv == Init => ShapeInv
<1> SUFFICES ASSUME Init PROVE ShapeInv
  OBVIOUS
<1>1. GraphInv
  BY InitGraphInv
<1>2. /\ g.bbMap = {pc} /\ g.vecIns = [a \in Addr |-> <<>>] /\ cBB = pc
  BY DEF Init, Construct, EmptyGraph
<1>3. \A x \in Addr : Len(g.vecIns[x]) = 0
  BY <1>2
<1>4. \A x \in Addr : 1 .. Len(g.vecIns[x]) = {} /\ 1 .. Len(g.vecIns[x]) - 1 = {}
  BY <1>3
<1>5. Straight(g, code, {}) /\ Placed(g)
  BY <1>4 DEF Straight, Placed
<1> QED BY <1>1, <1>2, <1>5 DEF ShapeInv, Form, GraphInv

(* The resynchronisation leaves only its block open, and leaves an open    *)
(* block alone.                                                            *)
LEMMA ResyncForm ==
  ASSUME ShapeInv
  PROVE  /\ Form(g, code, {}, Resync)
         /\ ~g.readOnly[Resync] => Resync = cBB
<1>1. Resync \in g.bbMap
  BY ResyncWF DEF ShapeInv
<1>2. CASE Resync = cBB
  BY <1>2 DEF ShapeInv
<1>3. CASE Resync # cBB
  <2>1. g.readOnly[cBB]
    BY <1>3 DEF Resync
  <2> QED BY <1>1, <1>3, <2>1 DEF ShapeInv, Form
<1> QED BY <1>2, <1>3

LEMMA RecordForm ==
  ASSUME ShapeInv, NEW npc \in Addr,
         Stay(npc) \/ Leave(npc) \/ Build(npc) \/ Join(npc)
  PROVE  Form(g', code, {}, cBB')
<1> DEFINE b == Resync
<1>1. Form(g, code, {}, b)
  BY ResyncForm
<1>2. pc \in Addr /\ WellFormed(g) /\ g \in Graph /\ b \in Addr /\ b \in g.bbMap
  BY <1>1 DEF ShapeInv, GraphInv, TypeOK, Form, WellFormed, Graph
<1>3. CASE Stay(npc)
  BY <1>1, <1>3 DEF Stay, Become
<1>4. CASE Leave(npc)
  <2> DEFINE s == Successor(g, b, npc)
  <2>1. g.readOnly[b] /\ g' = s.graph /\ cBB' = s.blk
    BY <1>4 DEF Leave, Become
  <2> HIDE DEF b
  <2>2. Went(s, g, code, {}, b, npc)
    BY <1>1, SuccessorForm
  <2> HIDE DEF s
  <2> QED BY <2>1, <2>2 DEF Went, Form
<1>5. CASE Build(npc)
  <2> DEFINE t == TranslateRiscv(g, b, npc)
  <2>1. g.insMap[pc] = NoBlock /\ g' = t.graph /\ cBB' = t.blk
    BY <1>5 DEF Build, Become, BbInBlock
  <2> HIDE DEF b
  <2>2. Form(t.graph, code, {}, t.blk)
    BY <1>1, <1>2, <2>1, TranslateForm
  <2> QED BY <2>1, <2>2
<1>6. CASE Join(npc)
  <2>1. g.insMap[pc] # NoBlock
    BY <1>6 DEF Join, BbInBlock
  <2>2. CASE IsEmpty(g, b)
    <3> DEFINE n == Abort(g, "at")
    <3>1. g' = n /\ cBB' = b
      BY <1>6, <2>2 DEF Join, Become
    <3>2. SameForm(n, g) /\ n.bbMap = g.bbMap
      BY <1>2 DEF Abort, SameForm, Graph
    <3>3. WellFormed(n)
      BY <1>2, AbortWF DEF Fault
    <3> HIDE DEF n, b
    <3>4. Straight(n, code, {}) /\ Placed(n)
      BY <1>1, <3>2, SameStraight DEF Form
    <3> QED BY <1>1, <3>1, <3>2, <3>3, <3>4 DEF Form, SameForm
  <2>3. CASE ~IsEmpty(g, b)
    <3> DEFINE m == SetTermAddr(g, b, LastPc(g, b))
               s == GetNextBlock(m, b, pc)
               t == TranslateRiscv(s.graph, s.blk, npc)
    <3>1. (cBB' = s.blk /\ g' = s.graph) \/ (cBB' = t.blk /\ g' = t.graph)
      BY <1>6, <2>3 DEF Join, Become
    <3>2. LastPc(g, b) \in Nat
      <4>1. g.vecIns[b] \in Seq(Addr) /\ g.vecIns[b] # <<>>
        BY <1>2, <2>3 DEF IsEmpty, Graph
      <4>2. g.vecIns[b][Len(g.vecIns[b])] \in Addr
        BY <4>1
      <4> QED BY <4>2, AddrFacts DEF LastPc
    <3> HIDE DEF b
    <3>3. Form(m, code, {}, b) /\ SameForm(m, g)
      BY <1>1, <3>2, SetTermAddrForm
    <3>4. m.insMap[pc] # NoBlock
      BY <2>1, <3>3 DEF SameForm
    <3> HIDE DEF m
    <3>5. Form(s.graph, code, {}, s.blk) /\ s.graph.readOnly[s.blk]
      BY <1>2, <3>3, <3>4, WiderForm, GetNextBlockForm
    <3> HIDE DEF s
    <3>6. Form(t.graph, code, {}, t.blk)
      BY <1>2, <3>5, TranslateForm
    <3> HIDE DEF t
    <3> QED BY <3>1, <3>5, <3>6
  <2> QED BY <2>2, <2>3
<1> QED BY <1>3, <1>4, <1>5, <1>6

LEMMA StepShapeInv == ShapeInv /\ [Next]_vars => ShapeInv'
<1> SUFFICES ASSUME ShapeInv, [Next]_vars PROVE ShapeInv'
  OBVIOUS
<1>1. GraphInv'
  BY StepGraphInv DEF ShapeInv
<1>2. ASSUME NEW npc \in NextPcs(pc), Step(npc) PROVE Form(g', code', {}, cBB')
  <2>1. npc \in Addr
    BY DEF NextPcs
  <2>2. Form(g', code, {}, cBB')
    BY <1>2, <2>1, RecordForm DEF Step
  <2> QED BY <1>2, <2>2 DEF Step
<1>3. ASSUME EndTrace PROVE Form(g', code', {}, cBB')
  BY <1>3 DEF EndTrace, ShapeInv
<1>4. ASSUME UNCHANGED vars PROVE Form(g', code', {}, cBB')
  BY <1>4 DEF vars, ShapeInv
<1> QED BY <1>1, <1>2, <1>3, <1>4 DEF Next, ShapeInv

LEMMA AlwaysShapeInv == Spec => []ShapeInv
BY InitShapeInv, StepShapeInv, PTL DEF Spec

(* No block goes on after a jump or branch, however the trace was          *)
(* interrupted and whichever keys collide.                                 *)
THEOREM JumpsEndBlocks == Spec => []NoInnerBranch
<1>1. ShapeInv => NoInnerBranch
  BY DEF ShapeInv, Form, WellFormed, Graph, Straight, NoInnerBranch, EndsBlock,
         IsBranchOrJump
<1> QED BY <1>1, AlwaysShapeInv, PTL

(* So what regionCFG::buildCFG asserts of every block holds: its edges are *)
(* symmetric, too.                                                         *)
THEOREM BlocksAreSane == Spec => []SanityCheck
<1>1. Symmetric /\ NoInnerBranch => SanityCheck
  BY DEF SanityCheck
<1> QED BY <1>1, JumpsEndBlocks, GraphSymmetric, PTL

(* An instruction is in one block and at one place of it, also after an    *)
(* exception has made insMap wrong: split's search cannot find the wrong   *)
(* place.                                                                  *)
THEOREM InstructionsOnce == Spec => []OnePlace
<1>1. ShapeInv => OnePlace
  BY DEF ShapeInv, Form, WellFormed, Graph, Placed, OnePlace
<1> QED BY <1>1, AlwaysShapeInv, PTL

-----------------------------------------------------------------------------
(***************************************************************************)
(* No other assertion than that of split fails, for every address range,   *)
(* key width, program and trace, exceptions included.                      *)
(*                                                                         *)
(* The argument: only the current block can be empty, and then its first   *)
(* record is next, and is in no block.  It is not left, and not joined to  *)
(* another, before it has that instruction.  No split empties a block,     *)
(* because a block begins with its entry address.                          *)
(***************************************************************************)
Filled(h) ==
  /\ \A x \in h.bbMap : h.readOnly[x] => h.vecIns[x] # <<>>
  /\ \A x \in h.bbMap : h.vecIns[x] # <<>> => h.vecIns[x][1] = x
  /\ \A x \in Addr \ h.bbMap : h.vecIns[x] = <<>> /\ ~h.readOnly[x]

(* An empty block waits for its first record, at p. *)
Waits(h, b, p) == h.vecIns[b] = <<>> => b = p /\ h.insMap[b] = NoBlock

Failed == {"none", "split"}

LEMMA SameFilled ==
  ASSUME NEW n, NEW h, SameForm(n, h), n.bbMap = h.bbMap, Filled(h)
  PROVE  Filled(n)
BY DEF SameForm, Filled

LEMMA AddSuccessorFault ==
  ASSUME NEW h \in Graph, NEW b \in Addr, NEW c \in Addr, h.vecIns[b] # <<>>,
         NEW n, n = AddSuccessor(h, b, c)
  PROVE  SameForm(n, h) /\ n.bbMap = h.bbMap /\ n.fault = h.fault
<1>1. SameForm(n, h) /\ n.bbMap = h.bbMap
  BY AddSuccessorForm, AddSuccessorBlocks
<1>2. CASE c \in h.succs[b]
  BY <1>1, <1>2 DEF AddSuccessor
<1>3. CASE c \notin h.succs[b]
  <2>1. AddsSuccessor(n, h, b, c)
    BY <1>3, AddSuccessorFields DEF IsEmpty
  <2> QED BY <1>1, <2>1 DEF AddsSuccessor
<1> QED BY <1>2, <1>3

LEMMA SplitFilled ==
  ASSUME NEW h \in Graph, NEW b \in h.bbMap, b \in Addr, NEW a \in Addr \ h.bbMap,
         a \in Insns(h, b), Filled(h), NEW n, n = Split(h, b, a)
  PROVE  /\ Filled(n) /\ n.fault = h.fault /\ n.vecIns[a] # <<>>
         /\ \A x \in h.bbMap : h.vecIns[x] # <<>> => n.vecIns[x] # <<>>
<1> DEFINE k == Offset(h, b, a)
           l == Len(h.vecIns[b])
<1>1. Parts(n, h, b, a, k) /\ h.vecIns[b][k] = a
  BY SplitPlaces, OffsetFound
<1> HIDE DEF k
<1>2. /\ k \in 1 .. l
      /\ \A x \in Addr \ {a, b} : n.vecIns[x] = h.vecIns[x]
      /\ Len(n.vecIns[a]) = l - k + 1
      /\ \A i \in 1 .. Len(n.vecIns[a]) : n.vecIns[a][i] = h.vecIns[b][k + i - 1]
      /\ Len(n.vecIns[b]) = k - 1
      /\ \A i \in 1 .. Len(n.vecIns[b]) : n.vecIns[b][i] = h.vecIns[b][i]
      /\ n.readOnly = [h.readOnly EXCEPT ![a] = TRUE, ![b] = TRUE]
  BY <1>1 DEF Parts
<1>3. l \in Nat /\ k \in Nat /\ h.vecIns[b] # <<>>
  <2>1. l \in Nat /\ (h.vecIns[b] # <<>> <=> l > 0)
    BY LenFacts
  <2> HIDE DEF l
  <2> QED BY <1>2, <2>1
<1>4. h.vecIns[b][1] = b
  BY <1>3 DEF Filled
<1>5. k > 1
  <2>1. k # 1
    BY <1>1, <1>4
  <2> HIDE DEF l
  <2> QED BY <1>2, <1>3, <2>1
<1> HIDE DEF l
<1>6. /\ Len(n.vecIns[a]) \in Nat \ {0} /\ Len(n.vecIns[b]) \in Nat \ {0}
      /\ k + 1 - 1 = k
  BY <1>2, <1>3, <1>5
<1>7. n.vecIns[a] # <<>> /\ n.vecIns[b] # <<>>
  BY <1>6
<1>8. n.vecIns[a][1] = a /\ n.vecIns[b][1] = b
  <2>1. 1 \in 1 .. Len(n.vecIns[a]) /\ 1 \in 1 .. Len(n.vecIns[b])
    BY <1>6
  <2>2. n.vecIns[a][1] = h.vecIns[b][k + 1 - 1] /\ n.vecIns[b][1] = h.vecIns[b][1]
    BY <1>2, <2>1
  <2> QED BY <1>1, <1>4, <1>6, <2>2
<1>9. n.bbMap = h.bbMap \cup {a} /\ n.fault = h.fault
  BY DEF Split
<1>10. h.bbMap \subseteq Addr /\ h.readOnly \in [Addr -> BOOLEAN] /\ a # b /\ a \notin h.bbMap
  BY DEF Graph
<1>11. ASSUME NEW x \in Addr \ {a, b}
       PROVE  /\ n.vecIns[x] = h.vecIns[x] /\ n.readOnly[x] = h.readOnly[x]
              /\ x \in n.bbMap <=> x \in h.bbMap
  BY <1>2, <1>9, <1>10
<1>12. Filled(n)
  BY <1>7, <1>8, <1>9, <1>10, <1>11 DEF Filled
<1> QED BY <1>7, <1>9, <1>10, <1>11, <1>12

LEMMA SuccessorFilled ==
  ASSUME NEW h, NEW cd, NEW E, NEW b, Form(h, cd, E, b), Filled(h), h.vecIns[b] # <<>>,
         h.fault = "none", NEW a \in Addr, NEW s, s = Successor(h, b, a)
  PROVE  /\ Filled(s.graph) /\ s.graph.fault \in Failed
         /\ s.graph.vecIns[b] # <<>> /\ Waits(s.graph, s.blk, a)
<1> DEFINE hit == {x \in h.succsMap[b] : Key(x) = Key(a)}
           own == BbInBlock(h, a)
           f   == FindBlock(h, b, a)
<1>1. /\ WellFormed(h) /\ h \in Graph /\ b \in h.bbMap /\ b \in Addr /\ a \in Slot
      /\ h.bbMap \subseteq Addr /\ NoBlock \notin h.bbMap
      /\ \A x \in h.bbMap : h.vecIns[x] # <<>> \/ ~h.readOnly[x]
      /\ \A x \in h.bbMap \ {b} : h.readOnly[x]
  BY AddrFacts DEF Form, WellFormed, Graph, Filled
<1>2. \A x \in h.bbMap : h.vecIns[x] # <<>>
  BY <1>1
<1>3. CASE hit # {}
  <2> DEFINE c == CHOOSE x \in hit : TRUE
  <2>1. f = [blk |-> c, graph |-> h]
    BY <1>3 DEF FindBlock
  <2>2. c \in h.bbMap
    BY <1>1, <1>3 DEF WellFormed, MapsIn
  <2> HIDE DEF c, f
  <2>3. s = [blk |-> c, graph |-> h]
    BY <1>1, <2>1, <2>2 DEF Successor, f
  <2>4. s.blk = c /\ s.graph = h
    BY <2>3
  <2> QED BY <1>2, <2>2, <2>4 DEF Waits, Failed
<1>4. CASE hit = {} /\ a \in h.bbMap
  <2> DEFINE n == AddSuccessor(h, b, a)
  <2>1. f = [blk |-> a, graph |-> n]
    BY <1>4 DEF FindBlock
  <2>2. SameForm(n, h) /\ n.bbMap = h.bbMap /\ n.fault = h.fault
    BY <1>1, AddSuccessorFault
  <2> HIDE DEF n, f
  <2>3. s = [blk |-> a, graph |-> n]
    BY <2>1, AddrFacts DEF Successor, f
  <2>4. s.blk = a /\ s.graph = n
    BY <2>3
  <2>5. Filled(n)
    BY <2>2, SameFilled
  <2> QED BY <1>2, <1>4, <2>2, <2>4, <2>5 DEF Waits, Failed, SameForm
<1>5. CASE hit = {} /\ a \notin h.bbMap /\ own # NoBlock /\ a \in Insns(h, own)
  <2> DEFINE m == Split(h, own, a)
             n == AddSuccessor(m, b, a)
  <2>1. f = [blk |-> a, graph |-> n]
    BY <1>5 DEF FindBlock
  <2>2. own \in h.bbMap /\ own \in Addr /\ own # a
    BY <1>1, <1>5 DEF BbInBlock, WellFormed, MapsIn
  <2>3. m \in Graph
    BY <1>1, <1>5, <2>2, SplitWF DEF WellFormed
  <2>4. /\ Filled(m) /\ m.fault = h.fault /\ m.vecIns[a] # <<>>
        /\ m.vecIns[b] # <<>>
    BY <1>1, <1>5, <2>2, SplitFilled
  <2> HIDE DEF m, own, hit
  <2>5. SameForm(n, m) /\ n.bbMap = m.bbMap /\ n.fault = m.fault
    BY <1>1, <2>3, <2>4, AddSuccessorFault
  <2> HIDE DEF n, f
  <2>6. s = [blk |-> a, graph |-> n]
    BY <2>1, AddrFacts DEF Successor, f
  <2>7. s.blk = a /\ s.graph = n
    BY <2>6
  <2>8. Filled(n)
    BY <2>4, <2>5, SameFilled
  <2> QED BY <2>4, <2>5, <2>7, <2>8 DEF Waits, Failed, SameForm
<1>6. CASE hit = {} /\ a \notin h.bbMap /\ own # NoBlock /\ a \notin Insns(h, own)
  <2> DEFINE n == Abort(h, "split")
  <2>1. f = [blk |-> b, graph |-> n]
    BY <1>6 DEF FindBlock
  <2>2. SameForm(n, h) /\ n.bbMap = h.bbMap /\ n.fault = "split"
    BY <1>1 DEF Abort, SameForm, Graph
  <2> HIDE DEF n, f
  <2>3. s = [blk |-> b, graph |-> n]
    BY <1>1, <2>1, AddrFacts DEF Successor, f
  <2>4. s.blk = b /\ s.graph = n
    BY <2>3
  <2>5. Filled(n)
    BY <2>2, SameFilled
  <2> QED BY <2>2, <2>4, <2>5 DEF Waits, Failed, SameForm
<1>7. CASE hit = {} /\ a \notin h.bbMap /\ own = NoBlock
  <2> DEFINE m == Construct(h, a)
             n == AddSuccessor(m, b, a)
  <2>1. f.blk = NoBlock
    BY <1>7 DEF FindBlock
  <2>2. s = [blk |-> a, graph |-> n]
    BY <2>1 DEF Successor, NewBlock, f
  <2>3. m.bbMap = h.bbMap \cup {a} /\ SameForm(m, h) /\ m.fault = h.fault
    BY <1>1 DEF Construct, SameForm, Graph
  <2>4. m \in Graph
    BY <1>1, ConstructWF DEF WellFormed
  <2>5. Filled(m)
    BY <1>7, <2>3 DEF Filled, SameForm
  <2> HIDE DEF m
  <2>6. SameForm(n, m) /\ n.bbMap = m.bbMap /\ n.fault = m.fault
    BY <1>1, <2>3, <2>4, AddSuccessorFault DEF SameForm
  <2> HIDE DEF n, f
  <2>7. s.blk = a /\ s.graph = n
    BY <2>2
  <2>8. Filled(n)
    BY <2>5, <2>6, SameFilled
  <2>9. n.insMap[a] = NoBlock /\ n.vecIns = h.vecIns
    BY <1>7, <2>3, <2>6 DEF BbInBlock, SameForm
  <2> QED BY <2>3, <2>6, <2>7, <2>8, <2>9 DEF Waits, Failed
<1> QED BY <1>3, <1>4, <1>5, <1>6, <1>7

LEMMA GetNextBlockFilled ==
  ASSUME NEW h, NEW cd, NEW E, NEW b, Form(h, cd, E, b), Filled(h), h.vecIns[b] # <<>>,
         h.fault = "none", NEW a \in Addr, NEW t, t = GetNextBlock(h, b, a)
  PROVE  Filled(t.graph) /\ t.graph.fault \in Failed /\ Waits(t.graph, t.blk, a)
<1> DEFINE s == Successor(h, b, a)
           n == SetReadOnly(s.graph, b)
<1>1. /\ Filled(s.graph) /\ s.graph.fault \in Failed
      /\ s.graph.vecIns[b] # <<>> /\ Waits(s.graph, s.blk, a)
  BY SuccessorFilled
<1>2. t.blk = s.blk /\ t.graph = n
  BY DEF GetNextBlock
<1>3. s.graph \in Graph /\ b \in s.graph.bbMap /\ b \in Addr
  BY SuccessorForm DEF Went, WellFormed, Graph
<1> HIDE DEF s
<1>4. /\ n.vecIns = s.graph.vecIns /\ n.insMap = s.graph.insMap
      /\ n.bbMap = s.graph.bbMap /\ n.fault = s.graph.fault
      /\ n.readOnly = [s.graph.readOnly EXCEPT ![b] = TRUE]
      /\ s.graph.readOnly \in [Addr -> BOOLEAN] /\ s.graph.bbMap \subseteq Addr
  BY <1>3 DEF SetReadOnly, Graph
<1> HIDE DEF n
<1>5. Filled(n)
  BY <1>1, <1>3, <1>4 DEF Filled
<1> QED BY <1>1, <1>2, <1>4, <1>5 DEF Waits

LEMMA SetTermAddrFilled ==
  ASSUME NEW h \in Graph, NEW b, NEW a, Filled(h), NEW n, n = SetTermAddr(h, b, a)
  PROVE  Filled(n) /\ n.fault = h.fault /\ n.vecIns = h.vecIns
<1>1. SameForm(n, h) /\ n.bbMap = h.bbMap /\ n.fault = h.fault
  BY DEF SetTermAddr, SameForm, Graph
<1> QED BY <1>1, SameFilled DEF SameForm

LEMMA AddInsFilled ==
  ASSUME NEW h \in Graph, NEW b \in h.bbMap, b \in Addr, NEW a \in Addr, Filled(h), Waits(h, b, a),
         NEW n, n = AddIns(h, b, a)
  PROVE  Filled(n) /\ n.fault = h.fault /\ n.vecIns[b] # <<>>
<1>1. CASE h.readOnly[b]
  BY <1>1 DEF AddIns, Filled
<1>2. CASE ~h.readOnly[b]
  <2>1. AddsIns(n, h, b, a)
    BY <1>2, AddInsFields
  <2>2. /\ n.bbMap = h.bbMap /\ n.readOnly = h.readOnly /\ n.fault = h.fault
        /\ n.vecIns = [h.vecIns EXCEPT ![b] = Append(@, a)]
        /\ h.vecIns \in [Addr -> Seq(Addr)] /\ h.vecIns[b] \in Seq(Addr)
        /\ h.bbMap \subseteq Addr
    BY <2>1 DEF AddsIns, Graph
  <2>3. n.vecIns[b] = Append(h.vecIns[b], a) /\ \A x \in Addr \ {b} : n.vecIns[x] = h.vecIns[x]
    BY <2>2
  <2>4. n.vecIns[b] # <<>>
    <3> DEFINE v == h.vecIns[b]
    <3>1. v \in Seq(Addr)
      BY <2>2
    <3> HIDE DEF v
    <3>2. /\ Append(v, a) \in Seq(Addr) /\ Len(Append(v, a)) = Len(v) + 1
          /\ Len(v) \in Nat /\ Len(<<>>) = 0
      BY <3>1
    <3>3. Append(v, a) # <<>>
      <4>1. Len(Append(v, a)) # Len(<<>>)
        BY <3>2
      <4> QED BY <4>1, Zenon
    <3> QED BY <2>3, <3>3 DEF v
  <2>5. n.vecIns[b][1] = b
    <3>1. CASE h.vecIns[b] = <<>>
      BY <2>3, <3>1 DEF Waits
    <3>2. CASE h.vecIns[b] # <<>>
      <4>1. h.vecIns[b][1] = b
        BY <3>2 DEF Filled
      <4>2. Append(h.vecIns[b], a)[1] = h.vecIns[b][1]
        BY <2>2, <3>2
      <4> QED BY <2>3, <4>1, <4>2
    <3> QED BY <3>1, <3>2
  <2>6. ASSUME NEW x \in h.bbMap
        PROVE  /\ h.readOnly[x] => n.vecIns[x] # <<>>
               /\ n.vecIns[x] # <<>> => n.vecIns[x][1] = x
    <3>1. CASE x = b
      BY <2>4, <2>5, <3>1
    <3>2. CASE x # b
      <4>1. n.vecIns[x] = h.vecIns[x]
        BY <2>2, <2>3, <3>2
      <4> QED BY <4>1 DEF Filled
    <3> QED BY <3>1, <3>2
  <2>7. \A x \in Addr \ h.bbMap : n.vecIns[x] = <<>> /\ ~h.readOnly[x]
    BY <2>3 DEF Filled
  <2>8. Filled(n)
    BY <2>2, <2>6, <2>7 DEF Filled
  <2> QED BY <2>2, <2>4, <2>8
<1> QED BY <1>1, <1>2

LEMMA TranslateFilled ==
  ASSUME pc \in Addr, NEW npc \in Addr, NEW h, NEW b, Form(h, code, {}, b),
         h.readOnly[b] \/ h.insMap[pc] = NoBlock,
         Filled(h), h.fault = "none", Waits(h, b, pc),
         NEW t, t = TranslateRiscv(h, b, npc)
  PROVE  Filled(t.graph) /\ t.graph.fault \in Failed /\ Waits(t.graph, t.blk, npc)
<1> DEFINE n == AddIns(h, b, pc)
           m == SetTermAddr(n, b, pc)
<1>1. h \in Graph /\ b \in Addr /\ b \in h.bbMap /\ pc \in Nat /\ WellFormed(h)
  BY AddrFacts DEF Form, WellFormed, Graph
<1>2. Filled(n) /\ n.fault = "none" /\ n.vecIns[b] # <<>>
  BY <1>1, AddInsFilled
<1>3. Form(n, code, {b}, b)
  <2>1. CASE h.readOnly[b]
    <3>1. n = h
      BY <2>1 DEF AddIns
    <3> QED BY <3>1, WiderForm
  <2>2. CASE ~h.readOnly[b]
    <3>1. Placed(n) /\ Straight(n, code, IF EndsBlock(code[pc]) THEN {b} ELSE {})
      BY <1>1, <2>2, AddInsForm DEF Form
    <3>2. WellFormed(n) /\ n.bbMap = h.bbMap
      BY <1>1, AddInsWF
    <3>3. AddsIns(n, h, b, pc)
      BY <1>1, <2>2, AddInsFields
    <3>4. n.readOnly = h.readOnly
      BY <3>3 DEF AddsIns
    <3> HIDE DEF n
    <3>5. Straight(n, code, {b})
      BY <3>1 DEF Straight
    <3> QED BY <3>1, <3>2, <3>4, <3>5 DEF Form
  <2> QED BY <2>1, <2>2
<1>4. IF EndsBlock(code[pc]) THEN t = GetNextBlock(m, b, npc)
                             ELSE t.blk = b /\ t.graph = n
  BY DEF TranslateRiscv
<1> HIDE DEF n
<1>5. CASE EndsBlock(code[pc])
  <2>1. Form(m, code, {b}, b)
    BY <1>1, <1>3, SetTermAddrForm
  <2>2. Filled(m) /\ m.fault = "none" /\ m.vecIns[b] # <<>>
    BY <1>2, <1>3, SetTermAddrFilled DEF Form, WellFormed
  <2> HIDE DEF m
  <2> QED BY <1>4, <1>5, <2>1, <2>2, GetNextBlockFilled
<1>6. CASE ~EndsBlock(code[pc])
  BY <1>2, <1>4, <1>6 DEF Waits, Failed
<1> QED BY <1>5, <1>6

(* The inductive invariant. *)
FilledInv ==
  /\ ShapeInv
  /\ g.fault \in Failed
  /\ g.fault = "none" => Filled(g) /\ Waits(g, cBB, pc)

LEMMA InitFilledInv == Init => FilledInv
<1> SUFFICES ASSUME Init PROVE FilledInv
  OBVIOUS
<1>1. /\ g.bbMap = {pc} /\ g.vecIns = [a \in Addr |-> <<>>] /\ cBB = pc /\ pc \in Addr
      /\ g.insMap = [s \in Slot |-> NoBlock]
      /\ g.readOnly = [a \in Addr |-> FALSE] /\ g.fault = "none"
  BY DEF Init, Construct, EmptyGraph
<1>2. Filled(g)
  BY <1>1 DEF Filled
<1>3. Waits(g, cBB, pc)
  BY <1>1, AddrFacts DEF Waits
<1> QED BY <1>1, <1>2, <1>3, InitShapeInv DEF FilledInv, Failed

LEMMA RecordFilled ==
  ASSUME FilledInv, g.fault = "none", NEW npc \in Addr,
         Stay(npc) \/ Leave(npc) \/ Build(npc) \/ Join(npc)
  PROVE  /\ g'.fault \in Failed
         /\ g'.fault = "none" => Filled(g') /\ Waits(g', cBB', npc)
<1> DEFINE r == Resync
<1>1. /\ Form(g, code, {}, r) /\ Filled(g) /\ pc \in Addr
      /\ ~g.readOnly[r] => r = cBB /\ Waits(g, r, pc)
  BY ResyncForm DEF FilledInv, ShapeInv, GraphInv, TypeOK
<1>2. /\ g \in Graph /\ r \in Addr /\ r \in g.bbMap
      /\ g.readOnly[r] => g.vecIns[r] # <<>>
  BY <1>1 DEF Form, WellFormed, Graph, Filled
<1>3. CASE Stay(npc)
  <2>1. g.readOnly[r] /\ g' = g /\ cBB' = r
    BY <1>3 DEF Stay, Become
  <2> HIDE DEF r
  <2> QED BY <1>1, <1>2, <2>1 DEF Waits, Failed
<1>4. CASE Leave(npc)
  <2> DEFINE s == Successor(g, r, npc)
  <2>1. g.readOnly[r] /\ g' = s.graph /\ cBB' = s.blk
    BY <1>4 DEF Leave, Become
  <2> HIDE DEF r
  <2>2. Filled(s.graph) /\ s.graph.fault \in Failed /\ Waits(s.graph, s.blk, npc)
    BY <1>1, <1>2, <2>1, SuccessorFilled
  <2> HIDE DEF s
  <2> QED BY <2>1, <2>2
<1>5. CASE Build(npc)
  <2> DEFINE t == TranslateRiscv(g, r, npc)
  <2>1. ~g.readOnly[r] /\ g.insMap[pc] = NoBlock /\ g' = t.graph /\ cBB' = t.blk
    BY <1>5 DEF Build, Become, BbInBlock
  <2> HIDE DEF r
  <2>2. Filled(t.graph) /\ t.graph.fault \in Failed /\ Waits(t.graph, t.blk, npc)
    BY <1>1, <2>1, TranslateFilled
  <2> HIDE DEF t
  <2> QED BY <2>1, <2>2
<1>6. CASE Join(npc)
  <2>1. ~g.readOnly[r] /\ g.insMap[pc] # NoBlock
    BY <1>6 DEF Join, BbInBlock
  <2>2. g.vecIns[r] # <<>>
    BY <1>1, <2>1 DEF Waits
  <2> DEFINE m == SetTermAddr(g, r, LastPc(g, r))
             s == GetNextBlock(m, r, pc)
             t == TranslateRiscv(s.graph, s.blk, npc)
  <2>3. IF s.graph.fault # "none" THEN g' = s.graph ELSE g' = t.graph /\ cBB' = t.blk
    BY <1>6, <2>2 DEF Join, Become, IsEmpty
  <2> HIDE DEF r
  <2>4. LastPc(g, r) \in Nat
    <3>1. g.vecIns[r] \in Seq(Addr)
      BY <1>2 DEF Graph
    <3>2. g.vecIns[r][Len(g.vecIns[r])] \in Addr
      BY <2>2, <3>1
    <3> QED BY <3>2, AddrFacts DEF LastPc
  <2>5. Form(m, code, {r}, r) /\ SameForm(m, g)
    BY <1>1, <2>4, WiderForm, SetTermAddrForm DEF SameForm
  <2>6. Filled(m) /\ m.fault = "none" /\ m.vecIns[r] # <<>>
    BY <1>1, <1>2, <2>2, SetTermAddrFilled
  <2>7. m.insMap[pc] # NoBlock
    BY <2>1, <2>5 DEF SameForm
  <2> HIDE DEF m
  <2>8. Form(s.graph, code, {}, s.blk) /\ s.graph.readOnly[s.blk]
    BY <1>1, <2>5, <2>7, GetNextBlockForm
  <2>9. Filled(s.graph) /\ s.graph.fault \in Failed /\ Waits(s.graph, s.blk, pc)
    BY <1>1, <2>5, <2>6, GetNextBlockFilled
  <2> HIDE DEF s
  <2>10. s.graph.fault = "none" =>
           Filled(t.graph) /\ t.graph.fault \in Failed /\ Waits(t.graph, t.blk, npc)
    BY <1>1, <2>8, <2>9, TranslateFilled
  <2> HIDE DEF t
  <2> QED BY <2>3, <2>9, <2>10
<1> QED BY <1>3, <1>4, <1>5, <1>6

LEMMA StepFilledInv == FilledInv /\ [Next]_vars => FilledInv'
<1> SUFFICES ASSUME FilledInv, [Next]_vars PROVE FilledInv'
  OBVIOUS
<1>1. ShapeInv'
  BY StepShapeInv DEF FilledInv
<1>2. ASSUME NEW npc \in NextPcs(pc), Step(npc) PROVE FilledInv'
  <2>1. npc \in Addr /\ pc' = npc /\ g.fault = "none"
    BY <1>2 DEF NextPcs, Step, Running
  <2>2. /\ g'.fault \in Failed
        /\ g'.fault = "none" => Filled(g') /\ Waits(g', cBB', npc)
    BY <1>2, <2>1, RecordFilled DEF Step
  <2> QED BY <1>1, <2>1, <2>2 DEF FilledInv
<1>3. CASE EndTrace \/ UNCHANGED vars
  <2>1. UNCHANGED <<pc, g, cBB>>
    BY <1>3 DEF EndTrace, vars
  <2> QED BY <1>1, <2>1 DEF FilledInv
<1> QED BY <1>2, <1>3 DEF Next

(* Whatever exceptions and colliding keys do to insMap and the edges, no   *)
(* edge is added to an empty block, and no empty block is asked for its    *)
(* last instruction: of the assertions only that of split can fail.        *)
THEOREM OthersNeverFail == Spec => []OnlySplitFails
<1>1. FilledInv => OnlySplitFails
  BY DEF FilledInv, Failed, OnlySplitFails
<1> QED BY <1>1, InitFilledInv, StepFilledInv, PTL DEF Spec

-----------------------------------------------------------------------------
(***************************************************************************)
(* Without exceptions every edge of the graph was executed, and its weight *)
(* is found where the listings look it up, for every address range, key    *)
(* width, program and trace.                                               *)
(*                                                                         *)
(* The argument: the edges of a block start at its last instruction, which *)
(* is at termAddr as soon as the block is closed.  A block is closed and   *)
(* given an edge in the same iteration, by the record at its last address, *)
(* and split gives the head an edge that was inside the block before.      *)
(*                                                                         *)
(* Nor is an executed instruction missing, unless succsMap's keys confuse  *)
(* two blocks: a plain instruction's successor in its block is the next    *)
(* one executed, and a block that control goes to is entered or built.     *)
(***************************************************************************)

(* Ran(e, p, q): the record at p was followed by one at q. *)
Ran(e, p, q) == e[p][q] > 0

(* A block of E has its last instruction but is not marked read-only yet. *)
Flows(h, e, E) ==
  /\ \A x \in Addr : \A i \in 1 .. Len(h.vecIns[x]) - 1 :
       Ran(e, h.vecIns[x][i], h.vecIns[x][i + 1])
  /\ \A x \in Addr : h.readOnly[x] \/ x \in E => h.termAddr[x] = LastPc(h, x)
  /\ \A x \in Addr \ E : ~h.readOnly[x] =>
       h.termAddr[x] = 0 /\ h.succs[x] = {} /\ h.succsMap[x] = {}
  /\ \A x \in Addr : \A c \in h.succs[x] : Ran(e, LastPc(h, x), c)

LEMMA AddSuccessorFlow ==
  ASSUME NEW h \in Graph, NEW e, NEW E, Flows(h, e, E), NEW b \in Addr, NEW c \in Addr,
         h.vecIns[b] # <<>>, h.readOnly[b] \/ b \in E,
         c \in h.succs[b] \/ Ran(e, LastPc(h, b), c), NEW n, n = AddSuccessor(h, b, c)
  PROVE  Flows(n, e, E)
<1>1. CASE c \in h.succs[b]
  BY <1>1 DEF AddSuccessor
<1>2. CASE c \notin h.succs[b]
  <2>1. AddsSuccessor(n, h, b, c)
    BY <1>2, AddSuccessorFields DEF IsEmpty
  <2>2. /\ n.vecIns = h.vecIns /\ n.termAddr = h.termAddr /\ n.readOnly = h.readOnly
        /\ \A x \in Addr : n.succs[x] = IF x = b THEN h.succs[b] \cup {c} ELSE h.succs[x]
        /\ \A x \in Addr \ {b} : n.succsMap[x] = h.succsMap[x]
    BY <2>1 DEF AddsSuccessor, Graph
  <2>3. \A x \in Addr : LastPc(n, x) = LastPc(h, x)
    BY <2>2 DEF LastPc
  <2>4. \A x \in Addr : \A d \in n.succs[x] : Ran(e, LastPc(n, x), d)
    BY <1>2, <2>2, <2>3 DEF Flows
  <2>5. \A x \in Addr \ E : ~n.readOnly[x] =>
          n.termAddr[x] = 0 /\ n.succs[x] = {} /\ n.succsMap[x] = {}
    BY <2>2 DEF Flows
  <2>6. \A x \in Addr : n.readOnly[x] \/ x \in E => n.termAddr[x] = LastPc(n, x)
    BY <2>2, <2>3 DEF Flows
  <2>7. \A x \in Addr : \A i \in 1 .. Len(n.vecIns[x]) - 1 :
          Ran(e, n.vecIns[x][i], n.vecIns[x][i + 1])
    BY <2>2 DEF Flows
  <2> QED BY <2>4, <2>5, <2>6, <2>7 DEF Flows
<1> QED BY <1>1, <1>2

LEMMA ConstructFlow ==
  ASSUME NEW h \in Graph, NEW e, NEW E, Flows(h, e, E), NEW a \in Addr,
         NEW n, n = Construct(h, a)
  PROVE  Flows(n, e, E)
<1>1. /\ n.vecIns = h.vecIns /\ n.termAddr = h.termAddr /\ n.readOnly = h.readOnly
      /\ n.succs = h.succs /\ n.succsMap = h.succsMap
  BY DEF Construct, Graph
<1> QED BY <1>1 DEF Flows, LastPc

(* split: the head keeps one edge, to the tail, which was a step inside    *)
(* the block; the tail keeps the last instruction, termAddr and the edges. *)
LEMMA SplitFlow ==
  ASSUME NEW h \in Graph, LaidOut(h), NEW e, NEW E, Flows(h, e, E),
         NEW b \in Addr, h.readOnly[b] \/ b \in E, NEW a \in Addr, a # b,
         a \in Extent(h, b), NEW n, n = Split(h, b, a)
  PROVE  Flows(n, e, E) /\ a \in n.succs[b]
<1> DEFINE k == Offset(h, b, a)
           l == Len(h.vecIns[b])
<1>1. a \in Insns(h, b) /\ k = a - b + 1
  BY ExtentInsns
<1>2. Parts(n, h, b, a, k)
  BY <1>1, SplitPlaces
<1>3. /\ n.succs = [h.succs EXCEPT ![a] = h.succs[b], ![b] = {a}]
      /\ n.succsMap = [h.succsMap EXCEPT ![a] = MapSuccs(h.succs[b]), ![b] = {a}]
      /\ n.termAddr = [h.termAddr EXCEPT ![a] = h.termAddr[b], ![b] = a - 1]
  BY DEF Split, SplitTermAddr
<1> HIDE DEF k
<1>4. /\ k \in 1 .. l
      /\ \A x \in Addr \ {a, b} : n.vecIns[x] = h.vecIns[x]
      /\ Len(n.vecIns[a]) = l - k + 1
      /\ \A i \in 1 .. Len(n.vecIns[a]) : n.vecIns[a][i] = h.vecIns[b][k + i - 1]
      /\ Len(n.vecIns[b]) = k - 1
      /\ \A i \in 1 .. Len(n.vecIns[b]) : n.vecIns[b][i] = h.vecIns[b][i]
      /\ n.readOnly = [h.readOnly EXCEPT ![a] = TRUE, ![b] = TRUE]
  BY <1>2 DEF Parts
<1>5. /\ l \in Nat /\ k \in Nat /\ a \in Nat /\ b \in Nat
      /\ \A x \in Addr : h.vecIns[x] \in Seq(Addr)
      /\ h.readOnly \in [Addr -> BOOLEAN] /\ h.succs \in [Addr -> SUBSET Addr]
      /\ h.termAddr \in [Addr -> Nat] /\ h.succsMap \in [Addr -> SUBSET Addr]
  <2>1. a \in Nat /\ b \in Nat /\ l \in Nat
    BY AddrFacts, LenFacts
  <2>2. k \in Nat
    BY <1>4, <2>1
  <2>3. /\ \A x \in Addr : h.vecIns[x] \in Seq(Addr)
        /\ h.readOnly \in [Addr -> BOOLEAN] /\ h.succs \in [Addr -> SUBSET Addr]
        /\ h.termAddr \in [Addr -> Nat] /\ h.succsMap \in [Addr -> SUBSET Addr]
    BY DEF Graph
  <2> QED BY <2>1, <2>2, <2>3
<1>6. /\ \A i \in 1 .. l : h.vecIns[b][i] = b + i - 1
      /\ \A i \in 1 .. l - 1 : Ran(e, h.vecIns[b][i], h.vecIns[b][i + 1])
  BY DEF LaidOut, Flows
<1>7. h.termAddr[b] = h.vecIns[b][l]
  BY DEF Flows, LastPc
<1> HIDE DEF l
<1>8. k - 1 \in 1 .. l - 1
  BY <1>1, <1>4, <1>5
<1>9. LastPc(n, a) = h.vecIns[b][l]
  <2> DEFINE j == Len(n.vecIns[a])
  <2>1. j \in 1 .. j /\ k + j - 1 = l
    <3>1. j = l - k + 1 /\ k \in 1 .. l /\ l \in Nat
      BY <1>4, <1>5
    <3> HIDE DEF j
    <3> QED BY <3>1
  <2>2. n.vecIns[a][j] = h.vecIns[b][k + j - 1]
    BY <1>4, <2>1
  <2>3. n.vecIns[a][j] = h.vecIns[b][l]
    <3> HIDE DEF j
    <3> QED BY <2>1, <2>2
  <2> QED BY <2>3 DEF LastPc
<1>10. LastPc(n, b) = h.vecIns[b][k - 1] /\ LastPc(n, b) = a - 1
  <2>1. k - 1 \in 1 .. Len(n.vecIns[b]) /\ Len(n.vecIns[b]) = k - 1
    BY <1>4, <1>5, <1>8
  <2>2. LastPc(n, b) = h.vecIns[b][k - 1]
    BY <1>4, <2>1 DEF LastPc
  <2>3. k - 1 \in 1 .. l
    BY <1>4, <1>5, <1>8
  <2>4. h.vecIns[b][k - 1] = b + (k - 1) - 1
    BY <1>6, <2>3
  <2>5. b + (k - 1) - 1 = a - 1
    BY <1>1, <1>5
  <2> QED BY <2>2, <2>4, <2>5
<1>11. Ran(e, LastPc(n, b), a)
  <2>1. Ran(e, h.vecIns[b][k - 1], h.vecIns[b][(k - 1) + 1])
    BY <1>6, <1>8
  <2>2. (k - 1) + 1 \in 1 .. l /\ b + ((k - 1) + 1) - 1 = a
    BY <1>1, <1>4, <1>5
  <2>3. h.vecIns[b][(k - 1) + 1] = a
    BY <1>6, <2>2
  <2> QED BY <1>10, <2>1, <2>3
<1>12. \A x \in Addr \ {a, b} : LastPc(n, x) = LastPc(h, x)
  BY <1>4 DEF LastPc
<1>13. ASSUME NEW x \in Addr, NEW i \in 1 .. Len(n.vecIns[x]) - 1
       PROVE  Ran(e, n.vecIns[x][i], n.vecIns[x][i + 1])
  <2>1. CASE x = a
    <3>1. /\ i \in 1 .. Len(n.vecIns[a]) /\ i + 1 \in 1 .. Len(n.vecIns[a])
          /\ k + i - 1 \in 1 .. l - 1 /\ k + (i + 1) - 1 = (k + i - 1) + 1
      BY <1>4, <1>5, <2>1
    <3>2. /\ n.vecIns[x][i] = h.vecIns[b][k + i - 1]
          /\ n.vecIns[x][i + 1] = h.vecIns[b][(k + i - 1) + 1]
      BY <1>4, <2>1, <3>1
    <3> QED BY <1>6, <3>1, <3>2
  <2>2. CASE x = b
    <3>1. /\ i \in 1 .. Len(n.vecIns[b]) /\ i + 1 \in 1 .. Len(n.vecIns[b])
          /\ i \in 1 .. l - 1
      BY SMTT(30), <1>4, <1>5, <2>2
    <3> QED BY <1>4, <1>6, <2>2, <3>1
  <2>3. CASE x \notin {a, b}
    BY <1>4, <2>3 DEF Flows
  <2> QED BY <2>1, <2>2, <2>3
<1>14. ASSUME NEW x \in Addr, n.readOnly[x] \/ x \in E
       PROVE  n.termAddr[x] = LastPc(n, x)
  <2>1. CASE x = a
    BY <1>3, <1>5, <1>7, <1>9, <2>1
  <2>2. CASE x = b
    BY <1>3, <1>5, <1>10, <2>2
  <2>3. CASE x \notin {a, b}
    <3>1. n.termAddr[x] = h.termAddr[x] /\ (h.readOnly[x] \/ x \in E)
      BY SMTT(30), <1>3, <1>4, <1>5, <1>14, <2>3
    <3> QED BY <1>12, <2>3, <3>1 DEF Flows
  <2> QED BY <2>1, <2>2, <2>3
<1>15. ASSUME NEW x \in Addr \ E, ~n.readOnly[x]
       PROVE  n.termAddr[x] = 0 /\ n.succs[x] = {} /\ n.succsMap[x] = {}
  <2>1. x \notin {a, b} /\ ~h.readOnly[x]
    BY SMTT(30), <1>4, <1>5, <1>15
  <2>2. /\ n.termAddr[x] = h.termAddr[x] /\ n.succs[x] = h.succs[x]
        /\ n.succsMap[x] = h.succsMap[x]
    BY <1>3, <1>5, <2>1
  <2> QED BY <2>1, <2>2 DEF Flows
<1>16. ASSUME NEW x \in Addr, NEW c \in n.succs[x]
       PROVE  Ran(e, LastPc(n, x), c)
  <2>1. CASE x = a
    <3>1. c \in h.succs[b]
      BY <1>3, <1>5, <1>16, <2>1
    <3>2. Ran(e, LastPc(h, b), c)
      BY <3>1 DEF Flows
    <3> QED BY <1>9, <2>1, <3>2 DEF LastPc, l
  <2>2. CASE x = b
    BY <1>3, <1>5, <1>11, <1>16, <2>2
  <2>3. CASE x \notin {a, b}
    <3>1. c \in h.succs[x]
      BY <1>3, <1>5, <1>16, <2>3
    <3> QED BY <1>12, <2>3, <3>1 DEF Flows
  <2> QED BY <2>1, <2>2, <2>3
<1>17. a \in n.succs[b]
  BY <1>3, <1>5
<1>18. Flows(n, e, E)
  BY <1>13, <1>14, <1>15, <1>16 DEF Flows
<1> QED BY <1>17, <1>18

-----------------------------------------------------------------------------
LEMMA SuccessorFlow ==
  ASSUME NEW h, NEW b, Shut(h, b), NEW e, NEW E, Flows(h, e, E),
         h.readOnly[b] \/ b \in E, NEW a \in Addr, Ran(e, LastPc(h, b), a),
         NEW s, s = Successor(h, b, a)
  PROVE  Flows(s.graph, e, E)
<1> DEFINE hit == {x \in h.succsMap[b] : Key(x) = Key(a)}
           own == BbInBlock(h, a)
           f   == FindBlock(h, b, a)
<1>1. /\ WellFormed(h) /\ LaidOut(h) /\ h \in Graph /\ b \in h.bbMap /\ b \in Addr
      /\ a \in Slot /\ h.bbMap \subseteq Addr /\ h.vecIns[b] # <<>>
      /\ \A x \in h.bbMap \ {b} : Closed(h, x)
  BY AddrFacts DEF Shut, Sound, WellFormed, Graph
<1>2. CASE hit # {}
  <2> DEFINE c == CHOOSE x \in hit : TRUE
  <2>1. f = [blk |-> c, graph |-> h]
    BY <1>2 DEF FindBlock
  <2>2. c \in h.bbMap
    BY <1>1, <1>2 DEF WellFormed, MapsIn
  <2> HIDE DEF c, f
  <2>3. c # NoBlock
    BY <1>1, <2>2, AddrFacts
  <2>4. s = [blk |-> c, graph |-> h]
    BY <2>1, <2>3 DEF Successor, f
  <2>5. s.graph = h
    BY <2>4
  <2> QED BY <2>5
<1>3. CASE hit = {} /\ a \in h.bbMap
  <2> DEFINE n == AddSuccessor(h, b, a)
  <2>1. f = [blk |-> a, graph |-> n]
    BY <1>3 DEF FindBlock
  <2>2. Flows(n, e, E)
    BY <1>1, AddSuccessorFlow
  <2> HIDE DEF n, f
  <2>3. s = [blk |-> a, graph |-> n]
    BY <2>1, AddrFacts DEF Successor, f
  <2>4. s.graph = n
    BY <2>3
  <2> QED BY <2>2, <2>4
<1>4. CASE hit = {} /\ a \notin h.bbMap /\ own # NoBlock
  <2> DEFINE m == Split(h, own, a)
             n == AddSuccessor(m, b, a)
  <2>1. own \in h.bbMap /\ own \in Addr /\ own # a
    BY <1>1, <1>4 DEF BbInBlock, WellFormed, MapsIn
  <2>2. a \in Extent(h, own)
    BY <1>1, <2>1 DEF LaidOut, BbInBlock
  <2>3. a \in Insns(h, own)
    BY <1>1, <2>1, <2>2, ExtentInsns
  <2>4. f = [blk |-> a, graph |-> n]
    BY <1>4, <2>3 DEF FindBlock
  <2> HIDE DEF own, hit
  <2>5. h.readOnly[own] \/ own \in E
    BY <1>1, <2>1 DEF Closed
  <2>6. Flows(m, e, E) /\ a \in m.succs[own]
    BY <1>1, <2>1, <2>2, <2>5, SplitFlow
  <2>7. /\ Closed(m, own) /\ Closed(m, a)
        /\ \A x \in Addr \ {a, own} : /\ m.vecIns[x] = h.vecIns[x]
                                     /\ m.readOnly[x] = h.readOnly[x]
    BY <1>1, <1>4, <2>1, <2>2, SplitLaid
  <2>8. m \in Graph
    BY <1>1, <1>4, <2>1, <2>3, SplitWF DEF WellFormed
  <2> HIDE DEF m
  <2>9. m.vecIns[b] # <<>> /\ (m.readOnly[b] \/ b \in E)
    BY <1>1, <1>4, <2>7 DEF Closed
  <2>10. a \in m.succs[b] \/ Ran(e, LastPc(m, b), a)
    <3>1. CASE b = own
      BY <2>6, <3>1
    <3>2. CASE b # own
      BY <1>1, <1>4, <2>7, <3>2 DEF LastPc
    <3> QED BY <3>1, <3>2
  <2>11. Flows(n, e, E)
    BY <1>1, <2>6, <2>8, <2>9, <2>10, AddSuccessorFlow
  <2> HIDE DEF n, f
  <2>12. s = [blk |-> a, graph |-> n]
    BY <2>4, AddrFacts DEF Successor, f
  <2>13. s.graph = n
    BY <2>12
  <2> QED BY <2>11, <2>13
<1>5. CASE hit = {} /\ a \notin h.bbMap /\ own = NoBlock
  <2> DEFINE m == Construct(h, a)
             n == AddSuccessor(m, b, a)
  <2>1. f.blk = NoBlock
    BY <1>5 DEF FindBlock
  <2>2. s = [blk |-> a, graph |-> n]
    BY <2>1 DEF Successor, NewBlock, f
  <2>3. Flows(m, e, E)
    BY <1>1, ConstructFlow
  <2>4. m \in Graph
    BY <1>1, ConstructWF DEF WellFormed
  <2>5. m.vecIns = h.vecIns /\ m.readOnly = h.readOnly
    BY <1>1 DEF Construct, Graph
  <2> HIDE DEF m
  <2>6. LastPc(m, b) = LastPc(h, b)
    BY <2>5 DEF LastPc
  <2>7. Flows(n, e, E)
    BY <1>1, <2>3, <2>4, <2>5, <2>6, AddSuccessorFlow
  <2> HIDE DEF n
  <2>8. s.graph = n
    BY <2>2
  <2> QED BY <2>7, <2>8
<1> QED BY <1>2, <1>3, <1>4, <1>5

LEMMA GetNextBlockFlow ==
  ASSUME NEW h, NEW b, Shut(h, b), NEW e, Flows(h, e, {b}),
         NEW a \in Addr, Ran(e, LastPc(h, b), a), NEW t, t = GetNextBlock(h, b, a)
  PROVE  /\ Flows(t.graph, e, {})
         /\ ~t.graph.readOnly[t.blk] => t.graph.vecIns[t.blk] = <<>>
<1> DEFINE s == Successor(h, b, a)
           n == SetReadOnly(s.graph, b)
<1>1. Flows(s.graph, e, {b})
  BY SuccessorFlow
<1>2. Reached(s, b, a)
  BY SuccessorReached
<1>3. t.blk = s.blk /\ t.graph = n
  BY DEF GetNextBlock
<1> HIDE DEF s
<1>4. s.graph \in Graph /\ b \in Addr /\ s.blk \in Addr
  BY <1>2 DEF Reached, Sound, WellFormed, Graph
<1>5. /\ n.vecIns = s.graph.vecIns /\ n.termAddr = s.graph.termAddr
      /\ n.succs = s.graph.succs /\ n.succsMap = s.graph.succsMap
      /\ \A x \in Addr : n.readOnly[x] <=> (s.graph.readOnly[x] \/ x = b)
  BY <1>4 DEF SetReadOnly, Graph
<1> HIDE DEF n
<1>6. \A x \in Addr : LastPc(n, x) = LastPc(s.graph, x)
  BY <1>5 DEF LastPc
<1>7. Flows(n, e, {})
  BY <1>1, <1>5, <1>6 DEF Flows
<1>8. ~n.readOnly[s.blk] => n.vecIns[s.blk] = <<>>
  BY <1>2, <1>4, <1>5 DEF Reached, Closed, Fresh
<1> QED BY <1>3, <1>7, <1>8

(* Unless succsMap holds another block with the key of a, the way from b   *)
(* to a leads to the block that starts at a.                               *)
LEMMA SuccessorLands ==
  ASSUME NEW h, NEW b, Shut(h, b), NEW a \in Addr,
         \A x \in h.succsMap[b] : Key(x) = Key(a) => x = a,
         NEW s, s = Successor(h, b, a)
  PROVE  s.blk = a
<1> DEFINE hit == {x \in h.succsMap[b] : Key(x) = Key(a)}
           own == BbInBlock(h, a)
<1>1. /\ WellFormed(h) /\ LaidOut(h) /\ h \in Graph /\ a \in Slot
      /\ h.bbMap \subseteq Addr
  BY AddrFacts DEF Shut, Sound, WellFormed, Graph
<1>2. FindBlock(h, b, a).blk \in {a, NoBlock}
  <2>1. CASE hit # {}
    <3>1. (CHOOSE x \in hit : TRUE) = a
      BY <2>1
    <3> QED BY <2>1, <3>1 DEF FindBlock
  <2>2. CASE hit = {} /\ a \in h.bbMap
    BY <2>2 DEF FindBlock
  <2>3. CASE hit = {} /\ a \notin h.bbMap /\ own # NoBlock
    <3>1. own \in h.bbMap /\ own \in Addr
      BY <1>1, <2>3 DEF BbInBlock, WellFormed, MapsIn
    <3>2. a \in Extent(h, own)
      BY <1>1, <3>1 DEF LaidOut, BbInBlock
    <3>3. a \in Insns(h, own)
      BY <1>1, <3>1, <3>2, ExtentInsns
    <3> QED BY <2>3, <3>3 DEF FindBlock
  <2>4. CASE hit = {} /\ a \notin h.bbMap /\ own = NoBlock
    BY <2>4 DEF FindBlock
  <2> QED BY <2>1, <2>2, <2>3, <2>4
<1> QED BY <1>2, AddrFacts DEF Successor

-----------------------------------------------------------------------------
(* The last instruction of an open block ran into the record that is next. *)
Awaits(h, e, b, p) ==
  ~h.readOnly[b] /\ h.vecIns[b] # <<>> => Ran(e, LastPc(h, b), p)

LEMMA SetTermAddrFlow ==
  ASSUME NEW h \in Graph, NEW e, Flows(h, e, {}), NEW b \in Addr, ~h.readOnly[b],
         h.vecIns[b] # <<>>, NEW n, n = SetTermAddr(h, b, LastPc(h, b))
  PROVE  Flows(n, e, {b}) /\ n.succsMap[b] = {} /\ LastPc(n, b) = LastPc(h, b)
<1>1. h.termAddr[b] = 0 /\ h.succs[b] = {} /\ h.succsMap[b] = {}
  BY DEF Flows
<1>2. /\ n.vecIns = h.vecIns /\ n.readOnly = h.readOnly
      /\ n.succs = h.succs /\ n.succsMap = h.succsMap
      /\ \A x \in Addr : n.termAddr[x] = IF x = b THEN LastPc(h, b) ELSE h.termAddr[x]
  BY <1>1 DEF SetTermAddr, Graph
<1>3. \A x \in Addr : LastPc(n, x) = LastPc(h, x)
  BY <1>2 DEF LastPc
<1>4. \A x \in Addr : n.readOnly[x] \/ x \in {b} => n.termAddr[x] = LastPc(n, x)
  BY <1>2, <1>3 DEF Flows
<1>5. \A x \in Addr \ {b} : ~n.readOnly[x] =>
        n.termAddr[x] = 0 /\ n.succs[x] = {} /\ n.succsMap[x] = {}
  BY <1>2 DEF Flows
<1>6. \A x \in Addr : \A c \in n.succs[x] : Ran(e, LastPc(n, x), c)
  BY <1>2, <1>3 DEF Flows
<1>7. \A x \in Addr : \A i \in 1 .. Len(n.vecIns[x]) - 1 :
        Ran(e, n.vecIns[x][i], n.vecIns[x][i + 1])
  BY <1>2 DEF Flows
<1> QED BY <1>1, <1>2, <1>3, <1>4, <1>5, <1>6, <1>7 DEF Flows

LEMMA AddInsFlow ==
  ASSUME NEW h \in Graph, NEW e, Flows(h, e, {}), NEW b \in Addr, ~h.readOnly[b],
         NEW a \in Addr, Awaits(h, e, b, a), NEW n, n = AddIns(h, b, a)
  PROVE  Flows(n, e, {}) /\ LastPc(n, b) = a
<1> DEFINE l == Len(h.vecIns[b])
<1>1. AddsIns(n, h, b, a)
  BY AddInsFields
<1>2. h.vecIns \in [Addr -> Seq(Addr)] /\ h.vecIns[b] \in Seq(Addr) /\ l \in Nat
  BY LenFacts DEF Graph
<1>3. /\ n.vecIns[b] = Append(h.vecIns[b], a)
      /\ \A x \in Addr \ {b} : n.vecIns[x] = h.vecIns[x]
      /\ n.readOnly = h.readOnly /\ n.termAddr = h.termAddr
      /\ n.succs = h.succs /\ n.succsMap = h.succsMap
  BY <1>1, <1>2 DEF AddsIns
<1>4. /\ Len(n.vecIns[b]) = l + 1
      /\ \A i \in 1 .. l : n.vecIns[b][i] = h.vecIns[b][i]
      /\ n.vecIns[b][l + 1] = a
  BY <1>2, <1>3
<1>5. l > 0 => Ran(e, h.vecIns[b][l], a)
  BY <1>2 DEF Awaits, LastPc
<1>6. \A i \in 1 .. l - 1 : Ran(e, h.vecIns[b][i], h.vecIns[b][i + 1])
  BY DEF Flows
<1> HIDE DEF l
<1>7. ASSUME NEW x \in Addr, NEW i \in 1 .. Len(n.vecIns[x]) - 1
      PROVE  Ran(e, n.vecIns[x][i], n.vecIns[x][i + 1])
  <2>1. CASE x = b /\ i = l
    <3>1. l \in 1 .. l /\ l > 0
      BY <1>2, <2>1
    <3> QED BY <1>4, <1>5, <2>1, <3>1
  <2>2. CASE x = b /\ i # l
    <3>1. i \in 1 .. l - 1 /\ i \in 1 .. l /\ i + 1 \in 1 .. l
      BY <1>2, <1>4, <2>2
    <3> QED BY <1>4, <1>6, <2>2, <3>1
  <2>3. CASE x # b
    BY <1>3, <2>3 DEF Flows
  <2> QED BY <2>1, <2>2, <2>3
<1>8. \A x \in Addr \ {b} : LastPc(n, x) = LastPc(h, x)
  BY <1>3 DEF LastPc
<1>9. LastPc(n, b) = a
  BY <1>4 DEF LastPc
<1>10. \A x \in Addr : n.readOnly[x] \/ x \in {} => n.termAddr[x] = LastPc(n, x)
  BY <1>3, <1>8 DEF Flows
<1>11. \A x \in Addr \ {} : ~n.readOnly[x] =>
         n.termAddr[x] = 0 /\ n.succs[x] = {} /\ n.succsMap[x] = {}
  BY <1>3 DEF Flows
<1>12. \A x \in Addr : \A c \in n.succs[x] : Ran(e, LastPc(n, x), c)
  BY <1>3, <1>8 DEF Flows
<1> QED BY <1>7, <1>9, <1>10, <1>11, <1>12 DEF Flows

LEMMA TranslateOpenFlow ==
  ASSUME pc \in Addr, NEW npc \in Addr, NEW h, NEW b, Settled(h, b, pc),
         ~h.readOnly[b], h.insMap[pc] = NoBlock, NEW e, Flows(h, e, {}),
         Awaits(h, e, b, pc), Ran(e, pc, npc), NEW t, t = TranslateRiscv(h, b, npc)
  PROVE  Flows(t.graph, e, {}) /\ Awaits(t.graph, e, t.blk, npc)
<1> DEFINE n == AddIns(h, b, pc)
           m == SetTermAddr(n, b, pc)
<1>1. /\ WellFormed(h) /\ LaidOut(h) /\ b \in h.bbMap /\ b \in Addr /\ pc \in Nat
      /\ h \in Graph /\ h.bbMap \subseteq Addr /\ h.fault = "none"
      /\ \A x \in h.bbMap \ {b} : Closed(h, x)
      /\ pc = b + Len(h.vecIns[b])
  BY AddrFacts DEF Settled, Sound, WellFormed, Graph
<1>2. /\ LaidOut(n)
      /\ n.bbMap = h.bbMap /\ n.readOnly = h.readOnly /\ n.fault = h.fault
      /\ n.vecIns[b] # <<>> /\ Len(n.vecIns[b]) = Len(h.vecIns[b]) + 1
      /\ \A x \in Addr \ {b} : n.vecIns[x] = h.vecIns[x]
  <2>1. /\ WellFormed(h) /\ LaidOut(h) /\ b \in h.bbMap
        /\ pc = b + Len(h.vecIns[b])
    BY <1>1
  <2> HIDE DEF n
  <2>2. n = AddIns(h, b, pc)
    BY DEF n
  <2> QED BY <2>1, <2>2, AddInsLaid
<1>3. WellFormed(n) /\ n \in Graph
  BY <1>1, AddInsWF DEF WellFormed
<1>4. Flows(n, e, {}) /\ LastPc(n, b) = pc
  <2>1. h \in Graph /\ b \in Addr /\ ~h.readOnly[b] /\ Flows(h, e, {})
        /\ Awaits(h, e, b, pc)
    BY <1>1
  <2> HIDE DEF n
  <2>2. n = AddIns(h, b, pc)
    BY DEF n
  <2> QED BY <2>1, <2>2, AddInsFlow
<1>5. t = IF EndsBlock(code[pc]) THEN GetNextBlock(m, b, npc)
          ELSE [blk |-> b, graph |-> n]
  BY DEF TranslateRiscv
<1> HIDE DEF n
<1>6. Sound(n) /\ \A x \in n.bbMap \ {b} : Closed(n, x)
  BY <1>1, <1>2, <1>3 DEF Sound, Closed
<1>7. CASE EndsBlock(code[pc])
  <2>1. Sound(m) /\ Same(m, n)
    BY <1>1, <1>6, SetTermAddrSound
  <2>2. Flows(m, e, {b}) /\ LastPc(m, b) = pc
    <3>1. m = SetTermAddr(n, b, LastPc(n, b))
      BY <1>4
    <3> HIDE DEF m
    <3>2. ~n.readOnly[b] /\ n.vecIns[b] # <<>> /\ b \in Addr
      BY <1>1, <1>2
    <3>3. Flows(m, e, {b}) /\ LastPc(m, b) = LastPc(n, b)
      BY <1>3, <1>4, <3>1, <3>2, SetTermAddrFlow
    <3> QED BY <1>4, <3>3
  <2> HIDE DEF m
  <2>3. Shut(m, b)
    BY <1>1, <1>2, <1>6, <2>1 DEF Shut, Same, Closed
  <2>4. t = GetNextBlock(m, b, npc)
    BY <1>5, <1>7
  <2>5. Flows(t.graph, e, {}) /\ (~t.graph.readOnly[t.blk] => t.graph.vecIns[t.blk] = <<>>)
    BY <2>2, <2>3, <2>4, GetNextBlockFlow
  <2> QED BY <2>5 DEF Awaits
<1>8. CASE ~EndsBlock(code[pc])
  <2>1. t.blk = b /\ t.graph = n
    BY <1>5, <1>8
  <2> QED BY <1>4, <2>1 DEF Awaits
<1> QED BY <1>7, <1>8

(* The block that starts at pc is closed: if the instruction there ends a  *)
(* block, it is the only one of this block.                                *)
LEMMA TranslateClosedFlow ==
  ASSUME pc \in Addr, NEW npc \in Addr, NEW h, Settled(h, pc, pc), h.readOnly[pc],
         Straight(h, code, {}), NEW e, Flows(h, e, {}), Ran(e, pc, npc),
         NEW t, t = TranslateRiscv(h, pc, npc)
  PROVE  Flows(t.graph, e, {}) /\ Awaits(t.graph, e, t.blk, npc)
<1> DEFINE l == Len(h.vecIns[pc])
<1>1. AddIns(h, pc, pc) = h
  BY DEF AddIns
<1>2. h \in Graph /\ h.vecIns[pc] # <<>> /\ LaidOut(h) /\ pc \in Nat /\ pc # 0
  BY AddrFacts DEF Settled, Sound, WellFormed, NoBlock
<1>3. CASE EndsBlock(code[pc])
  <2>1. l \in Nat /\ l > 0
    BY <1>2, LenFacts
  <2>2. h.vecIns[pc][1] = pc
    <3>1. 1 \in 1 .. l /\ pc + 1 - 1 = pc
      BY <1>2, <2>1
    <3> QED BY <1>2, <3>1 DEF LaidOut
  <2>3. \A i \in 1 .. l - 1 : ~EndsBlock(code[h.vecIns[pc][i]])
    BY DEF Straight
  <2>4. l = 1
    <3> HIDE DEF l
    <3> QED BY <1>3, <2>1, <2>2, <2>3
  <2>5. LastPc(h, pc) = pc
    BY <2>2, <2>4 DEF LastPc
  <2>6. h.termAddr[pc] = pc
    BY <2>5 DEF Flows
  <2>7. SetTermAddr(h, pc, pc) = h
    BY <1>2, <2>6 DEF SetTermAddr
  <2>8. t = GetNextBlock(h, pc, npc)
    BY <1>1, <1>3, <2>7 DEF TranslateRiscv
  <2>9. Shut(h, pc)
    BY <1>2, SettledShut
  <2>10. Flows(h, e, {pc})
    BY DEF Flows
  <2>11. Flows(t.graph, e, {}) /\ (~t.graph.readOnly[t.blk] => t.graph.vecIns[t.blk] = <<>>)
    BY <2>5, <2>8, <2>9, <2>10, GetNextBlockFlow
  <2> QED BY <2>11 DEF Awaits
<1>4. CASE ~EndsBlock(code[pc])
  <2>1. t = [blk |-> pc, graph |-> h]
    BY <1>1, <1>4 DEF TranslateRiscv
  <2>2. t.blk = pc /\ t.graph = h
    BY <2>1
  <2> QED BY <2>2 DEF Awaits
<1> QED BY <1>3, <1>4

-----------------------------------------------------------------------------
(* What the graph has to do with the steps e allows.                       *)
RunInv(e) == /\ ReplayInv /\ ShapeInv
             /\ Flows(g, e, {})
             /\ Awaits(g, e, cBB, pc)

(* The inductive invariant: the steps are those that were counted.         *)
EdgeInv == RunInv(globalEdges)

LEMMA InitRunInv == ASSUME Init, NEW e PROVE RunInv(e)
<1>1. ReplayInv /\ ShapeInv
  BY InitReplayInv, InitShapeInv
<1>2. /\ g.vecIns = [a \in Addr |-> <<>>] /\ g.readOnly = [a \in Addr |-> FALSE]
      /\ g.termAddr = [a \in Addr |-> 0] /\ g.succs = [a \in Addr |-> {}]
      /\ g.succsMap = [a \in Addr |-> {}] /\ cBB \in Addr
  BY DEF Init, Construct, EmptyGraph
<1>3. \A x \in Addr : 1 .. Len(g.vecIns[x]) - 1 = {}
  <2>1. \A x \in Addr : Len(g.vecIns[x]) = 0
    BY <1>2
  <2> QED BY <2>1
<1>4. Flows(g, e, {})
  BY <1>2, <1>3 DEF Flows
<1>5. Awaits(g, e, cBB, pc)
  BY <1>2 DEF Awaits
<1> QED BY <1>1, <1>4, <1>5 DEF RunInv

LEMMA InitEdgeInv == Init => EdgeInv
BY InitRunInv DEF EdgeInv

(* The count of the record's edge comes first and takes nothing back.      *)
LEMMA CountRan ==
  ASSUME EdgeCap > 0, EdgeInv, NEW npc \in Addr, CountEdge(npc)
  PROVE  /\ Ran(globalEdges', pc, npc)
         /\ Flows(g, globalEdges', {})
         /\ Awaits(g, globalEdges', cBB, pc)
<1>1. pc \in Addr /\ globalEdges \in [Addr -> [Addr -> 0 .. EdgeCap]] /\ g \in Graph
  BY DEF EdgeInv, RunInv, ReplayInv, GraphInv, TypeOK
<1>2. \A p, q \in Addr : globalEdges[p][q] \in 0 .. EdgeCap
  BY <1>1
<1>3. \A p, q \in Addr : globalEdges'[p][q] =
        IF p = pc /\ q = npc
        THEN (IF globalEdges[p][q] < EdgeCap THEN globalEdges[p][q] + 1
              ELSE globalEdges[p][q])
        ELSE globalEdges[p][q]
  BY <1>1 DEF CountEdge
<1>4. EdgeCap \in Nat
  BY EdgeCapAssumption
<1>5. Ran(globalEdges', pc, npc)
  <2>1. /\ globalEdges[pc][npc] \in 0 .. EdgeCap
        /\ globalEdges'[pc][npc] = IF globalEdges[pc][npc] < EdgeCap
                                   THEN globalEdges[pc][npc] + 1
                                   ELSE globalEdges[pc][npc]
    BY <1>1, <1>2, <1>3
  <2> QED BY <1>4, <2>1 DEF Ran
<1>6. \A p, q \in Addr : Ran(globalEdges, p, q) => Ran(globalEdges', p, q)
  BY <1>2, <1>3, <1>4 DEF Ran
<1>7. /\ LaidOut(g) /\ cBB \in g.bbMap /\ g.bbMap \subseteq Addr
      /\ \A x \in Addr : g.succs[x] \subseteq Addr
  BY <1>1 DEF EdgeInv, RunInv, ReplayInv, Settled, Sound, Graph
<1>8. \A x \in Addr : \A i \in 1 .. Len(g.vecIns[x]) : g.vecIns[x][i] \in Addr
  BY <1>1, Length
<1>9. ASSUME NEW x \in Addr, g.vecIns[x] # <<>> PROVE LastPc(g, x) \in Addr
  <2>1. Len(g.vecIns[x]) \in Nat /\ Len(g.vecIns[x]) > 0
    BY <1>1, <1>9, LenFacts
  <2>2. Len(g.vecIns[x]) \in 1 .. Len(g.vecIns[x])
    BY <2>1
  <2> QED BY <1>8, <2>2 DEF LastPc
<1>10. ASSUME NEW x \in Addr, NEW c \in g.succs[x] PROVE g.vecIns[x] # <<>>
  <2>1. g.readOnly[x]
    BY <1>10 DEF EdgeInv, RunInv, Flows
  <2>2. x \in g.bbMap
    BY <1>7, <2>1 DEF LaidOut
  <2> QED BY <2>1, <2>2 DEF EdgeInv, RunInv, ReplayInv, Settled, Closed
<1>11. ASSUME NEW x \in Addr, NEW i \in 1 .. Len(g.vecIns[x]) - 1
       PROVE  Ran(globalEdges', g.vecIns[x][i], g.vecIns[x][i + 1])
  <2>1. i \in 1 .. Len(g.vecIns[x]) /\ i + 1 \in 1 .. Len(g.vecIns[x])
    <3>1. Len(g.vecIns[x]) \in Nat
      BY <1>1, Length
    <3> QED BY <3>1
  <2>2. g.vecIns[x][i] \in Addr /\ g.vecIns[x][i + 1] \in Addr
    BY <1>8, <2>1
  <2>3. Ran(globalEdges, g.vecIns[x][i], g.vecIns[x][i + 1])
    BY DEF EdgeInv, RunInv, Flows
  <2> QED BY <1>6, <2>2, <2>3
<1>12. ASSUME NEW x \in Addr, NEW c \in g.succs[x]
       PROVE  Ran(globalEdges', LastPc(g, x), c)
  <2>1. LastPc(g, x) \in Addr /\ c \in Addr
    BY <1>7, <1>9, <1>10
  <2>2. Ran(globalEdges, LastPc(g, x), c)
    BY DEF EdgeInv, RunInv, Flows
  <2> QED BY <1>6, <2>1, <2>2
<1>13. Flows(g, globalEdges', {})
  BY <1>11, <1>12 DEF EdgeInv, RunInv, Flows
<1>14. Awaits(g, globalEdges', cBB, pc)
  BY <1>1, <1>6, <1>7, <1>9 DEF EdgeInv, RunInv, Awaits
<1> QED BY <1>5, <1>13, <1>14

LEMMA JoinFlow ==
  ASSUME ~Traps, ReplayInv, ShapeInv, NEW npc \in NextPcs(pc), Join(npc), NEW e,
         Flows(g, e, {}), Awaits(g, e, cBB, pc), Ran(e, pc, npc)
  PROVE  Flows(g', e, {}) /\ Awaits(g', e, cBB', npc)
<1> DEFINE b == Resync
           m == SetTermAddr(g, b, LastPc(g, b))
           s == GetNextBlock(m, b, pc)
           t == TranslateRiscv(s.graph, s.blk, npc)
<1>1. /\ b = cBB /\ ~g.readOnly[b] /\ g.insMap[pc] # NoBlock
      /\ Settled(g, b, pc) /\ Sound(g) /\ b \in Addr /\ g \in Graph
      /\ Form(g, code, {}, b)
  BY SMTT(30), ResyncSettled DEF Join, BbInBlock, ReplayInv, ShapeInv, Settled, Sound,
     WellFormed, Graph
<1>2. pc \in Addr /\ npc \in Addr
  BY DEF ReplayInv, GraphInv, TypeOK, NextPcs
<1>3. ~IsEmpty(g, b)
  <2> SUFFICES ASSUME IsEmpty(g, b) PROVE FALSE
    OBVIOUS
  <2>1. g.vecIns[b] = <<>> /\ Len(g.vecIns[b]) = 0
    BY DEF IsEmpty
  <2>2. pc = b
    BY <1>1, <2>1, AddrFacts DEF Settled
  <2> QED BY <1>1, <2>1, <2>2 DEF Settled
<1>4. (cBB' = s.blk /\ g' = s.graph /\ s.graph.fault # "none")
      \/ (cBB' = t.blk /\ g' = t.graph)
  BY <1>3 DEF Join, Become
<1>5. Ran(e, LastPc(g, b), pc)
  BY <1>1, <1>3 DEF Awaits, IsEmpty
<1> HIDE DEF b
<1>6. LastPc(g, b) \in Nat
  <2>1. g.vecIns[b] \in Seq(Addr) /\ g.vecIns[b] # <<>>
    BY <1>1, <1>3 DEF IsEmpty, Graph
  <2>2. g.vecIns[b][Len(g.vecIns[b])] \in Addr
    BY <2>1
  <2> QED BY <2>2, AddrFacts DEF LastPc
<1>7. Sound(m) /\ Same(m, g)
  BY <1>1, <1>6, SetTermAddrSound
<1>8. Flows(m, e, {b}) /\ m.succsMap[b] = {} /\ LastPc(m, b) = LastPc(g, b)
  BY <1>1, <1>3, SetTermAddrFlow DEF IsEmpty
<1>9. Form(m, code, {b}, b)
  BY <1>1, <1>6, SetTermAddrForm, WiderForm
<1> HIDE DEF m
<1>10. Shut(m, b) /\ m.insMap[pc] # NoBlock
  BY <1>1, <1>3, <1>7 DEF Shut, Same, Settled, IsEmpty, Closed
<1>11. Settled(s.graph, s.blk, pc) /\ s.graph.readOnly[s.blk]
  BY <1>2, <1>10, GetNextBlockSettled
<1>12. s.blk = pc
  <2>1. Successor(m, b, pc).blk = pc
    BY <1>2, <1>8, <1>10, SuccessorLands
  <2> QED BY <2>1 DEF GetNextBlock, s
<1>13. Flows(s.graph, e, {})
  BY <1>2, <1>5, <1>8, <1>10, GetNextBlockFlow
<1>14. Straight(s.graph, code, {})
  BY <1>2, <1>9, GetNextBlockForm DEF Form
<1> HIDE DEF s
<1>15. Flows(t.graph, e, {}) /\ Awaits(t.graph, e, t.blk, npc)
  BY <1>2, <1>11, <1>12, <1>13, <1>14, TranslateClosedFlow
<1>16. s.graph.fault = "none"
  BY <1>11 DEF Settled, Sound
<1> HIDE DEF t
<1> QED BY <1>4, <1>15, <1>16

LEMMA RecordFlow ==
  ASSUME ~Traps, ReplayInv, ShapeInv, NEW npc \in NextPcs(pc),
         Stay(npc) \/ Leave(npc) \/ Build(npc) \/ Join(npc), NEW e,
         Flows(g, e, {}), Awaits(g, e, cBB, pc), Ran(e, pc, npc)
  PROVE  Flows(g', e, {}) /\ Awaits(g', e, cBB', npc)
<1> DEFINE b == Resync
<1>1. /\ g.readOnly[b] => Shut(g, b) /\ Settled(g, b, pc)
      /\ ~g.readOnly[b] => b = cBB
  BY ResyncSettled
<1>2. npc \in Addr /\ pc \in Addr
  BY DEF ReplayInv, GraphInv, TypeOK, NextPcs
<1>3. CASE Stay(npc)
  <2>1. g.readOnly[b] /\ cBB' = b /\ g' = g
    BY <1>3 DEF Stay, Become
  <2> QED BY <2>1 DEF Awaits
<1>4. CASE Leave(npc)
  <2> DEFINE s == Successor(g, b, npc)
  <2>1. g.readOnly[b] /\ pc = g.termAddr[b] /\ cBB' = s.blk /\ g' = s.graph
    BY <1>4 DEF Leave, Become
  <2> HIDE DEF b
  <2>2. Shut(g, b) /\ b \in Addr
    BY <1>1, <2>1 DEF Shut, Sound, WellFormed, Graph
  <2>3. LastPc(g, b) = pc
    BY <2>1, <2>2 DEF Flows
  <2>4. Flows(s.graph, e, {})
    BY <1>2, <2>1, <2>2, <2>3, SuccessorFlow
  <2>5. Reached(s, b, npc) /\ s.graph.readOnly[b]
    BY <1>2, <2>1, <2>2, SuccessorReached
  <2> HIDE DEF s
  <2>6. ~s.graph.readOnly[s.blk] => s.graph.vecIns[s.blk] = <<>>
    BY <2>5 DEF Reached, Closed, Fresh
  <2> QED BY <2>1, <2>4, <2>6 DEF Awaits
<1>5. CASE Build(npc)
  <2> DEFINE t == TranslateRiscv(g, b, npc)
  <2>1. /\ ~g.readOnly[b] /\ g.insMap[pc] = NoBlock
        /\ cBB' = t.blk /\ g' = t.graph
    BY <1>5 DEF Build, Become, BbInBlock
  <2>2. Settled(g, b, pc) /\ Awaits(g, e, b, pc)
    BY <1>1, <2>1 DEF ReplayInv
  <2> HIDE DEF b
  <2>3. Flows(t.graph, e, {}) /\ Awaits(t.graph, e, t.blk, npc)
    BY <1>2, <2>1, <2>2, TranslateOpenFlow
  <2> HIDE DEF t
  <2> QED BY <2>1, <2>3
<1>6. CASE Join(npc)
  BY <1>6, JoinFlow
<1> QED BY <1>3, <1>4, <1>5, <1>6

LEMMA StepEdgeInv ==
  ASSUME ~Traps, EdgeCap > 0, EdgeInv, [Next]_vars
  PROVE  EdgeInv'
<1>1. ReplayInv' /\ ShapeInv'
  BY StepReplayInv, StepShapeInv DEF EdgeInv, RunInv
<1>2. ASSUME NEW npc \in NextPcs(pc), Step(npc)
      PROVE  Flows(g', globalEdges', {}) /\ Awaits(g', globalEdges', cBB', pc')
  <2> DEFINE e == globalEdges'
  <2>1. npc \in Addr /\ pc' = npc
    BY <1>2 DEF NextPcs, Step
  <2>2. Ran(e, pc, npc) /\ Flows(g, e, {}) /\ Awaits(g, e, cBB, pc)
    BY <1>2, <2>1, CountRan DEF Step
  <2> HIDE DEF e
  <2>3. Flows(g', e, {}) /\ Awaits(g', e, cBB', npc)
    BY <1>2, <2>2, RecordFlow DEF Step, EdgeInv, RunInv
  <2> QED BY <2>1, <2>3 DEF e
<1>3. ASSUME EndTrace
      PROVE  Flows(g', globalEdges', {}) /\ Awaits(g', globalEdges', cBB', pc')
  BY <1>3 DEF EndTrace, EdgeInv, RunInv
<1>4. ASSUME UNCHANGED vars
      PROVE  Flows(g', globalEdges', {}) /\ Awaits(g', globalEdges', cBB', pc')
  BY <1>4 DEF vars, EdgeInv, RunInv
<1> QED BY <1>1, <1>2, <1>3, <1>4 DEF Next, EdgeInv, RunInv

(* Without exceptions every edge of the graph was executed, and the        *)
(* listing finds its weight: globalEdges counts it from the predecessor's  *)
(* termAddr to the successor's entry address.                              *)
THEOREM EdgesWereExecuted == ASSUME ~Traps, EdgeCap > 0 PROVE Spec => []EdgesExecuted
<1>1. EdgeInv => EdgesExecuted
  <2> SUFFICES ASSUME EdgeInv, NEW x \in g.bbMap, NEW c \in g.bbMap, c \in g.succs[x]
               PROVE  g.termAddr[x] \in Addr /\ globalEdges[g.termAddr[x]][c] > 0
    BY DEF EdgesExecuted, Edges
  <2>1. g \in Graph /\ x \in Addr /\ c \in Addr
    BY DEF EdgeInv, RunInv, ReplayInv, GraphInv, WellFormed, Graph
  <2>2. g.readOnly[x]
    BY <2>1 DEF EdgeInv, RunInv, Flows
  <2>3. g.vecIns[x] # <<>>
    BY <2>2 DEF EdgeInv, RunInv, ReplayInv, Settled, Closed
  <2>4. Len(g.vecIns[x]) \in 1 .. Len(g.vecIns[x])
    BY <2>1, <2>3, LenFacts
  <2>5. LastPc(g, x) \in Addr
    BY <2>1, <2>4, Length DEF LastPc
  <2>6. g.termAddr[x] = LastPc(g, x) /\ Ran(globalEdges, LastPc(g, x), c)
    BY <2>1, <2>2 DEF EdgeInv, RunInv, Flows
  <2> QED BY <2>5, <2>6 DEF Ran
<1>2. EdgeInv /\ [Next]_vars => EdgeInv'
  BY StepEdgeInv
<1> QED BY <1>1, <1>2, InitEdgeInv, PTL DEF Spec

-----------------------------------------------------------------------------
(* The same with the steps the program allows, which do not change: what   *)
(* the graph has to do with the program, however far the counters count.   *)
Possible == [p \in Addr |-> [q \in Addr |-> IF q \in NextPcs(p) THEN 1 ELSE 0]]

PathInv == RunInv(Possible)

LEMMA StepPathInv == ASSUME ~Traps, PathInv, [Next]_vars PROVE PathInv'
<1>1. ReplayInv' /\ ShapeInv'
  BY StepReplayInv, StepShapeInv DEF PathInv, RunInv
<1>2. Possible' = Possible
  BY DEF Next, Step, EndTrace, vars, Possible, NextPcs
<1>3. ASSUME NEW npc \in NextPcs(pc), Step(npc)
      PROVE  Flows(g', Possible, {}) /\ Awaits(g', Possible, cBB', pc')
  <2> DEFINE e == Possible
  <2>1. npc \in Addr /\ pc' = npc /\ pc \in Addr
    BY <1>3 DEF NextPcs, Step, PathInv, RunInv, ReplayInv, GraphInv, TypeOK
  <2>2. Ran(e, pc, npc)
    BY <1>3, <2>1 DEF Ran, Possible
  <2>3. ReplayInv /\ ShapeInv /\ Flows(g, e, {}) /\ Awaits(g, e, cBB, pc)
    BY DEF PathInv, RunInv
  <2> HIDE DEF e
  <2>4. Flows(g', e, {}) /\ Awaits(g', e, cBB', npc)
    BY <1>3, <2>2, <2>3, RecordFlow DEF Step
  <2> QED BY <2>1, <2>4 DEF e
<1>4. ASSUME UNCHANGED <<pc, g, cBB>>
      PROVE  Flows(g', Possible, {}) /\ Awaits(g', Possible, cBB', pc')
  BY <1>4 DEF PathInv, RunInv
<1>5. Flows(g', Possible, {}) /\ Awaits(g', Possible, cBB', pc')
  BY <1>3, <1>4 DEF Next, EndTrace, vars
<1> QED BY <1>1, <1>2, <1>5 DEF PathInv, RunInv

-----------------------------------------------------------------------------
(* Next: that no executed instruction is missing.                          *)

(* n has an owner for every address for which h has one. *)
Kept(n, h) == \A s \in Slot : h.insMap[s] # NoBlock => n.insMap[s] # NoBlock

(* A closed block that ends with a plain instruction was closed because    *)
(* the instruction after it was already in a block.                        *)
PlainNext(h, E) ==
  \A x \in h.bbMap :
    (h.readOnly[x] \/ x \in E) /\ ~EndsBlock(code[LastPc(h, x)])
      => h.insMap[LastPc(h, x) + 1] # NoBlock

LEMMA NextSlot ==
  ASSUME NEW h, NEW x \in h.bbMap, WellFormed(h), h.vecIns[x] # <<>>
  PROVE  LastPc(h, x) \in Addr /\ LastPc(h, x) + 1 \in Slot
<1>1. h \in Graph /\ x \in Addr
  BY DEF WellFormed, Graph
<1>2. Len(h.vecIns[x]) \in 1 .. Len(h.vecIns[x])
  BY <1>1, LenFacts
<1>3. LastPc(h, x) \in Addr
  BY <1>1, <1>2, Length DEF LastPc
<1>4. \A a \in Addr : a + 1 \in Slot
  BY AddrAssumption DEF Addr, Slot
<1> QED BY <1>3, <1>4

LEMMA SplitKept ==
  ASSUME NEW h, WellFormed(h), LaidOut(h), NEW b \in h.bbMap, NEW a \in Addr,
         a \notin h.bbMap, a \in Extent(h, b), NEW n, n = Split(h, b, a),
         \A x \in h.bbMap \ {b} : h.vecIns[x] # <<>>,
         NEW E, h.readOnly[b] \/ b \in E, PlainNext(h, E)
  PROVE  Kept(n, h) /\ PlainNext(n, E)
<1> DEFINE k == Offset(h, b, a)
           l == Len(h.vecIns[b])
<1>1. h \in Graph /\ b \in Addr /\ a # b /\ a \in Slot
  BY AddrFacts DEF WellFormed, Graph
<1>2. a \in Insns(h, b) /\ k = a - b + 1
  BY <1>1, ExtentInsns
<1>3. Parts(n, h, b, a, k)
  BY <1>1, <1>2, SplitPlaces
<1>4. n.bbMap = h.bbMap \cup {a}
  BY DEF Split
<1>5. LaidOut(n) /\ Closed(n, a)
  BY <1>1, SplitLaid
<1> HIDE DEF k
<1>6. /\ k \in 1 .. l
      /\ \A x \in Addr \ {a, b} : n.vecIns[x] = h.vecIns[x]
      /\ Len(n.vecIns[a]) = l - k + 1
      /\ \A i \in 1 .. Len(n.vecIns[a]) : n.vecIns[a][i] = h.vecIns[b][k + i - 1]
      /\ Len(n.vecIns[b]) = k - 1
      /\ \A i \in 1 .. Len(n.vecIns[b]) : n.vecIns[b][i] = h.vecIns[b][i]
      /\ n.readOnly = [h.readOnly EXCEPT ![a] = TRUE, ![b] = TRUE]
      /\ Kept(n, h)
  BY <1>3 DEF Parts, Kept
<1>7. l \in Nat /\ k \in Nat /\ a \in Nat /\ b \in Nat
  <2>1. l \in Nat /\ a \in Nat /\ b \in Nat
    BY <1>1, LenFacts, AddrFacts
  <2> QED BY <1>6, <2>1
<1>8. h.readOnly \in [Addr -> BOOLEAN]
  BY <1>1 DEF Graph
<1>9. h.vecIns[b] # <<>>
  <2>1. l > 0
    BY <1>6, <1>7
  <2> QED BY <1>1, <2>1, LenFacts
<1>10. \A i \in 1 .. l : h.vecIns[b][i] = b + i - 1
  BY <1>1 DEF LaidOut
<1> HIDE DEF l
<1>11. LastPc(n, a) = LastPc(h, b)
  <2> DEFINE j == Len(n.vecIns[a])
  <2>1. j \in 1 .. j /\ k + j - 1 = l
    BY <1>6, <1>7
  <2>2. n.vecIns[a][j] = h.vecIns[b][k + j - 1]
    BY <1>6, <2>1
  <2>3. n.vecIns[a][j] = h.vecIns[b][l]
    <3> HIDE DEF j
    <3> QED BY <2>1, <2>2
  <2> QED BY <2>3 DEF LastPc, l
<1>12. LastPc(n, b) + 1 = a
  <2>1. k - 1 \in 1 .. Len(n.vecIns[b]) /\ k - 1 \in 1 .. l
    BY <1>1, <1>2, <1>6, <1>7
  <2>2. LastPc(n, b) = h.vecIns[b][k - 1]
    BY <1>6, <2>1 DEF LastPc
  <2>3. h.vecIns[b][k - 1] = b + (k - 1) - 1
    BY <1>10, <2>1
  <2> QED BY <1>2, <1>7, <2>2, <2>3
<1>13. n.insMap[a] # NoBlock
  <2>1. h.insMap[a] = b /\ b # NoBlock
    BY <1>1, AddrFacts DEF LaidOut
  <2> QED BY <1>1, <1>6, <2>1 DEF Kept
<1>14. ASSUME NEW x \in n.bbMap, n.readOnly[x] \/ x \in E,
              ~EndsBlock(code[LastPc(n, x)])
       PROVE  n.insMap[LastPc(n, x) + 1] # NoBlock
  <2>1. CASE x = a
    <3>1. h.insMap[LastPc(h, b) + 1] # NoBlock
      BY <1>11, <1>14, <2>1 DEF PlainNext
    <3>2. LastPc(h, b) + 1 \in Slot
      BY <1>9, NextSlot
    <3> QED BY <1>6, <1>11, <2>1, <3>1, <3>2 DEF Kept
  <2>2. CASE x = b
    BY <1>12, <1>13, <2>2
  <2>3. CASE x \notin {a, b}
    <3>1. x \in h.bbMap /\ x \in Addr /\ (h.readOnly[x] \/ x \in E)
      BY <1>4, <1>6, <1>8, <1>14, <2>3 DEF WellFormed, Graph
    <3>2. LastPc(n, x) = LastPc(h, x)
      BY <1>6, <2>3, <3>1 DEF LastPc
    <3>3. h.insMap[LastPc(h, x) + 1] # NoBlock
      BY <1>14, <3>1, <3>2 DEF PlainNext
    <3>4. LastPc(h, x) + 1 \in Slot
      BY <2>3, <3>1, NextSlot
    <3> QED BY <1>6, <3>2, <3>3, <3>4 DEF Kept
  <2> QED BY <2>1, <2>2, <2>3
<1> QED BY <1>6, <1>14 DEF PlainNext

(* Nothing PlainNext is about changes for the blocks there were. *)
LEMMA SamePlainNext ==
  ASSUME NEW n, NEW h, NEW E, PlainNext(h, E), n.vecIns = h.vecIns,
         n.insMap = h.insMap, n.readOnly = h.readOnly,
         \A x \in n.bbMap \ h.bbMap : ~n.readOnly[x] /\ x \notin E
  PROVE  Kept(n, h) /\ PlainNext(n, E)
BY DEF PlainNext, Kept, LastPc

LEMMA SuccessorKept ==
  ASSUME NEW h, NEW b, Shut(h, b), NEW E, PlainNext(h, E), E \subseteq {b},
         h.readOnly[b] \/ b \in E, NEW a \in Addr, NEW s, s = Successor(h, b, a)
  PROVE  Kept(s.graph, h) /\ PlainNext(s.graph, E)
<1> DEFINE hit == {x \in h.succsMap[b] : Key(x) = Key(a)}
           own == BbInBlock(h, a)
           f   == FindBlock(h, b, a)
<1>1. /\ WellFormed(h) /\ LaidOut(h) /\ h \in Graph /\ b \in h.bbMap /\ b \in Addr
      /\ a \in Slot /\ h.bbMap \subseteq Addr /\ h.vecIns[b] # <<>>
      /\ \A x \in h.bbMap \ {b} : Closed(h, x)
  BY AddrFacts DEF Shut, Sound, WellFormed, Graph
<1>2. CASE hit # {}
  <2> DEFINE c == CHOOSE x \in hit : TRUE
  <2>1. f = [blk |-> c, graph |-> h]
    BY <1>2 DEF FindBlock
  <2>2. c \in h.bbMap
    BY <1>1, <1>2 DEF WellFormed, MapsIn
  <2> HIDE DEF c, f
  <2>3. s = [blk |-> c, graph |-> h]
    BY <1>1, <2>1, <2>2, AddrFacts DEF Successor, f
  <2>4. s.graph = h
    BY <2>3
  <2> QED BY <2>4 DEF Kept
<1>3. CASE hit = {} /\ a \in h.bbMap
  <2> DEFINE n == AddSuccessor(h, b, a)
  <2>1. f = [blk |-> a, graph |-> n]
    BY <1>3 DEF FindBlock
  <2>2. Same(n, h)
    BY <1>1, AddSuccessorSame
  <2> HIDE DEF n, f
  <2>3. s = [blk |-> a, graph |-> n]
    BY <2>1, AddrFacts DEF Successor, f
  <2>4. s.graph = n
    BY <2>3
  <2> QED BY <2>2, <2>4, SamePlainNext DEF Same
<1>4. CASE hit = {} /\ a \notin h.bbMap /\ own # NoBlock
  <2> DEFINE m == Split(h, own, a)
             n == AddSuccessor(m, b, a)
  <2>1. own \in h.bbMap /\ own \in Addr
    BY <1>1, <1>4 DEF BbInBlock, WellFormed, MapsIn
  <2>2. a \in Extent(h, own)
    BY <1>1, <2>1 DEF LaidOut, BbInBlock
  <2>3. a \in Insns(h, own)
    BY <1>1, <2>1, <2>2, ExtentInsns
  <2>4. f = [blk |-> a, graph |-> n]
    BY <1>4, <2>3 DEF FindBlock
  <2> HIDE DEF own, hit
  <2>5. h.readOnly[own] \/ own \in E
    BY <1>1, <2>1 DEF Closed
  <2>6. \A x \in h.bbMap \ {own} : h.vecIns[x] # <<>>
    BY <1>1 DEF Closed
  <2>7. Kept(m, h) /\ PlainNext(m, E)
    BY <1>1, <1>4, <2>1, <2>2, <2>5, <2>6, SplitKept
  <2>8. /\ Closed(m, own) /\ Closed(m, a)
        /\ \A x \in Addr \ {a, own} : /\ m.vecIns[x] = h.vecIns[x]
                                     /\ m.readOnly[x] = h.readOnly[x]
    BY <1>1, <1>4, <2>1, <2>2, SplitLaid
  <2>9. m \in Graph
    BY <1>1, <1>4, <2>1, <2>3, SplitWF DEF WellFormed
  <2> HIDE DEF m
  <2>10. m.vecIns[b] # <<>>
    BY <1>1, <1>4, <2>8 DEF Closed
  <2>11. Same(n, m)
    BY <1>1, <2>9, <2>10, AddSuccessorSame
  <2> HIDE DEF n, f
  <2>12. Kept(n, m) /\ PlainNext(n, E)
    BY <2>7, <2>11, SamePlainNext DEF Same
  <2>13. s = [blk |-> a, graph |-> n]
    BY <2>4, AddrFacts DEF Successor, f
  <2>14. s.graph = n
    BY <2>13
  <2> QED BY <2>7, <2>12, <2>14 DEF Kept
<1>5. CASE hit = {} /\ a \notin h.bbMap /\ own = NoBlock
  <2> DEFINE n == NewBlock(h, a, b)
  <2>1. f.blk = NoBlock
    BY <1>5 DEF FindBlock
  <2>2. s = [blk |-> a, graph |-> n]
    BY <2>1 DEF Successor, f
  <2>3. /\ n.bbMap = h.bbMap \cup {a} /\ n.insMap = h.insMap
        /\ n.vecIns = h.vecIns /\ n.readOnly = h.readOnly
    BY <1>1, <1>5, NewBlockLaid DEF Shut
  <2> HIDE DEF n
  <2>4. s.graph = n
    BY <2>2
  <2>5. ~h.readOnly[a] /\ a \notin E
    BY <1>1, <1>5 DEF LaidOut
  <2> QED BY <2>3, <2>4, <2>5, SamePlainNext
<1> QED BY <1>2, <1>3, <1>4, <1>5

LEMMA GetNextBlockKept ==
  ASSUME NEW h, NEW b, Shut(h, b), PlainNext(h, {b}), NEW a \in Addr,
         NEW t, t = GetNextBlock(h, b, a)
  PROVE  Kept(t.graph, h) /\ PlainNext(t.graph, {})
<1> DEFINE s == Successor(h, b, a)
           n == SetReadOnly(s.graph, b)
<1>1. Kept(s.graph, h) /\ PlainNext(s.graph, {b})
  BY SuccessorKept
<1>2. Reached(s, b, a)
  BY SuccessorReached
<1>3. t.graph = n
  BY DEF GetNextBlock
<1> HIDE DEF s
<1>4. s.graph \in Graph /\ b \in Addr /\ s.graph.bbMap \subseteq Addr
  BY <1>2 DEF Reached, Sound, WellFormed, Graph
<1>5. /\ n.bbMap = s.graph.bbMap /\ n.vecIns = s.graph.vecIns
      /\ n.insMap = s.graph.insMap
      /\ \A x \in Addr : n.readOnly[x] <=> (s.graph.readOnly[x] \/ x = b)
  BY <1>4 DEF SetReadOnly, Graph
<1> HIDE DEF n
<1>6. PlainNext(n, {})
  BY <1>1, <1>4, <1>5 DEF PlainNext, LastPc
<1>7. Kept(n, h)
  BY <1>1, <1>5 DEF Kept
<1> QED BY <1>3, <1>6, <1>7

-----------------------------------------------------------------------------
(* A block that is entered at p, built already, has the instruction at p.  *)
Entered(h, b, p) == h.readOnly[b] => h.insMap[p] # NoBlock

LEMMA LandsEntered ==
  ASSUME NEW h, NEW a \in Addr, Settled(h, a, a)
  PROVE  Entered(h, a, a)
<1> SUFFICES ASSUME h.readOnly[a] PROVE h.insMap[a] # NoBlock
  BY DEF Entered
<1>1. h \in Graph /\ LaidOut(h) /\ h.vecIns[a] # <<>>
  BY DEF Settled, Sound, WellFormed
<1>2. a \in Extent(h, a)
  BY <1>1, LenFacts, AddrFacts DEF Extent
<1> QED BY <1>1, <1>2, AddrFacts DEF LaidOut

(* No other block has the key of p. *)
KeyFree(h, p) == \A x \in h.bbMap : Key(x) = Key(p) => x = p

LEMMA TranslateOpenKept ==
  ASSUME pc \in Addr, NEW npc \in Addr, NEW h, NEW b, Settled(h, b, pc),
         ~h.readOnly[b], h.insMap[pc] = NoBlock, h.succsMap[b] = {},
         PlainNext(h, {}), NEW t, t = TranslateRiscv(h, b, npc)
  PROVE  /\ Kept(t.graph, h) /\ t.graph.insMap[pc] # NoBlock
         /\ PlainNext(t.graph, {})
         /\ Entered(t.graph, t.blk, npc)
<1> DEFINE n == AddIns(h, b, pc)
           m == SetTermAddr(n, b, pc)
<1>1. /\ WellFormed(h) /\ LaidOut(h) /\ b \in h.bbMap /\ b \in Addr /\ pc \in Nat
      /\ h \in Graph /\ h.bbMap \subseteq Addr /\ h.fault = "none"
      /\ \A x \in h.bbMap \ {b} : Closed(h, x)
      /\ pc = b + Len(h.vecIns[b])
  BY AddrFacts DEF Settled, Sound, WellFormed, Graph
<1>2. /\ LaidOut(n)
      /\ n.bbMap = h.bbMap /\ n.readOnly = h.readOnly /\ n.fault = h.fault
      /\ n.vecIns[b] # <<>> /\ Len(n.vecIns[b]) = Len(h.vecIns[b]) + 1
      /\ \A x \in Addr \ {b} : n.vecIns[x] = h.vecIns[x]
  <2>1. /\ WellFormed(h) /\ LaidOut(h) /\ b \in h.bbMap
        /\ pc = b + Len(h.vecIns[b])
    BY <1>1
  <2> HIDE DEF n
  <2>2. n = AddIns(h, b, pc)
    BY DEF n
  <2> QED BY <2>1, <2>2, AddInsLaid
<1>3. WellFormed(n) /\ n \in Graph
  BY <1>1, AddInsWF DEF WellFormed
<1>4. AddsIns(n, h, b, pc)
  BY <1>1, AddInsFields
<1>5. t = IF EndsBlock(code[pc]) THEN GetNextBlock(m, b, npc)
          ELSE [blk |-> b, graph |-> n]
  BY DEF TranslateRiscv
<1> HIDE DEF n
<1>6. Sound(n) /\ \A x \in n.bbMap \ {b} : Closed(n, x)
  BY <1>1, <1>2, <1>3 DEF Sound, Closed
<1>7. Kept(n, h) /\ n.insMap[pc] # NoBlock /\ pc \in Slot
  BY SMTT(30), <1>1, <1>4, AddrFacts DEF AddsIns, Kept, Graph
<1>8. \A x \in h.bbMap \ {b} : /\ n.readOnly[x] /\ LastPc(n, x) = LastPc(h, x)
                              /\ LastPc(h, x) + 1 \in Slot
  <2> SUFFICES ASSUME NEW x \in h.bbMap \ {b}
               PROVE  /\ n.readOnly[x] /\ LastPc(n, x) = LastPc(h, x)
                      /\ LastPc(h, x) + 1 \in Slot
    OBVIOUS
  <2>1. x \in Addr /\ Closed(h, x)
    BY <1>1
  <2>2. LastPc(n, x) = LastPc(h, x)
    BY <1>2, <2>1 DEF LastPc
  <2> QED BY <1>1, <1>2, <2>1, <2>2, NextSlot DEF Closed
<1>9. \A x \in h.bbMap \ {b} :
        ~EndsBlock(code[LastPc(n, x)]) => n.insMap[LastPc(n, x) + 1] # NoBlock
  BY <1>1, <1>7, <1>8 DEF PlainNext, Closed, Kept
<1>10. n.vecIns[b][Len(n.vecIns[b])] = pc
  <2>1. n.vecIns[b] = Append(h.vecIns[b], pc) /\ h.vecIns[b] \in Seq(Addr)
    BY <1>1, <1>4 DEF AddsIns, Graph
  <2> QED BY <1>1, <2>1
<1>11. CASE EndsBlock(code[pc])
  <2>1. Sound(m) /\ Same(m, n)
    BY <1>1, <1>6, SetTermAddrSound
  <2>2. m.succsMap = n.succsMap
    BY <1>3 DEF SetTermAddr, Graph
  <2>3. m.succsMap[b] = {}
    BY <1>4, <2>2 DEF AddsIns
  <2> HIDE DEF m
  <2>4. Shut(m, b)
    BY <1>1, <1>2, <1>6, <2>1 DEF Shut, Same, Closed
  <2>5. PlainNext(m, {b})
    <3>1. LastPc(m, b) = pc
      BY <1>10, <2>1 DEF LastPc, Same
    <3>2. \A x \in h.bbMap : LastPc(m, x) = LastPc(n, x) /\ m.insMap = n.insMap
      BY <2>1 DEF LastPc, Same
    <3>3. m.bbMap = h.bbMap
      BY <1>2, <2>1 DEF Same
    <3> QED BY <1>9, <1>11, <3>1, <3>2, <3>3 DEF PlainNext
  <2>6. t = GetNextBlock(m, b, npc)
    BY <1>5, <1>11
  <2>7. Kept(t.graph, m) /\ PlainNext(t.graph, {})
    BY <2>4, <2>5, <2>6, GetNextBlockKept
  <2>8. t.blk = npc
    <3>1. Successor(m, b, npc).blk = npc
      BY <2>3, <2>4, SuccessorLands
    <3> QED BY <2>6, <3>1 DEF GetNextBlock
  <2>9. Settled(t.graph, npc, npc)
    BY <2>4, <2>6, <2>8, GetNextBlockSettled
  <2>10. Entered(t.graph, npc, npc)
    BY <2>9, LandsEntered
  <2>11. Kept(t.graph, h) /\ t.graph.insMap[pc] # NoBlock
    BY <1>7, <2>1, <2>7 DEF Kept, Same
  <2> QED BY <2>7, <2>8, <2>10, <2>11
<1>12. CASE ~EndsBlock(code[pc])
  <2>1. t.blk = b /\ t.graph = n
    BY <1>5, <1>12
  <2>2. PlainNext(n, {})
    BY <1>2, <1>9 DEF PlainNext
  <2>3. Entered(n, b, npc)
    BY <1>2 DEF Entered
  <2> QED BY <1>7, <2>1, <2>2, <2>3
<1> QED BY <1>11, <1>12

LEMMA TranslateClosedKept ==
  ASSUME ~Traps, code \in [Addr -> Class], pc \in Addr, NEW npc \in NextPcs(pc),
         NEW h, Settled(h, pc, pc), h.readOnly[pc],
         Straight(h, code, {}), NEW e, Flows(h, e, {}), PlainNext(h, {}),
         NEW t, t = TranslateRiscv(h, pc, npc)
  PROVE  /\ Kept(t.graph, h) /\ PlainNext(t.graph, {})
         /\ (EndsBlock(code[pc]) => KeyFree(h, npc)) => Entered(t.graph, t.blk, npc)
<1> DEFINE l == Len(h.vecIns[pc])
<1>1. AddIns(h, pc, pc) = h
  BY DEF AddIns
<1>2. /\ h \in Graph /\ h.vecIns[pc] # <<>> /\ LaidOut(h) /\ WellFormed(h)
      /\ pc \in h.bbMap /\ pc \in Nat /\ pc # 0 /\ npc \in Addr
  BY AddrFacts DEF Settled, Sound, WellFormed, NoBlock, NextPcs
<1>3. l \in Nat /\ l > 0
  BY <1>2, LenFacts
<1>4. h.vecIns[pc][1] = pc
  <2>1. 1 \in 1 .. l /\ pc + 1 - 1 = pc
    BY <1>2, <1>3
  <2> QED BY <1>2, <2>1 DEF LaidOut
<1>5. CASE EndsBlock(code[pc])
  <2>1. \A i \in 1 .. l - 1 : ~EndsBlock(code[h.vecIns[pc][i]])
    BY DEF Straight
  <2>2. l = 1
    <3> HIDE DEF l
    <3> QED BY <1>3, <1>4, <1>5, <2>1
  <2>3. LastPc(h, pc) = pc
    BY <1>4, <2>2 DEF LastPc
  <2>4. h.termAddr[pc] = pc
    BY <2>3 DEF Flows
  <2>5. SetTermAddr(h, pc, pc) = h
    BY <1>2, <2>4 DEF SetTermAddr
  <2>6. t = GetNextBlock(h, pc, npc)
    BY <1>1, <1>5, <2>5 DEF TranslateRiscv
  <2>7. Shut(h, pc)
    BY <1>2, SettledShut
  <2>8. PlainNext(h, {pc})
    BY DEF PlainNext
  <2>9. Kept(t.graph, h) /\ PlainNext(t.graph, {})
    BY <1>2, <2>6, <2>7, <2>8, GetNextBlockKept
  <2>10. ASSUME KeyFree(h, npc) PROVE Entered(t.graph, t.blk, npc)
    <3>1. \A x \in h.succsMap[pc] : Key(x) = Key(npc) => x = npc
      BY <1>2, <2>10 DEF KeyFree, WellFormed, MapsIn
    <3>2. Successor(h, pc, npc).blk = npc
      BY <1>2, <2>7, <3>1, SuccessorLands
    <3>3. t.blk = npc
      BY <2>6, <3>2 DEF GetNextBlock
    <3>4. Settled(t.graph, npc, npc)
      BY <1>2, <2>6, <2>7, <3>3, GetNextBlockSettled
    <3> QED BY <1>2, <3>3, <3>4, LandsEntered
  <2> QED BY <1>5, <2>9, <2>10
<1>6. CASE ~EndsBlock(code[pc])
  <2>1. t = [blk |-> pc, graph |-> h]
    BY <1>1, <1>6 DEF TranslateRiscv
  <2>2. t.blk = pc /\ t.graph = h
    BY <2>1
  <2>3. npc = pc + 1
    BY <1>6 DEF EndsBlock, Class, NextPcs
  <2>4. h.insMap[npc] # NoBlock
    <3>1. CASE l = 1
      <4>1. LastPc(h, pc) = pc
        BY <1>4, <3>1 DEF LastPc
      <4> QED BY <1>2, <1>6, <2>3, <4>1 DEF PlainNext
    <3>2. CASE l # 1
      <4>1. npc \in Extent(h, pc)
        <5>1. Extent(h, pc) = pc .. pc + l - 1
          BY DEF Extent
        <5> HIDE DEF l
        <5> QED BY <1>2, <1>3, <2>3, <3>2, <5>1
      <4> QED BY <1>2, <4>1, AddrFacts DEF LaidOut
    <3> QED BY <3>1, <3>2
  <2> QED BY <2>2, <2>4 DEF Kept, Entered
<1> QED BY <1>5, <1>6

-----------------------------------------------------------------------------
(* The inductive invariant: as long as the keys tell the blocks apart, a   *)
(* built block is only entered where it, or another, has the instruction.  *)
LostInv ==
  /\ EdgeInv
  /\ PlainNext(g, {})
  /\ KeysApart => /\ Entered(g, cBB, pc)
                  /\ \A p, q \in Addr : Ran(globalEdges, p, q) => g.insMap[p] # NoBlock

LEMMA InitLostInv == Init => LostInv
<1> SUFFICES ASSUME Init PROVE LostInv
  OBVIOUS
<1>1. EdgeInv
  BY InitEdgeInv
<1>2. /\ g.readOnly = [a \in Addr |-> FALSE] /\ cBB \in Addr /\ g.bbMap \subseteq Addr
      /\ globalEdges = [p \in Addr |-> [q \in Addr |-> 0]]
  BY DEF Init, Construct, EmptyGraph
<1>3. PlainNext(g, {}) /\ Entered(g, cBB, pc)
  BY <1>2 DEF PlainNext, Entered
<1>4. \A p, q \in Addr : ~Ran(globalEdges, p, q)
  BY <1>2 DEF Ran
<1> QED BY <1>1, <1>3, <1>4 DEF LostInv

(* What a record does, with the blocks told apart or not.                  *)
Passed(npc) ==
  /\ Kept(g', g) /\ PlainNext(g', {})
  /\ Entered(g, cBB, pc) /\ (EndsBlock(code[pc]) => KeyFree(g', npc)) =>
       g'.insMap[pc] # NoBlock /\ Entered(g', cBB', npc)

LEMMA LeavePassed ==
  ASSUME ~Traps, NEW e, RunInv(e), PlainNext(g, {}), NEW npc \in NextPcs(pc), Leave(npc)
  PROVE  Passed(npc)
<1> DEFINE b == Resync
           s == Successor(g, b, npc)
<1>1. g.readOnly[b] /\ pc = g.termAddr[b] /\ cBB' = s.blk /\ g' = s.graph
  BY DEF Leave, Become
<1>2. Shut(g, b)
  BY <1>1, ResyncSettled DEF RunInv
<1> HIDE DEF b
<1>3. npc \in Addr /\ pc \in Addr /\ pc \in Slot /\ code \in [Addr -> Class]
  BY AddrFacts DEF RunInv, ReplayInv, GraphInv, TypeOK, NextPcs
<1>4. /\ WellFormed(g) /\ LaidOut(g) /\ g \in Graph /\ b \in g.bbMap /\ b \in Addr
      /\ g.vecIns[b] # <<>> /\ b # NoBlock
  BY <1>2, AddrFacts DEF Shut, Sound, WellFormed, Graph
<1>5. LastPc(g, b) = pc
  BY <1>1, <1>4 DEF RunInv, Flows
<1>6. Kept(s.graph, g) /\ PlainNext(s.graph, {})
  BY <1>1, <1>2, <1>3, SuccessorKept
<1>7. g.insMap[pc] # NoBlock
  <2> DEFINE l == Len(g.vecIns[b])
  <2>1. l \in Nat /\ l \in 1 .. l /\ b \in Nat
    BY <1>4, LenFacts, AddrFacts
  <2>2. g.vecIns[b][l] = b + l - 1
    BY <1>4, <2>1 DEF LaidOut
  <2>3. pc = b + l - 1
    BY <1>5, <2>2 DEF LastPc
  <2>4. pc \in Extent(g, b)
    <3>1. Extent(g, b) = b .. b + l - 1
      BY DEF Extent
    <3> HIDE DEF l
    <3> QED BY <2>1, <2>3, <3>1
  <2> QED BY <1>3, <1>4, <2>4 DEF LaidOut
<1>8. s.graph.insMap[pc] # NoBlock
  BY <1>3, <1>6, <1>7 DEF Kept
<1>9. Reached(s, b, npc) /\ s.graph.readOnly[b]
  BY <1>1, <1>2, <1>3, SuccessorReached
<1>10. CASE ~EndsBlock(code[pc])
  <2>1. npc = pc + 1 /\ npc \in Slot
    BY <1>3, <1>10, AddrFacts DEF EndsBlock, Class, NextPcs
  <2>2. g.insMap[npc] # NoBlock
    BY <1>1, <1>4, <1>5, <1>10, <2>1 DEF PlainNext
  <2>3. Entered(s.graph, s.blk, npc)
    BY <1>6, <2>1, <2>2 DEF Entered, Kept
  <2> HIDE DEF s
  <2> QED BY <1>1, <1>6, <1>8, <2>3 DEF Passed
<1>11. CASE EndsBlock(code[pc])
  <2>1. ASSUME KeyFree(s.graph, npc) PROVE Entered(s.graph, s.blk, npc)
    <3>1. g.bbMap \subseteq s.graph.bbMap
      BY <1>3, <1>4, SuccessorWF DEF Leads
    <3>2. \A x \in g.succsMap[b] : Key(x) = Key(npc) => x = npc
      BY <1>4, <2>1, <3>1 DEF KeyFree, WellFormed, MapsIn
    <3>3. s.blk = npc
      BY <1>2, <1>3, <3>2, SuccessorLands
    <3>4. Settled(s.graph, s.blk, npc)
      BY <1>3, <1>9, SettleClosed
    <3> HIDE DEF s
    <3> QED BY <1>3, <3>3, <3>4, LandsEntered
  <2> HIDE DEF s
  <2> QED BY <1>1, <1>6, <1>8, <1>11, <2>1 DEF Passed
<1> QED BY <1>10, <1>11

LEMMA StayPassed ==
  ASSUME ~Traps, NEW e, RunInv(e), PlainNext(g, {}), NEW npc \in NextPcs(pc), Stay(npc)
  PROVE  Passed(npc)
<1> DEFINE b == Resync
<1>1. g.readOnly[b] /\ pc # g.termAddr[b] /\ cBB' = b /\ g' = g
  BY DEF Stay, Become
<1>2. Kept(g', g) /\ PlainNext(g', {})
  BY <1>1 DEF Kept
<1>3. ASSUME Entered(g, cBB, pc) PROVE g.insMap[pc] # NoBlock /\ Entered(g, b, npc)
  <2>2. g.insMap[pc] # NoBlock /\ b = g.insMap[pc]
    BY <1>1, <1>3 DEF Entered, Resync, BbInBlock
  <2>3. Shut(g, b)
    BY <1>1, ResyncSettled DEF RunInv
  <2> HIDE DEF b
  <2>4. /\ LaidOut(g) /\ g \in Graph /\ b \in Addr /\ b \in Nat /\ b # NoBlock
        /\ pc \in Addr /\ pc \in Slot /\ npc \in Addr /\ npc \in Slot
        /\ code \in [Addr -> Class]
    BY <2>3, AddrFacts DEF Shut, Sound, WellFormed, Graph, RunInv, ReplayInv,
       GraphInv, TypeOK, NextPcs
  <2> DEFINE l == Len(g.vecIns[b])
             i == pc - b + 1
  <2>5. pc \in Extent(g, b) /\ Extent(g, b) = b .. b + l - 1
    BY <2>2, <2>4 DEF LaidOut, Extent
  <2>6. l \in Nat
    BY <2>4, LenFacts
  <2>7. \A j \in 1 .. l : g.vecIns[b][j] = b + j - 1
    BY <2>4 DEF LaidOut
  <2>8. \A j \in 1 .. l - 1 : ~EndsBlock(code[g.vecIns[b][j]])
    BY <2>4 DEF RunInv, ShapeInv, Form, Straight
  <2>9. g.vecIns[b][l] # pc
    BY <1>1, <2>4 DEF RunInv, Flows, LastPc
  <2> HIDE DEF l
  <2>10. i \in 1 .. l /\ b + i - 1 = pc
    BY <2>4, <2>5, <2>6
  <2>11. g.vecIns[b][i] = pc
    BY <2>7, <2>10
  <2>12. i # l
    BY <2>9, <2>11
  <2>13. ~EndsBlock(code[pc])
    <3>1. i \in 1 .. l - 1
      BY <2>6, <2>10, <2>12
    <3> HIDE DEF i
    <3> QED BY <2>8, <2>11, <3>1
  <2>14. npc = pc + 1
    BY <2>4, <2>13 DEF EndsBlock, Class, NextPcs
  <2>15. npc \in Extent(g, b)
    BY <2>4, <2>5, <2>6, <2>10, <2>12, <2>14
  <2>16. g.insMap[npc] # NoBlock
    BY <2>4, <2>15 DEF LaidOut
  <2> QED BY <2>2, <2>16 DEF Entered
<1> QED BY <1>1, <1>2, <1>3 DEF Passed

LEMMA JoinPassed ==
  ASSUME ~Traps, NEW e, RunInv(e), PlainNext(g, {}), NEW npc \in NextPcs(pc), Join(npc)
  PROVE  Passed(npc)
<1> DEFINE b == Resync
           m == SetTermAddr(g, b, LastPc(g, b))
           s == GetNextBlock(m, b, pc)
           t == TranslateRiscv(s.graph, s.blk, npc)
<1>1. /\ b = cBB /\ ~g.readOnly[b] /\ g.insMap[pc] # NoBlock
      /\ Settled(g, b, pc) /\ Sound(g) /\ b \in Addr /\ b \in g.bbMap /\ g \in Graph
      /\ Form(g, code, {}, b) /\ LaidOut(g) /\ g.bbMap \subseteq Addr
  BY SMTT(30), ResyncSettled DEF Join, BbInBlock, RunInv, ReplayInv, ShapeInv, Settled,
     Sound, WellFormed, Graph
<1>2. pc \in Addr /\ npc \in Addr /\ code \in [Addr -> Class] /\ pc \in Slot
  BY AddrFacts DEF RunInv, ReplayInv, GraphInv, TypeOK, NextPcs
<1>3. ~IsEmpty(g, b)
  <2> SUFFICES ASSUME IsEmpty(g, b) PROVE FALSE
    OBVIOUS
  <2>1. g.vecIns[b] = <<>> /\ Len(g.vecIns[b]) = 0
    BY DEF IsEmpty
  <2>2. pc = b
    BY <1>1, <2>1, AddrFacts DEF Settled
  <2> QED BY <1>1, <2>1, <2>2 DEF Settled
<1>4. (cBB' = s.blk /\ g' = s.graph /\ s.graph.fault # "none")
      \/ (cBB' = t.blk /\ g' = t.graph)
  BY <1>3 DEF Join, Become
<1>5. Flows(g, e, {}) /\ Awaits(g, e, b, pc) /\ PlainNext(g, {})
  BY <1>1 DEF RunInv
<1>6. Ran(e, LastPc(g, b), pc)
  BY <1>1, <1>3, <1>5 DEF Awaits, IsEmpty
<1> HIDE DEF b
(* The open block ends just before pc.                                     *)
<1>7. LastPc(g, b) + 1 = pc /\ LastPc(g, b) \in Nat
  <2> DEFINE l == Len(g.vecIns[b])
  <2>1. l \in Nat /\ l \in 1 .. l /\ b \in Nat /\ pc = b + l
    BY <1>1, <1>3, LenFacts, AddrFacts DEF IsEmpty, Settled
  <2>2. g.vecIns[b][l] = b + l - 1
    BY <1>1, <2>1 DEF LaidOut
  <2>3. LastPc(g, b) = b + l - 1
    BY <2>2 DEF LastPc
  <2> HIDE DEF l
  <2> QED BY <2>1, <2>3
<1>8. Sound(m) /\ Same(m, g)
  BY <1>1, <1>7, SetTermAddrSound
<1>9. Flows(m, e, {b}) /\ m.succsMap[b] = {} /\ LastPc(m, b) = LastPc(g, b)
  BY <1>1, <1>3, <1>5, SetTermAddrFlow DEF IsEmpty
<1>10. Form(m, code, {b}, b)
  BY <1>1, <1>7, SetTermAddrForm, WiderForm
<1> HIDE DEF m
<1>11. Shut(m, b) /\ m.insMap[pc] # NoBlock
  BY <1>1, <1>3, <1>8 DEF Shut, Same, Settled, IsEmpty, Closed
<1>12. PlainNext(m, {b})
  <2>1. \A x \in Addr : LastPc(m, x) = LastPc(g, x)
    BY <1>8 DEF Same, LastPc
  <2> QED BY <1>1, <1>5, <1>7, <1>8, <2>1 DEF PlainNext, Same
<1>13. Settled(s.graph, s.blk, pc) /\ s.graph.readOnly[s.blk]
  BY <1>2, <1>11, GetNextBlockSettled
<1>14. s.blk = pc
  <2>1. Successor(m, b, pc).blk = pc
    BY <1>2, <1>9, <1>11, SuccessorLands
  <2> QED BY <2>1 DEF GetNextBlock
<1>15. Flows(s.graph, e, {})
  BY <1>2, <1>6, <1>9, <1>11, GetNextBlockFlow
<1>16. Straight(s.graph, code, {})
  BY <1>2, <1>10, GetNextBlockForm DEF Form
<1>17. Kept(s.graph, m) /\ PlainNext(s.graph, {})
  BY <1>2, <1>11, <1>12, GetNextBlockKept
<1> HIDE DEF s
<1>18. /\ Kept(t.graph, s.graph) /\ PlainNext(t.graph, {})
       /\ (EndsBlock(code[pc]) => KeyFree(s.graph, npc)) => Entered(t.graph, t.blk, npc)
  BY <1>2, <1>13, <1>14, <1>15, <1>16, <1>17, TranslateClosedKept
<1>19. s.graph.bbMap \subseteq t.graph.bbMap
  <2>1. WellFormed(s.graph) /\ s.blk \in s.graph.bbMap
    BY <1>13 DEF Settled, Sound
  <2> QED BY <1>2, <2>1, TranslateRiscvWF DEF Leads
<1>20. s.graph.fault = "none"
  BY <1>13 DEF Settled, Sound
<1> HIDE DEF t
<1>21. cBB' = t.blk /\ g' = t.graph
  BY <1>4, <1>20
<1>22. Kept(t.graph, g) /\ t.graph.insMap[pc] # NoBlock
  BY <1>1, <1>2, <1>8, <1>17, <1>18 DEF Kept, Same
<1>23. KeyFree(t.graph, npc) => KeyFree(s.graph, npc)
  BY <1>19 DEF KeyFree
<1> QED BY <1>18, <1>21, <1>22, <1>23 DEF Passed

LEMMA RecordPassed ==
  ASSUME ~Traps, NEW e, RunInv(e), PlainNext(g, {}), NEW npc \in NextPcs(pc),
         Stay(npc) \/ Leave(npc) \/ Build(npc) \/ Join(npc)
  PROVE  Passed(npc)
<1>1. CASE Stay(npc)
  BY <1>1, StayPassed
<1>2. CASE Leave(npc)
  BY <1>2, LeavePassed
<1>3. CASE Build(npc)
  <2> DEFINE b == Resync
             t == TranslateRiscv(g, b, npc)
  <2>1. /\ ~g.readOnly[b] /\ g.insMap[pc] = NoBlock
        /\ cBB' = t.blk /\ g' = t.graph
    BY <1>3 DEF Build, Become, BbInBlock
  <2>2. Settled(g, b, pc) /\ PlainNext(g, {}) /\ Flows(g, e, {})
    BY <2>1, ResyncSettled DEF RunInv, ReplayInv
  <2> HIDE DEF b
  <2>3. pc \in Addr /\ npc \in Addr /\ b \in Addr
    BY <2>2 DEF RunInv, ReplayInv, GraphInv, TypeOK, NextPcs, Settled, Sound,
       WellFormed, Graph
  <2>4. g.succsMap[b] = {}
    BY <2>1, <2>2, <2>3 DEF Flows
  <2>5. /\ Kept(t.graph, g) /\ t.graph.insMap[pc] # NoBlock
        /\ PlainNext(t.graph, {}) /\ Entered(t.graph, t.blk, npc)
    BY <2>1, <2>2, <2>3, <2>4, TranslateOpenKept
  <2> HIDE DEF t
  <2> QED BY <2>1, <2>5 DEF Passed
<1>4. CASE Join(npc)
  BY <1>4, JoinPassed
<1> QED BY <1>1, <1>2, <1>3, <1>4

LEMMA CountOld ==
  ASSUME EdgeCap > 0, TypeOK, NEW npc \in Addr, CountEdge(npc)
  PROVE  \A p, q \in Addr :
           Ran(globalEdges', p, q) <=> Ran(globalEdges, p, q) \/ (p = pc /\ q = npc)
<1>1. pc \in Addr /\ globalEdges \in [Addr -> [Addr -> 0 .. EdgeCap]]
  BY DEF TypeOK
<1>2. \A p, q \in Addr : globalEdges[p][q] \in 0 .. EdgeCap
  BY <1>1
<1>3. \A p, q \in Addr : globalEdges'[p][q] =
        IF p = pc /\ q = npc
        THEN (IF globalEdges[p][q] < EdgeCap THEN globalEdges[p][q] + 1
              ELSE globalEdges[p][q])
        ELSE globalEdges[p][q]
  BY <1>1 DEF CountEdge
<1>4. EdgeCap \in Nat
  BY EdgeCapAssumption
<1> QED BY <1>1, <1>2, <1>3, <1>4 DEF Ran

(* If the keys tell the blocks apart after a record, they did before it.   *)
LEMMA KeysStay ==
  ASSUME EdgeCap > 0, GraphInv, NEW npc \in NextPcs(pc), Step(npc), KeysApart'
  PROVE  KeysApart /\ (EndsBlock(code[pc]) => KeyFree(g', npc))
<1>1. npc \in Addr /\ code' = code /\ pc \in Addr /\ TypeOK
  BY DEF Step, NextPcs, GraphInv, TypeOK
<1>2. g.bbMap \subseteq g'.bbMap
  BY <1>1, RecordWF DEF Step, Leads
<1>3. \A p, q \in Addr :
        Ran(globalEdges', p, q) <=> Ran(globalEdges, p, q) \/ (p = pc /\ q = npc)
  BY <1>1, CountOld DEF Step
<1>4. \A p, q \in Addr : EndsBlock(code[p]) /\ Ran(globalEdges', p, q) =>
        \A x \in g'.bbMap : Key(x) = Key(q) => x = q
  BY <1>1 DEF KeysApart, Ran
<1>5. KeysApart
  BY <1>2, <1>3, <1>4 DEF KeysApart, Ran
<1>6. EndsBlock(code[pc]) => KeyFree(g', npc)
  BY <1>1, <1>3, <1>4 DEF KeyFree
<1> QED BY <1>5, <1>6

LEMMA StepLostInv ==
  ASSUME ~Traps, EdgeCap > 0, LostInv, [Next]_vars
  PROVE  LostInv'
<1>1. EdgeInv'
  BY StepEdgeInv DEF LostInv
<1>2. ASSUME NEW npc \in NextPcs(pc), Step(npc)
      PROVE  LostInv'
  <2>1. npc \in Addr /\ pc' = npc /\ code' = code /\ pc \in Addr
    BY <1>2 DEF Step, NextPcs, LostInv, EdgeInv, RunInv, ReplayInv, GraphInv, TypeOK
  <2>2. Passed(npc)
    BY <1>2, RecordPassed DEF Step, LostInv, EdgeInv
  <2>3. g.bbMap \subseteq g'.bbMap
    BY <1>2, <2>1, RecordWF DEF Step, Leads, LostInv, EdgeInv, RunInv, ReplayInv
  <2>4. \A p, q \in Addr :
          Ran(globalEdges', p, q) <=> Ran(globalEdges, p, q) \/ (p = pc /\ q = npc)
    BY <1>2, <2>1, CountOld DEF Step, LostInv, EdgeInv, RunInv, ReplayInv, GraphInv
  <2>5. PlainNext(g, {})'
    BY <2>1, <2>2 DEF Passed, PlainNext
  <2>6. KeysApart' => KeysApart /\ (EndsBlock(code[pc]) => KeyFree(g', npc))
    BY <1>2, KeysStay DEF LostInv, EdgeInv, RunInv, ReplayInv
  <2>7. ASSUME KeysApart' PROVE Entered(g', cBB', pc')
    BY <2>1, <2>2, <2>6, <2>7 DEF Passed, LostInv
  <2>8. ASSUME KeysApart', NEW p \in Addr, NEW q \in Addr, Ran(globalEdges', p, q)
        PROVE  g'.insMap[p] # NoBlock
    <3>1. CASE p = pc
      BY <2>2, <2>6, <2>8, <3>1 DEF Passed, LostInv
    <3>2. CASE p # pc
      <4>1. g.insMap[p] # NoBlock
        BY <2>4, <2>6, <2>8, <3>2 DEF LostInv
      <4>2. p \in Slot
        BY AddrFacts
      <4> QED BY <2>2, <4>1, <4>2 DEF Passed, Kept
    <3> QED BY <3>1, <3>2
  <2> QED BY <1>1, <2>5, <2>7, <2>8 DEF LostInv
<1>3. ASSUME UNCHANGED <<code, pc, globalEdges, g, cBB>>
      PROVE  LostInv'
  <2>1. PlainNext(g, {})' /\ (KeysApart' => KeysApart)
    BY <1>3 DEF LostInv, PlainNext, KeysApart
  <2> QED BY <1>1, <1>3, <2>1 DEF LostInv
<1> QED BY <1>2, <1>3 DEF Next, EndTrace, vars

(* Every instruction the trace went through is in a block, as long as no   *)
(* taken jump's target shares its succsMap key with another block: what    *)
(* the replay skips, because the block holding it is built, is there.      *)
THEOREM NothingIsLost == ASSUME ~Traps, EdgeCap > 0 PROVE Spec => []NothingLost
<1>1. LostInv => NothingLost
  BY DEF LostInv, NothingLost, Ran, BbInBlock
<1>2. LostInv /\ [Next]_vars => LostInv'
  BY StepLostInv
<1> QED BY <1>1, <1>2, InitLostInv, PTL DEF Spec

-----------------------------------------------------------------------------
(***************************************************************************)
(* What the resynchronisation is for, with exceptions, for every address   *)
(* range, program and trace, as long as succsMap can tell the blocks apart.*)
(***************************************************************************)
DistinctKeys == \A a, b \in Addr : Key(a) = Key(b) => a = b

Mapped(h) == \A x \in Addr : h.succsMap[x] \subseteq h.succs[x]

(* x can be left: it has a last instruction, and one that transfers        *)
(* control is at its termAddr, where the replay looks for it.              *)
Ended(h, cd, x) ==
  /\ h.vecIns[x] # <<>>
  /\ EndsBlock(cd[LastPc(h, x)]) => h.termAddr[x] = LastPc(h, x)

(* Blocks begin with their entry address, and those that are built have    *)
(* ended.  A split inside a block leaves the transfer to the second half,  *)
(* with the termAddr, however wrong that of the first half is.             *)
Ends(h, cd) ==
  /\ Mapped(h)
  /\ \A x \in h.bbMap : h.readOnly[x] => Ended(h, cd, x)
  /\ \A x \in h.bbMap : h.vecIns[x] # <<>> => h.vecIns[x][1] = x
  /\ \A x \in Addr \ h.bbMap : h.vecIns[x] = <<>> /\ h.termAddr[x] = 0 /\ ~h.readOnly[x]

(* A block under construction has no termAddr yet, and one without an      *)
(* instruction waits for its first.                                        *)
Growing(h, b, p) ==
  ~h.readOnly[b] => h.termAddr[b] = 0 /\ (h.vecIns[b] = <<>> => b = p)

EndedInv == ShapeInv /\ (g.fault = "none" => Ends(g, code) /\ Growing(g, cBB, pc))

(* The members Ends reads, apart from the edges. *)
SameEnds(n, h) == /\ n.bbMap = h.bbMap /\ n.vecIns = h.vecIns /\ n.termAddr = h.termAddr
                  /\ n.readOnly = h.readOnly /\ n.fault = h.fault

LEMMA AddSuccessorEnds ==
  ASSUME NEW h \in Graph, NEW b \in Addr, NEW c \in Addr, NEW cd,
         h.vecIns[b] # <<>>, Ends(h, cd), NEW n, n = AddSuccessor(h, b, c)
  PROVE  Ends(n, cd) /\ SameEnds(n, h) /\ c \in n.succs[b]
<1>1. CASE c \in h.succs[b]
  <2>1. n = h
    BY <1>1 DEF AddSuccessor
  <2> QED BY <1>1, <2>1 DEF SameEnds
<1>2. CASE c \notin h.succs[b]
  <2>1. AddsSuccessor(n, h, b, c)
    BY <1>2, AddSuccessorFields DEF IsEmpty
  <2>2. /\ SameEnds(n, h)
        /\ n.succs = [h.succs EXCEPT ![b] = @ \cup {c}]
        /\ n.succsMap = [h.succsMap EXCEPT ![b] = MapSucc(@, c)]
    BY <2>1 DEF AddsSuccessor, SameEnds
  <2>3. h.succs \in [Addr -> SUBSET Addr] /\ h.succsMap \in [Addr -> SUBSET Addr]
    BY DEF Graph
  <2>4. c \in n.succs[b]
    BY <2>2, <2>3
  <2>5. MapSucc(h.succsMap[b], c) \subseteq h.succsMap[b] \cup {c}
    BY DEF MapSucc
  <2>6. Mapped(n)
    BY <2>2, <2>3, <2>5 DEF Ends, Mapped
  <2> QED BY <2>2, <2>4, <2>6 DEF Ends, Ended, SameEnds, LastPc
<1> QED BY <1>1, <1>2

LEMMA SplitEnds ==
  ASSUME NEW h \in Graph, NEW b \in h.bbMap, b \in Addr, NEW a \in Addr \ h.bbMap, NEW cd, NEW E,
         a \in Insns(h, b), Straight(h, cd, E), Ends(h, cd), Ended(h, cd, b),
         NEW n, n = Split(h, b, a)
  PROVE  /\ Ends(n, cd)
         /\ n.bbMap = h.bbMap \cup {a} /\ n.fault = h.fault
         /\ n.readOnly = [h.readOnly EXCEPT ![a] = TRUE, ![b] = TRUE]
         /\ n.vecIns[b] # <<>>
         /\ \A x \in Addr \ {a, b} : n.vecIns[x] = h.vecIns[x] /\ n.termAddr[x] = h.termAddr[x]
<1> DEFINE k == Offset(h, b, a)
           l == Len(h.vecIns[b])
<1>1. Parts(n, h, b, a, k) /\ h.vecIns[b][k] = a
  BY SplitPlaces, OffsetFound
<1> HIDE DEF k
<1>2. /\ k \in 1 .. l
      /\ \A x \in Addr \ {a, b} : n.vecIns[x] = h.vecIns[x]
      /\ Len(n.vecIns[a]) = l - k + 1
      /\ \A i \in 1 .. Len(n.vecIns[a]) : n.vecIns[a][i] = h.vecIns[b][k + i - 1]
      /\ Len(n.vecIns[b]) = k - 1
      /\ \A i \in 1 .. Len(n.vecIns[b]) : n.vecIns[b][i] = h.vecIns[b][i]
      /\ n.readOnly = [h.readOnly EXCEPT ![a] = TRUE, ![b] = TRUE]
  BY <1>1 DEF Parts
<1>3. l \in Nat /\ k \in Nat /\ h.vecIns[b] # <<>>
  BY <1>2, LenFacts DEF Ended
<1>4. h.vecIns[b][1] = b
  BY <1>3 DEF Ends
<1>5. k > 1
  <2>1. k # 1
    BY <1>1, <1>4
  <2> HIDE DEF l
  <2> QED BY <1>2, <1>3, <2>1
<1>6. /\ n.bbMap = h.bbMap \cup {a} /\ n.fault = h.fault
      /\ n.termAddr = SplitTermAddr(h, b, a)
      /\ n.succs = [h.succs EXCEPT ![a] = h.succs[b], ![b] = {a}]
      /\ n.succsMap = [h.succsMap EXCEPT ![a] = MapSuccs(h.succs[b]), ![b] = {a}]
  BY DEF Split
<1>7. /\ h.succs \in [Addr -> SUBSET Addr] /\ h.succsMap \in [Addr -> SUBSET Addr]
      /\ h.termAddr \in [Addr -> Nat] /\ h.readOnly \in [Addr -> BOOLEAN]
      /\ h.bbMap \subseteq Addr
  BY DEF Graph
<1>8. a # b /\ a \notin h.bbMap
  OBVIOUS
<1>9. /\ n.termAddr[a] = h.termAddr[b]
      /\ \A x \in Addr \ {a, b} : n.termAddr[x] = h.termAddr[x]
  BY <1>6, <1>7, <1>8 DEF SplitTermAddr
<1>10. Mapped(n)
  <2>1. MapSuccs(h.succs[b]) \subseteq h.succs[b]
    BY DEF MapSuccs
  <2> QED BY SMTT(30), <1>6, <1>7, <1>8, <2>1 DEF Ends, Mapped
<1> HIDE DEF l
<1>11. /\ Len(n.vecIns[a]) \in Nat \ {0} /\ Len(n.vecIns[b]) \in Nat \ {0}
       /\ Len(n.vecIns[b]) = k - 1 /\ k - 1 \in 1 .. l - 1
       /\ k + Len(n.vecIns[a]) - 1 = l /\ k + 1 - 1 = k
  BY <1>2, <1>3, <1>5
<1>12. n.vecIns[a] # <<>> /\ n.vecIns[b] # <<>>
  BY <1>11
<1>13. n.vecIns[a][1] = a /\ n.vecIns[b][1] = b
  <2>1. 1 \in 1 .. Len(n.vecIns[a]) /\ 1 \in 1 .. Len(n.vecIns[b])
    BY <1>11
  <2>2. n.vecIns[a][1] = h.vecIns[b][k + 1 - 1] /\ n.vecIns[b][1] = h.vecIns[b][1]
    BY <1>2, <2>1
  <2> QED BY <1>1, <1>4, <1>11, <2>2
<1>14. LastPc(n, a) = LastPc(h, b)
  <2>1. Len(n.vecIns[a]) \in 1 .. Len(n.vecIns[a])
    BY <1>11
  <2>2. n.vecIns[a][Len(n.vecIns[a])] = h.vecIns[b][k + Len(n.vecIns[a]) - 1]
    BY <1>2, <2>1
  <2> QED BY <1>11, <2>2 DEF LastPc, l
<1>15. Ended(n, cd, a)
  BY <1>9, <1>12, <1>14 DEF Ended
<1>16. Ended(n, cd, b)
  <2>1. Len(n.vecIns[b]) \in 1 .. Len(n.vecIns[b])
    BY <1>11
  <2>2. LastPc(n, b) = h.vecIns[b][k - 1]
    BY ZenonT(30), <1>2, <1>11, <2>1 DEF LastPc
  <2>3. ~EndsBlock(cd[h.vecIns[b][k - 1]])
    BY <1>11 DEF Straight, l
  <2> QED BY <1>12, <2>2, <2>3 DEF Ended
<1>17. ASSUME NEW x \in Addr \ {a, b}
       PROVE  /\ n.vecIns[x] = h.vecIns[x] /\ n.termAddr[x] = h.termAddr[x]
              /\ n.readOnly[x] = h.readOnly[x] /\ (x \in n.bbMap <=> x \in h.bbMap)
              /\ Ended(n, cd, x) <=> Ended(h, cd, x)
  <2>1. /\ n.vecIns[x] = h.vecIns[x] /\ n.termAddr[x] = h.termAddr[x]
        /\ n.readOnly[x] = h.readOnly[x] /\ (x \in n.bbMap <=> x \in h.bbMap)
    BY ZenonT(30), <1>2, <1>6, <1>7, <1>9
  <2> QED BY <2>1 DEF Ended, LastPc
<1>18. Ends(n, cd)
  <2>1. \A x \in n.bbMap : n.readOnly[x] => Ended(n, cd, x)
    BY SMTT(30), <1>6, <1>7, <1>15, <1>16, <1>17 DEF Ends
  <2>2. \A x \in n.bbMap : n.vecIns[x] # <<>> => n.vecIns[x][1] = x
    BY ZenonT(30), <1>6, <1>7, <1>13, <1>17 DEF Ends
  <2>3. \A x \in Addr \ n.bbMap : n.vecIns[x] = <<>> /\ n.termAddr[x] = 0 /\ ~n.readOnly[x]
    BY <1>6, <1>17 DEF Ends
  <2> QED BY <1>10, <2>1, <2>2, <2>3 DEF Ends
<1> QED BY <1>2, <1>6, <1>12, <1>17, <1>18

(* What the block that b goes on to is: the one at a, over an edge that is *)
(* then in the table; unless the jump is into b.                           *)
LEMMA SuccessorEnds ==
  ASSUME DistinctKeys, NEW h, NEW cd, NEW E, NEW b, Form(h, cd, E, b), Ends(h, cd),
         Ended(h, cd, b), NEW a \in Addr,
         NEW s, s = Successor(h, b, a), s.graph.fault = "none", h.fault = "none"
  PROVE  /\ Ends(s.graph, cd) /\ Ended(s.graph, cd, b)
         /\ s.blk = a
         /\ h.readOnly[b] => s.graph.readOnly[b]
         /\ ~s.graph.readOnly[a] /\ a # b => s.graph.termAddr[a] = 0
         /\ InTable(s.graph, LastPc(h, b), a) \/ a \in Insns(h, b) \ {b}
<1> DEFINE hit == {x \in h.succsMap[b] : Key(x) = Key(a)}
           own == BbInBlock(h, a)
           f   == FindBlock(h, b, a)
           p   == LastPc(h, b)
<1>1. /\ WellFormed(h) /\ Straight(h, cd, E) /\ h \in Graph
      /\ b \in h.bbMap /\ b \in Addr /\ a \in Slot /\ h.bbMap \subseteq Addr
      /\ \A x \in h.bbMap \ {b} : h.readOnly[x]
      /\ h.readOnly \in [Addr -> BOOLEAN] /\ h.vecIns[b] # <<>>
      /\ h.succsMap[b] \subseteq h.succs[b] /\ h.succsMap[b] \subseteq Addr
  BY AddrFacts DEF Form, WellFormed, Graph, Ended, Ends, Mapped
<1>2. CASE hit # {}
  <2> DEFINE c == CHOOSE x \in hit : TRUE
  <2>1. f = [blk |-> c, graph |-> h]
    BY <1>2 DEF FindBlock
  <2>2. c \in h.succs[b] /\ c = a
    BY <1>1, <1>2 DEF DistinctKeys
  <2> HIDE DEF c, f
  <2>3. s = [blk |-> a, graph |-> h]
    BY <2>1, <2>2, AddrFacts DEF Successor, f
  <2>4. s.blk = a /\ s.graph = h
    BY <2>3
  <2>5. InTable(h, p, a)
    BY <1>1, <2>2 DEF InTable, IsEmpty
  <2>6. a \in h.bbMap
    BY <1>1, <2>2 DEF WellFormed, Sym
  <2> QED BY <1>1, <2>4, <2>5, <2>6
<1>3. CASE hit = {} /\ a \in h.bbMap
  <2> DEFINE n == AddSuccessor(h, b, a)
  <2>1. f = [blk |-> a, graph |-> n]
    BY <1>3 DEF FindBlock
  <2>2. Ends(n, cd) /\ SameEnds(n, h) /\ a \in n.succs[b]
    BY <1>1, AddSuccessorEnds
  <2> HIDE DEF n, f
  <2>3. s = [blk |-> a, graph |-> n]
    BY <2>1, AddrFacts DEF Successor, f
  <2>4. s.blk = a /\ s.graph = n
    BY <2>3
  <2>5. InTable(n, p, a) /\ Ended(n, cd, b)
    BY <1>1, <2>2 DEF InTable, IsEmpty, SameEnds, Ended, LastPc
  <2> QED BY <1>1, <1>3, <2>2, <2>4, <2>5 DEF SameEnds
<1>4. CASE hit = {} /\ a \notin h.bbMap /\ own # NoBlock /\ a \in Insns(h, own)
  <2> DEFINE m == Split(h, own, a)
             n == AddSuccessor(m, b, a)
  <2>1. f = [blk |-> a, graph |-> n]
    BY <1>4 DEF FindBlock
  <2>2. own \in h.bbMap /\ own \in Addr /\ own # a /\ a \in Addr \ h.bbMap
    BY <1>1, <1>4 DEF BbInBlock, WellFormed, MapsIn
  <2>3. Ended(h, cd, own)
    BY <1>1, <2>2 DEF Ends
  <2>4. /\ Ends(m, cd) /\ m.bbMap = h.bbMap \cup {a} /\ m.fault = h.fault
        /\ m.readOnly = [h.readOnly EXCEPT ![a] = TRUE, ![own] = TRUE]
        /\ m.vecIns[own] # <<>>
        /\ \A x \in Addr \ {a, own} : m.vecIns[x] = h.vecIns[x] /\ m.termAddr[x] = h.termAddr[x]
    BY <1>1, <1>4, <2>2, <2>3, SplitEnds
  <2>5. m \in Graph
    BY <1>1, <1>4, <2>2, SplitWF DEF WellFormed
  <2> HIDE DEF m, own, hit
  <2>6. m.vecIns[b] # <<>>
    BY <1>1, <1>4, <2>2, <2>4
  <2>7. Ends(n, cd) /\ SameEnds(n, m) /\ a \in n.succs[b]
    BY <1>1, <2>4, <2>5, <2>6, AddSuccessorEnds
  <2> HIDE DEF n, f
  <2>8. s = [blk |-> a, graph |-> n]
    BY <2>1, AddrFacts DEF Successor, f
  <2>9. s.blk = a /\ s.graph = n
    BY <2>8
  <2>10. n.readOnly[a] /\ (h.readOnly[b] => n.readOnly[b]) /\ b \in n.bbMap /\ n.readOnly[own]
    BY <1>1, <2>2, <2>4, <2>7 DEF SameEnds
  <2>11. Ended(n, cd, b)
    <3>1. CASE b = own
      BY <1>1, <2>7, <2>10, <3>1 DEF Ends
    <3>2. CASE b # own
      <4>1. b # a
        BY <1>1, <2>2
      <4>2. n.vecIns[b] = h.vecIns[b] /\ n.termAddr[b] = h.termAddr[b]
        BY <1>1, <2>4, <2>7, <3>2, <4>1 DEF SameEnds
      <4> QED BY <4>2 DEF Ended, LastPc
    <3> QED BY <3>1, <3>2
  <2>12. CASE own = b
    BY <1>1, <1>4, <2>2, <2>7, <2>9, <2>10, <2>11, <2>12
  <2>13. CASE own # b
    <3>1. b # a
      BY <1>1, <2>2
    <3>2. n.vecIns[b] = h.vecIns[b]
      BY <1>1, <2>4, <2>7, <2>13, <3>1 DEF SameEnds
    <3>3. InTable(n, p, a)
      BY <1>1, <2>7, <2>10, <3>2 DEF InTable, IsEmpty, LastPc
    <3> QED BY <2>7, <2>9, <2>10, <2>11, <3>3
  <2> QED BY <2>12, <2>13
<1>5. CASE hit = {} /\ a \notin h.bbMap /\ own # NoBlock /\ a \notin Insns(h, own)
  <2> DEFINE n == Abort(h, "split")
  <2>1. f = [blk |-> b, graph |-> n]
    BY <1>5 DEF FindBlock
  <2>2. n.fault = "split"
    BY <1>1 DEF Abort, Graph
  <2> HIDE DEF n, f
  <2>3. s = [blk |-> b, graph |-> n]
    BY <1>1, <2>1, AddrFacts DEF Successor, f
  <2>4. s.graph = n
    BY <2>3
  <2> QED BY <2>2, <2>4
<1>6. CASE hit = {} /\ a \notin h.bbMap /\ own = NoBlock
  <2> DEFINE m == Construct(h, a)
             n == AddSuccessor(m, b, a)
  <2>1. f.blk = NoBlock
    BY <1>6 DEF FindBlock
  <2>2. s = [blk |-> a, graph |-> n]
    BY <2>1 DEF Successor, NewBlock, f
  <2>3. /\ m.bbMap = h.bbMap \cup {a} /\ m.vecIns = h.vecIns /\ m.termAddr = h.termAddr
        /\ m.readOnly = h.readOnly /\ m.fault = h.fault
        /\ m.succs = h.succs /\ m.succsMap = h.succsMap
    BY <1>1 DEF Construct, Graph
  <2>4. m \in Graph
    BY <1>1, ConstructWF DEF WellFormed
  <2> HIDE DEF m
  <2>5. h.vecIns[a] = <<>> /\ h.termAddr[a] = 0 /\ ~h.readOnly[a]
    BY <1>6 DEF Ends
  <2>6. Ends(m, cd)
    BY <1>1, <2>3, <2>5 DEF Ends, Ended, LastPc, Mapped
  <2>7. Ends(n, cd) /\ SameEnds(n, m) /\ a \in n.succs[b]
    BY <1>1, <2>3, <2>4, <2>6, AddSuccessorEnds
  <2> HIDE DEF n, f
  <2>8. s.blk = a /\ s.graph = n
    BY <2>2
  <2>9. /\ n.vecIns = h.vecIns /\ n.termAddr = h.termAddr /\ n.readOnly = h.readOnly
        /\ b \in n.bbMap
    BY <1>1, <2>3, <2>7 DEF SameEnds
  <2>10. InTable(n, p, a) /\ Ended(n, cd, b)
    BY <1>1, <2>7, <2>9 DEF InTable, IsEmpty, Ended, LastPc
  <2> QED BY <2>5, <2>7, <2>8, <2>9, <2>10
<1> QED BY <1>2, <1>3, <1>4, <1>5, <1>6

LEMMA GetNextBlockEnds ==
  ASSUME DistinctKeys, NEW h, NEW cd, NEW b, Form(h, cd, {b}, b), Ends(h, cd),
         Ended(h, cd, b), NEW a \in Addr,
         NEW t, t = GetNextBlock(h, b, a), t.graph.fault = "none", h.fault = "none"
  PROVE  /\ Ends(t.graph, cd) /\ Growing(t.graph, t.blk, a) /\ t.blk = a
         /\ InTable(t.graph, LastPc(h, b), a) \/ a \in Insns(h, b) \ {b}
<1> DEFINE s == Successor(h, b, a)
           n == SetReadOnly(s.graph, b)
<1>1. t.blk = s.blk /\ t.graph = n
  BY DEF GetNextBlock
<1>2. Went(s, h, cd, {b}, b, a)
  BY SuccessorForm
<1> HIDE DEF s
<1>3. s.graph \in Graph /\ b \in Addr /\ b \in s.graph.bbMap
  BY <1>2 DEF Went, Form, WellFormed, Graph
<1>4. /\ n.bbMap = s.graph.bbMap /\ n.vecIns = s.graph.vecIns /\ n.termAddr = s.graph.termAddr
      /\ n.succs = s.graph.succs /\ n.succsMap = s.graph.succsMap /\ n.fault = s.graph.fault
      /\ n.readOnly = [s.graph.readOnly EXCEPT ![b] = TRUE]
      /\ s.graph.readOnly \in [Addr -> BOOLEAN]
  BY <1>3 DEF SetReadOnly, Graph
<1> HIDE DEF n
<1>5. s.graph.fault = "none"
  BY <1>1, <1>4
<1>6. /\ Ends(s.graph, cd) /\ Ended(s.graph, cd, b)
      /\ s.blk = a
      /\ ~s.graph.readOnly[a] /\ a # b => s.graph.termAddr[a] = 0
      /\ InTable(s.graph, LastPc(h, b), a) \/ a \in Insns(h, b) \ {b}
  BY <1>5, SuccessorEnds DEF s
<1>7. Ends(n, cd)
  <2>1. \A x : Ended(n, cd, x) <=> Ended(s.graph, cd, x)
    BY <1>4 DEF Ended, LastPc
  <2>2. \A x \in n.bbMap : n.readOnly[x] => Ended(n, cd, x)
    <3>1. s.graph.bbMap \subseteq Addr
      BY <1>3 DEF Graph
    <3> QED BY <1>4, <1>6, <2>1, <3>1 DEF Ends
  <2>3. \A x \in Addr \ n.bbMap : n.vecIns[x] = <<>> /\ n.termAddr[x] = 0 /\ ~n.readOnly[x]
    BY <1>3, <1>4, <1>6 DEF Ends
  <2> QED BY <1>4, <1>6, <2>2, <2>3 DEF Ends, Mapped
<1>8. Growing(n, a, a)
  BY SMTT(30), <1>3, <1>4, <1>6 DEF Growing
<1>9. InTable(s.graph, LastPc(h, b), a) => InTable(n, LastPc(h, b), a)
  BY <1>4 DEF InTable, IsEmpty, LastPc
<1> QED BY <1>1, <1>6, <1>7, <1>8, <1>9

LEMMA SetTermAddrEnds ==
  ASSUME NEW h \in Graph, NEW b \in h.bbMap, NEW cd, Ends(h, cd), h.vecIns[b] # <<>>,
         h.readOnly[b] \/ h.termAddr[b] = 0, NEW m, m = SetTermAddr(h, b, LastPc(h, b))
  PROVE  Ends(m, cd) /\ Ended(m, cd, b) /\ m.vecIns = h.vecIns /\ m.fault = h.fault
<1>1. b \in Addr /\ h.termAddr \in [Addr -> Nat]
  BY DEF Graph
<1>2. CASE h.termAddr[b] # 0
  <2>1. m = h
    BY <1>2 DEF SetTermAddr
  <2> QED BY <1>2, <2>1 DEF Ends
<1>3. CASE h.termAddr[b] = 0
  <2>1. /\ m.bbMap = h.bbMap /\ m.vecIns = h.vecIns /\ m.readOnly = h.readOnly
        /\ m.succs = h.succs /\ m.succsMap = h.succsMap /\ m.fault = h.fault
        /\ m.termAddr = [h.termAddr EXCEPT ![b] = LastPc(h, b)]
    BY <1>3 DEF SetTermAddr, Graph
  <2>2. Ended(m, cd, b)
    BY <1>1, <2>1 DEF Ended, LastPc
  <2>3. ASSUME NEW x \in h.bbMap, m.readOnly[x] PROVE Ended(m, cd, x)
    <3>1. CASE x = b
      BY <2>2, <3>1
    <3>2. CASE x # b
      <4>1. x \in Addr /\ m.termAddr[x] = h.termAddr[x]
        BY <1>1, <2>1, <3>2 DEF Graph
      <4> QED BY <2>1, <2>3, <4>1 DEF Ends, Ended, LastPc
    <3> QED BY <3>1, <3>2
  <2>4. \A x \in Addr \ m.bbMap : m.termAddr[x] = h.termAddr[x]
    BY <1>1, <2>1
  <2> QED BY <2>1, <2>2, <2>3, <2>4 DEF Ends, Mapped
<1> QED BY <1>2, <1>3

LEMMA AddInsEnds ==
  ASSUME NEW h \in Graph, NEW b \in h.bbMap, ~h.readOnly[b], NEW p \in Addr, NEW cd,
         Ends(h, cd), Growing(h, b, p), NEW n, n = AddIns(h, b, p)
  PROVE  /\ Ends(n, cd) /\ n.vecIns[b] # <<>> /\ LastPc(n, b) = p
         /\ n.termAddr[b] = 0 /\ ~n.readOnly[b] /\ n.fault = h.fault
<1>1. b \in Addr /\ h.vecIns \in [Addr -> Seq(Addr)] /\ h.vecIns[b] \in Seq(Addr)
  BY DEF Graph
<1>2. /\ n.bbMap = h.bbMap /\ n.succs = h.succs /\ n.succsMap = h.succsMap
      /\ n.termAddr = h.termAddr /\ n.readOnly = h.readOnly /\ n.fault = h.fault
      /\ n.vecIns = [h.vecIns EXCEPT ![b] = Append(@, p)]
  <2>1. AddsIns(n, h, b, p)
    BY <1>1, AddInsFields
  <2> QED BY <2>1 DEF AddsIns
<1>3. n.vecIns[b] = Append(h.vecIns[b], p) /\ \A x \in Addr \ {b} : n.vecIns[x] = h.vecIns[x]
  BY <1>1, <1>2
<1>4. n.vecIns[b] # <<>> /\ LastPc(n, b) = p
  <2> DEFINE v == h.vecIns[b]
  <2>1. v \in Seq(Addr)
    BY <1>1
  <2> HIDE DEF v
  <2>2. Append(v, p) # <<>> /\ Append(v, p)[Len(Append(v, p))] = p
    BY <2>1
  <2> QED BY <1>3, <2>2 DEF LastPc, v
<1>5. n.vecIns[b][1] = b
  <2>1. CASE h.vecIns[b] = <<>>
    <3>1. b = p
      BY <2>1 DEF Growing
    <3> QED BY <1>3, <2>1, <3>1
  <2>2. CASE h.vecIns[b] # <<>>
    <3>1. h.vecIns[b][1] = b
      BY <2>2 DEF Ends
    <3>2. Append(h.vecIns[b], p)[1] = h.vecIns[b][1]
      BY <1>1, <2>2
    <3> QED BY <1>3, <3>1, <3>2
  <2> QED BY <2>1, <2>2
<1>6. \A x \in Addr \ {b} : Ended(n, cd, x) <=> Ended(h, cd, x)
  BY <1>2, <1>3 DEF Ended, LastPc
<1>7. h.bbMap \subseteq Addr
  BY DEF Graph
<1>8. Ends(n, cd)
  <2>1. \A x \in n.bbMap : n.readOnly[x] => Ended(n, cd, x)
    BY <1>2, <1>6, <1>7 DEF Ends
  <2>2. \A x \in n.bbMap : n.vecIns[x] # <<>> => n.vecIns[x][1] = x
    BY <1>2, <1>3, <1>5, <1>7 DEF Ends
  <2>3. \A x \in Addr \ n.bbMap : n.vecIns[x] = <<>> /\ n.termAddr[x] = 0 /\ ~n.readOnly[x]
    BY <1>2, <1>3 DEF Ends
  <2> QED BY <1>2, <2>1, <2>2, <2>3 DEF Ends, Mapped
<1> QED BY <1>2, <1>4, <1>8 DEF Growing

(* A block that begins with a transfer of control consists of it. *)
LEMMA BeginsAndEnds ==
  ASSUME NEW h \in Graph, NEW b \in h.bbMap, NEW cd, NEW E, Straight(h, cd, E), Ends(h, cd),
         h.vecIns[b] # <<>>, EndsBlock(cd[b])
  PROVE  LastPc(h, b) = b /\ Insns(h, b) = {b}
<1> DEFINE l == Len(h.vecIns[b])
<1>1. b \in Addr /\ h.vecIns[b] \in Seq(Addr)
  BY DEF Graph
<1>2. l \in Nat \ {0} /\ h.vecIns[b][1] = b
  BY <1>1 DEF Ends
<1>3. \A i \in 1 .. l - 1 : ~EndsBlock(cd[h.vecIns[b][i]])
  BY <1>1 DEF Straight
<1> HIDE DEF l
<1>4. 1 \notin 1 .. l - 1
  BY <1>2, <1>3
<1>5. l = 1
  BY <1>2, <1>4
<1> QED BY <1>2, <1>5 DEF LastPc, Insns, l

LEMMA TranslateEnds ==
  ASSUME DistinctKeys, pc \in Addr, NEW npc \in Addr, NEW h, NEW b, Form(h, code, {}, b),
         Ends(h, code), Growing(h, b, pc), h.fault = "none",
         IF h.readOnly[b] THEN b = pc ELSE h.insMap[pc] = NoBlock,
         NEW t, t = TranslateRiscv(h, b, npc), t.graph.fault = "none"
  PROVE  /\ Ends(t.graph, code) /\ Growing(t.graph, t.blk, npc)
         /\ h.readOnly[b] /\ EndsBlock(code[pc]) => InTable(t.graph, pc, npc)
<1> DEFINE n == AddIns(h, b, pc)
           m == SetTermAddr(n, b, pc)
<1>1. h \in Graph /\ b \in Addr /\ b \in h.bbMap /\ pc \in Nat /\ WellFormed(h) /\ Straight(h, code, {})
  BY AddrFacts DEF Form, WellFormed, Graph
<1>2. IF EndsBlock(code[pc]) THEN t = GetNextBlock(m, b, npc) ELSE t.blk = b /\ t.graph = n
  BY DEF TranslateRiscv
<1>3. CASE h.readOnly[b]
  <2>1. n = h /\ b = pc
    BY <1>3 DEF AddIns
  <2> HIDE DEF n
  <2>2. CASE ~EndsBlock(code[pc])
    BY <1>2, <1>3, <2>1, <2>2 DEF Growing
  <2>3. CASE EndsBlock(code[pc])
    <3>1. h.vecIns[b] # <<>>
      BY <1>1, <1>3 DEF Ends, Ended
    <3>2. LastPc(h, b) = pc /\ Insns(h, b) = {b}
      BY <1>1, <2>1, <2>3, <3>1, BeginsAndEnds
    <3>3. Ends(m, code) /\ Ended(m, code, b) /\ m.vecIns = h.vecIns /\ m.fault = h.fault
      BY <1>1, <1>3, <2>1, <3>1, <3>2, SetTermAddrEnds
    <3>4. Form(m, code, {b}, b)
      BY <1>1, <2>1, WiderForm, SetTermAddrForm
    <3> HIDE DEF m
    <3>5. LastPc(m, b) = pc /\ Insns(m, b) \ {b} = {}
      BY <3>2, <3>3 DEF LastPc, Insns
    <3> QED BY <1>2, <2>3, <3>3, <3>4, <3>5, GetNextBlockEnds
  <2> QED BY <2>2, <2>3
<1>4. CASE ~h.readOnly[b]
  <2>1. /\ Ends(n, code) /\ n.vecIns[b] # <<>> /\ LastPc(n, b) = pc
        /\ n.termAddr[b] = 0 /\ ~n.readOnly[b] /\ n.fault = h.fault
    BY <1>1, <1>4, AddInsEnds
  <2>2. CASE ~EndsBlock(code[pc])
    <3> HIDE DEF n
    <3> QED BY <1>2, <1>4, <2>1, <2>2 DEF Growing
  <2>3. CASE EndsBlock(code[pc])
    <3>1. Straight(n, code, {b}) /\ Placed(n)
      BY <1>1, <1>4, <2>3, AddInsForm DEF Form
    <3>2. WellFormed(n) /\ n.bbMap = h.bbMap
      BY <1>1, AddInsWF
    <3>3. n.readOnly = h.readOnly
      BY ZenonT(30), <1>1, <1>4, AddInsFields DEF AddsIns
    <3> HIDE DEF n
    <3>4. Form(n, code, {b}, b) /\ n \in Graph
      BY <3>1, <3>2, <3>3 DEF Form, WellFormed
    <3>5. Form(m, code, {b}, b)
      BY <1>1, <3>4, SetTermAddrForm
    <3>6. Ends(m, code) /\ Ended(m, code, b) /\ m.fault = h.fault
      BY <1>1, <2>1, <3>2, <3>4, SetTermAddrEnds
    <3> HIDE DEF m
    <3> QED BY <1>2, <1>4, <2>3, <3>5, <3>6, GetNextBlockEnds
  <2> QED BY <2>2, <2>3
<1> QED BY <1>3, <1>4

-----------------------------------------------------------------------------
LEMMA InitEndedInv == Init => EndedInv
<1> SUFFICES ASSUME Init PROVE EndedInv
  OBVIOUS
<1>1. /\ g.bbMap = {pc} /\ g.vecIns = [a \in Addr |-> <<>>] /\ cBB = pc /\ pc \in Addr
      /\ g.termAddr = [a \in Addr |-> 0] /\ g.readOnly = [a \in Addr |-> FALSE]
      /\ g.succsMap = [a \in Addr |-> {}]
  BY DEF Init, Construct, EmptyGraph
<1>2. Ends(g, code)
  BY <1>1 DEF Ends, Mapped
<1>3. Growing(g, cBB, pc)
  BY <1>1 DEF Growing
<1> QED BY <1>2, <1>3, InitShapeInv DEF EndedInv

(* The edge taken from the end of block b. *)
Takes(b, npc) ==
  /\ g.readOnly[b] /\ BbInBlock(g, pc) = b
  /\ EndsBlock(code[pc]) /\ LastPc(g, b) = pc
  => InTable(g', pc, npc) \/ npc \in Insns(g, b) \ {b}

LEMMA RecordEnds ==
  ASSUME DistinctKeys, EndedInv, g.fault = "none", NEW npc \in Addr,
         Stay(npc) \/ Leave(npc) \/ Build(npc) \/ Join(npc), g'.fault = "none"
  PROVE  /\ Ends(g', code) /\ Growing(g', cBB', npc)
         /\ \A b \in g.bbMap : Takes(b, npc)
<1> DEFINE r == Resync
<1>1. /\ Form(g, code, {}, r) /\ Ends(g, code) /\ pc \in Addr
      /\ ~g.readOnly[r] => r = cBB /\ Growing(g, r, pc)
  BY ResyncForm DEF EndedInv, ShapeInv, GraphInv, TypeOK
<1>2. /\ WellFormed(g) /\ g \in Graph /\ r \in Addr /\ r \in g.bbMap /\ g.bbMap \subseteq Addr
      /\ Straight(g, code, {}) /\ NoBlock \notin g.bbMap
  BY <1>1, AddrFacts DEF Form, WellFormed, Graph
<1>3. ASSUME NEW b \in g.bbMap, BbInBlock(g, pc) = b, g.readOnly[r] PROVE r = b
  BY <1>2, <1>3 DEF Resync
<1>4. CASE Stay(npc)
  <2>1. g.readOnly[r] /\ pc # g.termAddr[r] /\ g' = g /\ cBB' = r
    BY <1>4 DEF Stay, Become
  <2>2. Ended(g, code, r)
    BY <1>1, <1>2, <2>1 DEF Ends
  <2> HIDE DEF r
  <2>3. \A b \in g.bbMap : Takes(b, npc)
    BY <1>3, <2>1, <2>2 DEF Takes, Ended
  <2> QED BY <1>1, <2>1, <2>3 DEF Growing
<1>5. CASE Leave(npc)
  <2> DEFINE s == Successor(g, r, npc)
  <2>1. g.readOnly[r] /\ pc = g.termAddr[r] /\ g' = s.graph /\ cBB' = s.blk
    BY <1>5 DEF Leave, Become
  <2>2. Ended(g, code, r)
    BY <1>1, <1>2, <2>1 DEF Ends
  <2> HIDE DEF r
  <2>3. /\ Ends(s.graph, code) /\ s.blk = npc
        /\ ~s.graph.readOnly[npc] /\ npc # r => s.graph.termAddr[npc] = 0
        /\ s.graph.readOnly[r]
        /\ InTable(s.graph, LastPc(g, r), npc) \/ npc \in Insns(g, r) \ {r}
    BY <1>1, <2>1, <2>2, SuccessorEnds
  <2> HIDE DEF s
  <2>4. Growing(g', cBB', npc)
    BY <2>1, <2>3 DEF Growing
  <2>5. \A b \in g.bbMap : Takes(b, npc)
    BY <1>3, <2>1, <2>3 DEF Takes
  <2> QED BY <2>1, <2>3, <2>4, <2>5
<1>6. CASE Build(npc)
  <2> DEFINE t == TranslateRiscv(g, r, npc)
  <2>1. ~g.readOnly[r] /\ g.insMap[pc] = NoBlock /\ g' = t.graph /\ cBB' = t.blk
    BY <1>6 DEF Build, Become, BbInBlock
  <2> HIDE DEF r
  <2>2. t.graph.fault = "none"
    BY <2>1
  <2>3. Ends(t.graph, code) /\ Growing(t.graph, t.blk, npc)
    BY <1>1, <2>1, <2>2, TranslateEnds
  <2> HIDE DEF t
  <2>4. \A b \in g.bbMap : Takes(b, npc)
    BY <1>2, <2>1 DEF Takes, BbInBlock
  <2> QED BY <2>1, <2>3, <2>4
<1>7. CASE Join(npc)
  <2>1. ~g.readOnly[r] /\ g.insMap[pc] # NoBlock
    BY <1>7 DEF Join, BbInBlock
  <2>2. ~IsEmpty(g, r)
    <3>1. ASSUME IsEmpty(g, r) PROVE FALSE
      <4>1. g' = Abort(g, "at")
        BY <1>7, <3>1 DEF Join, Become
      <4>2. Abort(g, "at").fault = "at"
        BY <1>2 DEF Abort, Graph
      <4> QED BY <4>1, <4>2
    <3> QED BY <3>1
  <2> DEFINE m == SetTermAddr(g, r, LastPc(g, r))
             s == GetNextBlock(m, r, pc)
             t == TranslateRiscv(s.graph, s.blk, npc)
  <2>3. IF s.graph.fault # "none" THEN g' = s.graph ELSE g' = t.graph /\ cBB' = t.blk
    BY <1>7, <2>2 DEF Join, Become
  <2> HIDE DEF r
  <2>4. g.termAddr[r] = 0 /\ g.vecIns[r] # <<>>
    BY <1>1, <2>1, <2>2 DEF Growing, IsEmpty
  <2>5. LastPc(g, r) \in Nat
    <3>1. g.vecIns[r] \in Seq(Addr)
      BY <1>2 DEF Graph
    <3>2. g.vecIns[r][Len(g.vecIns[r])] \in Addr
      BY <2>4, <3>1
    <3> QED BY <3>2, AddrFacts DEF LastPc
  <2>6. Form(m, code, {r}, r) /\ SameForm(m, g)
    BY <1>1, <2>5, WiderForm, SetTermAddrForm DEF SameForm
  <2>7. Ends(m, code) /\ Ended(m, code, r) /\ m.fault = "none"
    BY <1>1, <1>2, <2>4, SetTermAddrEnds
  <2>8. m.insMap[pc] # NoBlock
    BY <2>1, <2>6 DEF SameForm
  <2> HIDE DEF m
  <2>9. Form(s.graph, code, {}, s.blk) /\ s.graph.readOnly[s.blk]
    BY <1>1, <2>6, <2>8, GetNextBlockForm
  <2>10. s.graph.fault = "none" /\ t.graph.fault = "none"
    BY <2>3
  <2>11. Ends(s.graph, code) /\ s.blk = pc /\ Growing(s.graph, s.blk, pc)
    BY <1>1, <2>6, <2>7, <2>10, GetNextBlockEnds
  <2> HIDE DEF s
  <2>12. /\ Ends(t.graph, code) /\ Growing(t.graph, t.blk, npc)
         /\ EndsBlock(code[pc]) => InTable(t.graph, pc, npc)
    BY <1>1, <2>9, <2>10, <2>11, TranslateEnds
  <2> HIDE DEF t
  <2> QED BY <2>3, <2>10, <2>12 DEF Takes
<1> QED BY <1>4, <1>5, <1>6, <1>7

LEMMA StepEndedInv == ASSUME DistinctKeys, EndedInv, [Next]_vars PROVE EndedInv'
<1>1. ShapeInv'
  BY StepShapeInv DEF EndedInv
<1>2. ASSUME NEW npc \in NextPcs(pc), Step(npc), g'.fault = "none"
      PROVE  Ends(g', code') /\ Growing(g', cBB', pc')
  <2>1. npc \in Addr
    BY DEF NextPcs
  <2>2. Ends(g', code) /\ Growing(g', cBB', npc)
    BY <1>2, <2>1, RecordEnds DEF Step, Running
  <2> QED BY <1>2, <2>2 DEF Step
<1>3. CASE EndTrace \/ UNCHANGED vars
  <2>1. UNCHANGED <<code, pc, g, cBB>>
    BY <1>3 DEF EndTrace, vars
  <2> QED BY <1>1, <2>1 DEF EndedInv, Ends, Ended, Growing, LastPc, Mapped
<1> QED BY <1>1, <1>2, <1>3 DEF Next, EndedInv

LEMMA StepKeepsMapped ==
  ASSUME DistinctKeys, EndedInv, Next, NEW b \in g.bbMap, Leaves(b), BbInBlock(g, pc) = b
  PROVE  EdgeKept(b)
<1>1. PICK npc \in NextPcs(pc) : Step(npc)
  BY DEF Next, EndTrace, Leaves
<1>2. npc \in Addr /\ pc' = npc
  BY <1>1 DEF NextPcs, Step
<1>3. Takes(b, npc)
  BY <1>1, <1>2, RecordEnds DEF Step, Running, Leaves
<1> QED BY <1>2, <1>3 DEF Takes, Leaves, EdgeKept

(* Without exceptions bbInBlock names the block that holds pc. *)
LEMMA LastMapped ==
  ASSUME ReplayInv, NEW b \in g.bbMap, ~IsEmpty(g, b), LastPc(g, b) = pc
  PROVE  BbInBlock(g, pc) = b
<1>1. g \in Graph /\ LaidOut(g) /\ b \in Addr /\ b \in Nat
  BY AddrFacts DEF ReplayInv, Settled, Sound, WellFormed, Graph
<1>2. Len(g.vecIns[b]) \in Nat /\ g.vecIns[b] # <<>> /\ g.vecIns[b] \in Seq(Addr)
  BY <1>1 DEF Graph, IsEmpty
<1>3. Len(g.vecIns[b]) >= 1
  BY <1>2
<1>4. pc = b + Len(g.vecIns[b]) - 1
  <2>1. \A i \in 1 .. Len(g.vecIns[b]) : g.vecIns[b][i] = b + i - 1
    BY <1>1 DEF LaidOut
  <2>2. Len(g.vecIns[b]) \in 1 .. Len(g.vecIns[b])
    BY <1>2, <1>3
  <2> QED BY <2>1, <2>2 DEF LastPc
<1>5. pc \in Slot
  BY AddrFacts DEF ReplayInv, GraphInv, TypeOK
<1>6. pc \in Extent(g, b)
  <2> DEFINE n == Len(g.vecIns[b])
  <2> HIDE DEF n
  <2>1. pc = b + n - 1 /\ n \in Nat /\ n >= 1 /\ b \in Nat
    BY <1>1, <1>2, <1>3, <1>4 DEF n
  <2>2. pc \in b .. b + n - 1
    BY <2>1
  <2> QED BY <2>2 DEF n, Extent
<1>7. g.insMap[pc] = b <=> pc \in Extent(g, b)
  BY <1>1, <1>5 DEF LaidOut
<1> QED BY <1>6, <1>7 DEF BbInBlock

(* What the resynchronisation is for: without exceptions, whenever the     *)
(* last instruction of a built block transfers control, the edge taken is  *)
(* in the graph afterwards, unless it leads back into the middle of that   *)
(* block.                                                                  *)
THEOREM TakenEdgesAreKept == ASSUME ~Traps, DistinctKeys PROVE Spec => TakenEdgeKept
<1>1. /\ EndedInv /\ [Next]_vars => EndedInv'
      /\ ReplayInv /\ [Next]_vars => ReplayInv'
  BY StepEndedInv, StepReplayInv
<1>2. EndedInv /\ ReplayInv /\ [Next]_vars => [\A b \in g.bbMap : Leaves(b) => EdgeKept(b)]_vars
  BY StepKeepsMapped, LastMapped DEF Leaves
<1> QED BY <1>1, <1>2, InitEndedInv, InitReplayInv, PTL DEF Spec, TakenEdgeKept

(* What exceptions leave of that: it holds for every instruction that      *)
(* insMap has in the right block.  Where split has mapped it to another,   *)
(* the edge can be lost (TakenEdgeKept fails), so this proviso is needed.  *)
THEOREM MappedEdgesAreKept == ASSUME DistinctKeys PROVE Spec => MappedEdgeKept
<1>1. EndedInv /\ [Next]_vars => EndedInv'
  BY StepEndedInv
<1>2. EndedInv /\ [Next]_vars =>
        [\A b \in g.bbMap : Leaves(b) /\ BbInBlock(g, pc) = b => EdgeKept(b)]_vars
  BY StepKeepsMapped
<1> QED BY <1>1, <1>2, InitEndedInv, PTL DEF Spec, MappedEdgeKept
=============================================================================
