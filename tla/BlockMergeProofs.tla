-------------------------- MODULE BlockMergeProofs --------------------------
(***************************************************************************)
(* From the trace to the region: what replay, clean-up and merging keep,   *)
(* for every address range, key width, program and trace.                  *)
(***************************************************************************)
EXTENDS TraceReplayProofs, Reports, FiniteSetTheorems

(* Every block of h is reached from r. *)
Spans(h, r) ==
  \A S \in SUBSET h.bbMap :
    r \in S /\ (\A b \in S : h.succs[b] \subseteq S) => S = h.bbMap

(* Unless the process aborts, what spans h spans n.                        *)
Carries(n, h) ==
  n.fault = "none" => /\ h.fault = "none"
                      /\ \A r \in h.bbMap : Spans(h, r) => Spans(n, r)

LEMMA CarriesOn ==
  ASSUME NEW n, NEW m, NEW h, Carries(n, m), Carries(m, h), h.bbMap \subseteq m.bbMap
  PROVE  Carries(n, h)
BY DEF Carries

(* More edges between the same blocks. *)
LEMMA MoreEdges ==
  ASSUME NEW n, NEW h \in Graph, n.bbMap = h.bbMap, n.fault = h.fault,
         \A x \in Addr : h.succs[x] \subseteq n.succs[x]
  PROVE  Carries(n, h)
<1> SUFFICES ASSUME NEW r \in h.bbMap, Spans(h, r) PROVE Spans(n, r)
  BY DEF Carries
<1>1. h.bbMap \subseteq Addr
  BY DEF Graph
<1> SUFFICES ASSUME NEW S \in SUBSET n.bbMap, r \in S, \A b \in S : n.succs[b] \subseteq S
             PROVE  S = n.bbMap
  BY DEF Spans
<1>2. \A b \in S : h.succs[b] \subseteq S
  BY <1>1
<1> QED BY <1>2 DEF Spans

LEMMA AddSuccessorCarries ==
  ASSUME NEW h \in Graph, NEW b \in Addr, NEW c \in Addr, NEW n, n = AddSuccessor(h, b, c)
  PROVE  Carries(n, h)
<1>1. CASE c \in h.succs[b]
  BY <1>1 DEF AddSuccessor, Carries
<1>2. CASE c \notin h.succs[b] /\ IsEmpty(h, b)
  <2>1. n = Abort(h, "fallsThru")
    BY <1>2 DEF AddSuccessor
  <2>2. n.fault = "fallsThru"
    BY <2>1 DEF Abort, Graph
  <2> QED BY <2>2 DEF Carries
<1>3. CASE c \notin h.succs[b] /\ ~IsEmpty(h, b)
  <2>1. AddsSuccessor(n, h, b, c)
    BY <1>3, AddSuccessorFields
  <2>2. \A x \in Addr : h.succs[x] \subseteq n.succs[x]
    BY <2>1 DEF AddsSuccessor, Graph
  <2> QED BY <2>1, <2>2, MoreEdges DEF AddsSuccessor
<1> QED BY <1>1, <1>2, <1>3

(* A new block that a block leads to. *)
LEMMA NewBlockCarries ==
  ASSUME NEW h, WellFormed(h), NEW b \in h.bbMap, NEW a \in Addr, a \notin h.bbMap,
         NEW n, n = NewBlock(h, a, b)
  PROVE  Carries(n, h)
<1> DEFINE m == Construct(h, a)
<1>1. h \in Graph /\ b \in Addr /\ h.bbMap \subseteq Addr /\ Sym(h)
  BY DEF WellFormed, Graph
<1>2. /\ m \in Graph /\ m.bbMap = h.bbMap \cup {a} /\ m.succs = h.succs
      /\ m.vecIns = h.vecIns /\ m.fault = h.fault
  <2>1. m \in Graph
    BY ConstructWF DEF WellFormed
  <2> QED BY <1>1, <2>1 DEF Construct, Graph
<1>3. n = AddSuccessor(m, b, a)
  BY DEF NewBlock
<1> HIDE DEF m
<1>4. a \notin m.succs[b]
  BY <1>1, <1>2 DEF Sym
<1>5. CASE IsEmpty(m, b)
  <2>1. n = Abort(m, "fallsThru")
    BY <1>3, <1>4, <1>5 DEF AddSuccessor
  <2>2. n.fault = "fallsThru"
    BY <1>2, <2>1 DEF Abort, Graph
  <2> QED BY <2>2 DEF Carries
<1>6. CASE ~IsEmpty(m, b)
  <2>1. AddsSuccessor(n, m, b, a)
    BY <1>1, <1>2, <1>3, <1>4, <1>6, AddSuccessorFields
  <2>4. n.fault = h.fault /\ n.bbMap = h.bbMap \cup {a}
    BY <1>2, <2>1 DEF AddsSuccessor
  <2>5. n.succs = [h.succs EXCEPT ![b] = @ \cup {a}] /\ h.succs \in [Addr -> SUBSET Addr]
    BY <1>1, <1>2, <2>1 DEF AddsSuccessor, Graph
  <2>2. /\ n.fault = h.fault /\ n.bbMap = h.bbMap \cup {a}
        /\ \A x \in Addr : n.succs[x] = IF x = b THEN h.succs[x] \cup {a} ELSE h.succs[x]
    BY <2>4, <2>5
  <2>3. ASSUME NEW r \in h.bbMap, Spans(h, r), NEW S \in SUBSET n.bbMap,
               r \in S, \A x \in S : n.succs[x] \subseteq S
        PROVE  S = n.bbMap
    <3> DEFINE T == S \ {a}
    <3>1. ASSUME NEW x \in T PROVE h.succs[x] \subseteq T
      <4>1. x \in S /\ x \in Addr
        BY <1>1, <2>2
      <4>2. h.succs[x] \subseteq n.succs[x] /\ n.succs[x] \subseteq S
        BY <2>2, <2>3, <4>1
      <4>3. a \notin h.succs[x]
        BY <1>1, <4>1 DEF Sym
      <4> QED BY <4>2, <4>3
    <3>2. T \in SUBSET h.bbMap /\ r \in T
      BY <2>2, <2>3
    <3> HIDE DEF T
    <3>3. T = h.bbMap
      BY <2>3, <3>1, <3>2 DEF Spans
    <3>4. b \in S /\ a \in n.succs[b]
      BY <1>1, <2>2, <3>3 DEF T
    <3>5. a \in S
      BY <2>3, <3>4
    <3> QED BY <2>2, <2>3, <3>3, <3>5 DEF T
  <2> QED BY <2>2, <2>3 DEF Carries, Spans
<1> QED BY <1>5, <1>6

LEMMA SplitCarries ==
  ASSUME NEW h, WellFormed(h), NEW b \in h.bbMap, NEW a \in Addr, a \notin h.bbMap,
         NEW n, n = Split(h, b, a)
  PROVE  Carries(n, h)
<1>1. h \in Graph /\ b \in Addr /\ h.bbMap \subseteq Addr /\ Sym(h) /\ a # b
  BY DEF WellFormed, Graph
<1>2. /\ n.fault = h.fault /\ n.bbMap = h.bbMap \cup {a}
      /\ n.succs = [h.succs EXCEPT ![a] = h.succs[b], ![b] = {a}]
  BY DEF Split
<1>3. \A x \in Addr : n.succs[x] = IF x = b THEN {a}
                                   ELSE IF x = a THEN h.succs[b] ELSE h.succs[x]
  BY <1>1, <1>2 DEF Graph
<1>4. ASSUME NEW r \in h.bbMap, Spans(h, r), NEW S \in SUBSET n.bbMap,
             r \in S, \A x \in S : n.succs[x] \subseteq S
      PROVE  S = n.bbMap
  <2> DEFINE T == S \ {a}
  <2>1. b \in S => a \in S
    BY <1>1, <1>3, <1>4
  <2>2. ASSUME NEW x \in T PROVE h.succs[x] \subseteq T
    <3>1. x \in Addr /\ x \in h.bbMap /\ a \notin h.succs[x]
      BY <1>1, <1>2 DEF Sym
    <3>2. CASE x = b
      <4>1. n.succs[a] \subseteq S
        BY <1>4, <2>1, <3>2
      <4> QED BY <1>1, <1>3, <3>1, <3>2, <4>1
    <3>3. CASE x # b
      BY <1>3, <1>4, <3>1, <3>3
    <3> QED BY <3>2, <3>3
  <2>3. T \in SUBSET h.bbMap /\ r \in T
    BY <1>2, <1>4
  <2> HIDE DEF T
  <2>4. T = h.bbMap
    BY <1>4, <2>2, <2>3 DEF Spans
  <2> QED BY <1>2, <1>4, <2>1, <2>4 DEF T
<1> QED BY <1>2, <1>4 DEF Carries, Spans

LEMMA SuccessorCarries ==
  ASSUME NEW h, WellFormed(h), NEW b \in h.bbMap, NEW a \in Addr,
         NEW s, s = Successor(h, b, a)
  PROVE  Carries(s.graph, h)
<1> DEFINE hit == {x \in h.succsMap[b] : Key(x) = Key(a)}
           own == BbInBlock(h, a)
           f   == FindBlock(h, b, a)
<1>1. /\ h \in Graph /\ b \in Addr /\ h.bbMap \subseteq Addr /\ a \in Slot
      /\ b # NoBlock /\ MapsIn(h)
  BY AddrFacts DEF WellFormed, Graph
<1>2. s = IF f.blk = NoBlock THEN [blk |-> a, graph |-> NewBlock(h, a, b)] ELSE f
  BY DEF Successor
<1>3. CASE hit # {}
  <2> DEFINE c == CHOOSE x \in hit : TRUE
  <2>1. f = [blk |-> c, graph |-> h]
    BY <1>3 DEF FindBlock
  <2>2. c \in h.bbMap /\ c # NoBlock
    BY <1>1, <1>3, AddrFacts DEF MapsIn
  <2> HIDE DEF c, f
  <2>3. s = [blk |-> c, graph |-> h]
    BY <1>2, <2>1, <2>2
  <2>4. s.graph = h
    BY <2>3
  <2> QED BY <2>4 DEF Carries
<1>4. CASE hit = {} /\ a \in h.bbMap
  <2> DEFINE n == AddSuccessor(h, b, a)
  <2>1. f = [blk |-> a, graph |-> n]
    BY <1>4 DEF FindBlock
  <2>2. Carries(n, h)
    BY <1>1, AddSuccessorCarries
  <2> HIDE DEF n, f
  <2>3. s = [blk |-> a, graph |-> n]
    BY <1>2, <2>1, AddrFacts
  <2>4. s.graph = n
    BY <2>3
  <2> QED BY <2>2, <2>4
<1>5. CASE hit = {} /\ a \notin h.bbMap /\ own # NoBlock /\ a \in Insns(h, own)
  <2> DEFINE m == Split(h, own, a)
             n == AddSuccessor(m, b, a)
  <2>1. own \in h.bbMap /\ own \in Addr
    BY <1>1, <1>5 DEF BbInBlock, MapsIn
  <2>2. f = [blk |-> a, graph |-> n]
    BY <1>5 DEF FindBlock
  <2> HIDE DEF own, hit
  <2>3. Carries(m, h)
    BY <1>5, <2>1, SplitCarries
  <2>4. m \in Graph
    BY <1>1, <1>5, <2>1, SplitWF DEF WellFormed
  <2>5. h.bbMap \subseteq m.bbMap
    BY DEF Split
  <2> HIDE DEF m
  <2>6. Carries(n, m)
    BY <1>1, <2>4, AddSuccessorCarries
  <2> HIDE DEF n, f
  <2>7. Carries(n, h)
    BY <2>3, <2>5, <2>6, CarriesOn
  <2>8. s = [blk |-> a, graph |-> n]
    BY <1>2, <2>2, AddrFacts
  <2>9. s.graph = n
    BY <2>8
  <2> QED BY <2>7, <2>9
<1>6. CASE hit = {} /\ a \notin h.bbMap /\ own # NoBlock /\ a \notin Insns(h, own)
  <2> DEFINE n == Abort(h, "split")
  <2>1. f = [blk |-> b, graph |-> n]
    BY <1>6 DEF FindBlock
  <2>2. n = Abort(h, "split")
    OBVIOUS
  <2> HIDE DEF n, f
  <2>5. n.fault = "split"
    BY <1>1, <2>2 DEF Abort, Graph
  <2>3. s = [blk |-> b, graph |-> n]
    BY <1>1, <1>2, <2>1
  <2>4. s.graph = n
    BY <2>3
  <2> QED BY <2>4, <2>5 DEF Carries
<1>7. CASE hit = {} /\ a \notin h.bbMap /\ own = NoBlock
  <2> DEFINE n == NewBlock(h, a, b)
  <2>1. f.blk = NoBlock
    BY <1>7 DEF FindBlock
  <2>2. Carries(n, h)
    BY <1>7, NewBlockCarries
  <2> HIDE DEF n, f
  <2>3. s = [blk |-> a, graph |-> n]
    BY <1>2, <2>1 DEF n
  <2>4. s.graph = n
    BY <2>3
  <2> QED BY <2>2, <2>4
<1> QED BY <1>3, <1>4, <1>5, <1>6, <1>7

LEMMA SetReadOnlyCarries ==
  ASSUME NEW h \in Graph, NEW b, NEW n, n = SetReadOnly(h, b)
  PROVE  Carries(n, h)
BY DEF SetReadOnly, Graph, Carries, Spans

LEMMA SetTermAddrCarries ==
  ASSUME NEW h \in Graph, NEW b, NEW a, NEW n, n = SetTermAddr(h, b, a)
  PROVE  Carries(n, h)
BY DEF SetTermAddr, Graph, Carries, Spans

LEMMA AddInsCarries ==
  ASSUME NEW h \in Graph, NEW b, NEW a, NEW n, n = AddIns(h, b, a)
  PROVE  Carries(n, h)
BY DEF AddIns, Graph, Carries, Spans

LEMMA GetNextBlockCarries ==
  ASSUME NEW h, WellFormed(h), NEW b \in h.bbMap, NEW a \in Addr,
         NEW t, t = GetNextBlock(h, b, a)
  PROVE  Carries(t.graph, h)
<1> DEFINE s == Successor(h, b, a)
           n == SetReadOnly(s.graph, b)
<1>1. Carries(s.graph, h)
  BY SuccessorCarries
<1>2. s.graph \in Graph /\ h.bbMap \subseteq s.graph.bbMap
  BY SuccessorWF DEF Leads, WellFormed
<1>3. t.graph = n
  BY DEF GetNextBlock
<1> HIDE DEF s
<1>4. Carries(n, s.graph)
  BY <1>2, SetReadOnlyCarries
<1> HIDE DEF n
<1> QED BY <1>1, <1>2, <1>3, <1>4, CarriesOn

LEMMA TranslateCarries ==
  ASSUME NEW h, WellFormed(h), NEW b \in h.bbMap, pc \in Addr, NEW npc \in Addr,
         NEW t, t = TranslateRiscv(h, b, npc)
  PROVE  Carries(t.graph, h)
<1> DEFINE n == AddIns(h, b, pc)
           m == SetTermAddr(n, b, pc)
           u == GetNextBlock(m, b, npc)
<1>1. t.graph = IF EndsBlock(code[pc]) THEN u.graph ELSE n
  BY DEF TranslateRiscv
<1>2. h \in Graph /\ b \in Addr /\ pc \in Nat
  BY AddrFacts DEF WellFormed, Graph
<1>3. Carries(n, h) /\ WellFormed(n) /\ n.bbMap = h.bbMap
  BY <1>2, AddInsCarries, AddInsWF
<1> HIDE DEF n
<1>4. n \in Graph
  BY <1>3 DEF WellFormed
<1>5. Carries(m, n) /\ WellFormed(m) /\ m.bbMap = n.bbMap
  BY <1>2, <1>3, <1>4, SetTermAddrCarries, SetTermAddrWF
<1> HIDE DEF m
<1>6. Carries(u.graph, m)
  BY <1>3, <1>5, GetNextBlockCarries
<1> HIDE DEF u
<1>7. Carries(m, h)
  BY <1>3, <1>5, CarriesOn
<1>8. Carries(u.graph, h)
  BY <1>3, <1>5, <1>6, <1>7, CarriesOn
<1> QED BY <1>1, <1>3, <1>8

-----------------------------------------------------------------------------
(* Deleting and merging, member by member. *)
Removed(n, h, b) ==
  /\ n \in Graph /\ n.fault = h.fault
  /\ n.bbMap = h.bbMap \ {b} /\ n.insMap = h.insMap
  /\ n.vecIns = [h.vecIns EXCEPT ![b] = <<>>]
  /\ n.readOnly = [h.readOnly EXCEPT ![b] = FALSE]
  /\ n.succs = [h.succs EXCEPT ![b] = {}]
  /\ n.preds = [h.preds EXCEPT ![b] = {}]

LEMMA DeleteFields ==
  ASSUME NEW h \in Graph, NEW b \in Addr, NEW n, n = Delete(h, b)
  PROVE  Removed(n, h, b)
<1> DEFINE V == [h.vecIns EXCEPT ![b] = <<>>]
           T == [h.termAddr EXCEPT ![b] = 0]
           R == [h.readOnly EXCEPT ![b] = FALSE]
           S == [h.succs EXCEPT ![b] = {}]
           P == [h.preds EXCEPT ![b] = {}]
           M == [h.succsMap EXCEPT ![b] = {}]
<1>1. n = [h EXCEPT !.bbMap = h.bbMap \ {b}, !.vecIns = V, !.termAddr = T,
                    !.readOnly = R, !.succs = S, !.preds = P, !.succsMap = M]
  BY DEF Delete
<1>2. /\ V \in [Addr -> Seq(Addr)] /\ T \in [Addr -> Nat] /\ R \in [Addr -> BOOLEAN]
      /\ S \in [Addr -> SUBSET Addr] /\ P \in [Addr -> SUBSET Addr]
      /\ M \in [Addr -> SUBSET Addr] /\ h.bbMap \ {b} \in SUBSET Addr
  BY DEF Graph
<1> HIDE DEF V, T, R, S, P, M
<1>3. /\ n \in Graph /\ n.fault = h.fault
      /\ n.bbMap = h.bbMap \ {b} /\ n.insMap = h.insMap /\ n.vecIns = V
      /\ n.readOnly = R /\ n.succs = S /\ n.preds = P
  BY ZenonT(30), <1>1, <1>2 DEF Graph
<1> QED BY <1>3 DEF Removed, V, T, R, S, P, M

(* A block without successors is deleted, and nothing points to it then.   *)
Emptied(n, h, b) ==
  /\ n \in Graph /\ n.fault = h.fault
  /\ n.bbMap = h.bbMap \ {b} /\ n.insMap = h.insMap
  /\ n.vecIns = [h.vecIns EXCEPT ![b] = <<>>]
  /\ n.readOnly = [h.readOnly EXCEPT ![b] = FALSE]
  /\ n.succs = [x \in Addr |-> h.succs[x] \ {b}]
  /\ n.preds = [h.preds EXCEPT ![b] = {}]

LEMMA RemoveEmptyFields ==
  ASSUME NEW h \in Graph, Sym(h), NEW b \in Addr, h.succs[b] = {},
         NEW n, n = RemoveEmpty(h, b)
  PROVE  Emptied(n, h, b)
<1> DEFINE S == [x \in Addr |-> IF x \in h.preds[b] THEN h.succs[x] \ {b} ELSE h.succs[x]]
           m == [h EXCEPT !.succs = S]
<1>1. n = Delete(m, b)
  BY DEF RemoveEmpty
<1>2. S \in [Addr -> SUBSET Addr]
  BY DEF Graph
<1>3. \A x \in Addr : S[x] = h.succs[x] \ {b}
  BY DEF Sym
<1> HIDE DEF S
<1>4. /\ m \in Graph /\ m.fault = h.fault /\ m.bbMap = h.bbMap
      /\ m.insMap = h.insMap /\ m.vecIns = h.vecIns /\ m.readOnly = h.readOnly
      /\ m.succs = S /\ m.preds = h.preds
  BY <1>2 DEF Graph
<1> HIDE DEF m
<1>5. Removed(n, m, b)
  BY <1>1, <1>4, DeleteFields
<1>6. n.succs = [x \in Addr |-> h.succs[x] \ {b}]
  <2>1. n.succs = [S EXCEPT ![b] = {}]
    BY <1>4, <1>5 DEF Removed
  <2>2. n.succs \in [Addr -> SUBSET Addr]
    BY <1>5 DEF Removed, Graph
  <2>3. \A x \in Addr : n.succs[x] = h.succs[x] \ {b}
    BY <1>2, <1>3, <2>1
  <2> QED BY <2>2, <2>3
<1> QED BY <1>4, <1>5, <1>6 DEF Removed, Emptied

LEMMA RemoveEmptyRoot ==
  ASSUME NEW h \in Graph, Sym(h), NEW b \in h.bbMap, h.succs[b] = {},
         NEW n, n = RemoveEmpty(h, b)
  PROVE  /\ Sym(n)
         /\ \A r \in h.bbMap : Spans(h, r) => n.bbMap = {} \/ (r \in n.bbMap /\ Spans(n, r))
<1>1. b \in Addr /\ h.bbMap \subseteq Addr
  BY DEF Graph
<1>2. Emptied(n, h, b)
  BY <1>1, RemoveEmptyFields
<1>3. /\ n.bbMap = h.bbMap \ {b}
      /\ \A x \in Addr : n.succs[x] = h.succs[x] \ {b}
  BY <1>2 DEF Emptied
<1>4. \A x \in Addr : n.preds[x] = IF x = b THEN {} ELSE h.preds[x]
  BY <1>1, <1>2 DEF Emptied, Graph
<1>5. \A x \in Addr : b \notin h.preds[x]
  BY <1>1 DEF Sym
<1>6. Sym(n)
  <2>1. \A x, y \in Addr : y \in n.succs[x] <=> x \in n.preds[y]
    BY <1>3, <1>4, <1>5 DEF Sym
  <2>2. \A x \in Addr : n.succs[x] \subseteq n.bbMap
    BY <1>3 DEF Sym
  <2>3. \A x \in Addr : n.preds[x] \subseteq n.bbMap
    BY <1>3, <1>4, <1>5 DEF Sym
  <2> QED BY <2>1, <2>2, <2>3 DEF Sym
<1>7. ASSUME NEW r \in h.bbMap, Spans(h, r), n.bbMap # {}
      PROVE  r \in n.bbMap /\ Spans(n, r)
  <2>1. r # b
    <3>1. ASSUME r = b PROVE FALSE
      <4>1. {b} \in SUBSET h.bbMap /\ \A x \in {b} : h.succs[x] \subseteq {b}
        OBVIOUS
      <4>2. {b} = h.bbMap
        BY <1>7, <3>1, <4>1 DEF Spans
      <4> QED BY <1>3, <1>7, <4>2
    <3> QED BY <3>1
  <2>2. ASSUME NEW S \in SUBSET n.bbMap, r \in S, \A x \in S : n.succs[x] \subseteq S
        PROVE  S = n.bbMap
    <3> DEFINE T == S \cup {b}
    <3>1. T \in SUBSET h.bbMap /\ r \in T
      BY <1>3, <2>2
    <3>2. \A x \in T : h.succs[x] \subseteq T
      BY <1>1, <1>3, <2>2
    <3> HIDE DEF T
    <3>3. T = h.bbMap
      BY <1>7, <3>1, <3>2 DEF Spans
    <3> QED BY <1>3, <2>2, <3>3 DEF T
  <2> QED BY <1>3, <1>7, <2>1, <2>2 DEF Spans
<1> QED BY <1>6, <1>7

-----------------------------------------------------------------------------
(* b takes over its only successor c, whose only predecessor it is.        *)
Fused(n, h, b, c) ==
  /\ n \in Graph /\ n.fault = h.fault /\ n.bbMap = h.bbMap \ {c}
  /\ n.insMap = MergedInsMap(h, b, c)
  /\ \A x \in Addr : n.vecIns[x] = IF x = c THEN <<>>
                                    ELSE IF x = b THEN h.vecIns[b] \o h.vecIns[c]
                                    ELSE h.vecIns[x]
  /\ \A x \in Addr : n.succs[x] = IF x = c THEN {}
                                   ELSE IF x = b THEN h.succs[c] ELSE h.succs[x]
  /\ \A x \in Addr : n.preds[x] = IF x = c THEN {}
                                   ELSE IF x \in h.succs[c] THEN (h.preds[x] \ {c}) \cup {b}
                                   ELSE h.preds[x]

LEMMA MergeFields ==
  ASSUME NEW h \in Graph, NEW b \in Addr, NEW c \in Addr, b # c,
         NEW n, n = MergeWithSucc(h, b, c)
  PROVE  Fused(n, h, b, c)
<1> DEFINE S == MergedSuccs(h, b, c)
           P == MergedPreds(h, b, c)
           M == MergedSuccsMap(h, b, c)
           V == [h.vecIns EXCEPT ![b] = h.vecIns[b] \o h.vecIns[c]]
           I == MergedInsMap(h, b, c)
           T == [h.termAddr EXCEPT ![b] = h.termAddr[c]]
           m == [h EXCEPT !.succs = S, !.preds = P, !.succsMap = M, !.vecIns = V,
                          !.insMap = I, !.termAddr = T]
<1>1. n = Delete(m, c)
  BY DEF MergeWithSucc
<1>2. /\ S \in [Addr -> SUBSET Addr] /\ P \in [Addr -> SUBSET Addr]
      /\ I \in [Slot -> Addr \cup {NoBlock}] /\ T \in [Addr -> Nat]
  BY DEF Graph, MergedSuccs, MergedPreds, MergedInsMap
<1>3. M \in [Addr -> SUBSET Addr]
  BY DEF Graph, MergedSuccsMap, MapSuccs
<1>4. V \in [Addr -> Seq(Addr)]
  <2>1. h.vecIns \in [Addr -> Seq(Addr)]
    BY DEF Graph
  <2>2. h.vecIns[b] \o h.vecIns[c] \in Seq(Addr)
    BY <2>1
  <2> QED BY <2>1, <2>2
<1>5. \A x \in Addr : /\ S[x] = IF x = b THEN h.succs[c] ELSE h.succs[x]
                      /\ P[x] = IF x \in h.succs[c] THEN (h.preds[x] \ {c}) \cup {b}
                                ELSE h.preds[x]
                      /\ V[x] = IF x = b THEN h.vecIns[b] \o h.vecIns[c] ELSE h.vecIns[x]
  BY DEF MergedSuccs, MergedPreds, Graph
<1> HIDE DEF S, P, M, V, I, T
<1>6. /\ m \in Graph /\ m.fault = h.fault /\ m.bbMap = h.bbMap
      /\ m.insMap = I /\ m.vecIns = V /\ m.succs = S /\ m.preds = P
  BY <1>2, <1>3, <1>4 DEF Graph
<1> HIDE DEF m
<1>7. Removed(n, m, c)
  BY <1>1, <1>6, DeleteFields
<1>8. \A x \in Addr : n.vecIns[x] = IF x = c THEN <<>> ELSE V[x]
  BY <1>4, <1>6, <1>7 DEF Removed
<1>9. \A x \in Addr : /\ n.succs[x] = IF x = c THEN {} ELSE S[x]
                      /\ n.preds[x] = IF x = c THEN {} ELSE P[x]
  BY <1>2, <1>6, <1>7 DEF Removed
<1>10. n \in Graph /\ n.fault = h.fault /\ n.bbMap = h.bbMap \ {c} /\ n.insMap = I
  BY <1>6, <1>7 DEF Removed
<1> QED BY ZenonT(30), <1>5, <1>8, <1>9, <1>10 DEF Fused, I

(* What MergableWithSucc found out. *)
Chained(h, b, c) == b \in h.bbMap /\ h.succs[b] = {c} /\ h.preds[c] = {b}

LEMMA MergableChained ==
  ASSUME NEW h \in Graph, Sym(h), NEW b \in h.bbMap, MergableWithSucc(h, b),
         NEW c \in h.succs[b]
  PROVE  Chained(h, b, c) /\ c \in h.bbMap /\ c \in Addr /\ b \in Addr
<1>1. b \in Addr /\ h.bbMap \subseteq Addr
  BY DEF Graph
<1>2. PICK d \in h.succs[b] : h.succs[b] = {d} /\ \E p \in h.preds[d] : h.preds[d] = {p}
  BY DEF MergableWithSucc
<1>3. d = c /\ c \in Addr /\ b \in h.preds[c] /\ c \in h.bbMap
  BY <1>1, <1>2 DEF Sym, Graph
<1> QED BY <1>1, <1>2, <1>3 DEF Chained

LEMMA MergeRoot ==
  ASSUME NEW h \in Graph, Sym(h), NEW b \in Addr, NEW c \in h.bbMap, b # c, Chained(h, b, c),
         NEW n, n = MergeWithSucc(h, b, c)
  PROVE  /\ Sym(n)
         /\ \A r \in h.bbMap : Spans(h, r) => \E q \in n.bbMap : Spans(n, q)
<1>1. c \in Addr /\ h.bbMap \subseteq Addr /\ b \in h.bbMap
  BY DEF Graph, Chained
<1>2. Fused(n, h, b, c)
  BY <1>1, MergeFields
<1>3. n.bbMap = h.bbMap \ {c}
  BY <1>2 DEF Fused
<1>4. \A x \in Addr : n.succs[x] = IF x = c THEN {}
                                   ELSE IF x = b THEN h.succs[c] ELSE h.succs[x]
  BY <1>2 DEF Fused
<1>5. \A x \in Addr : n.preds[x] = IF x = c THEN {}
                                   ELSE IF x \in h.succs[c] THEN (h.preds[x] \ {c}) \cup {b}
                                   ELSE h.preds[x]
  BY <1>2 DEF Fused
(* Only b leads to c, and c leads nowhere b led to. *)
<1>6. /\ \A x \in Addr : c \in h.succs[x] <=> x = b
      /\ \A x \in Addr : b \in h.preds[x] <=> x = c
  BY <1>1 DEF Sym, Chained
<1>7. Sym(n)
  <2>1. ASSUME NEW x \in Addr, NEW y \in Addr PROVE y \in n.succs[x] <=> x \in n.preds[y]
    <3>1. y \in h.succs[x] <=> x \in h.preds[y]
      BY DEF Sym
    <3>2. y \in h.succs[c] <=> c \in h.preds[y]
      BY <1>1 DEF Sym
    <3> QED BY ZenonT(30), <1>4, <1>5, <1>6, <3>1, <3>2
  <2>2. ASSUME NEW x \in Addr
        PROVE n.succs[x] \subseteq n.bbMap /\ n.preds[x] \subseteq n.bbMap
    <3>1. h.succs[x] \subseteq h.bbMap /\ h.preds[x] \subseteq h.bbMap
          /\ h.succs[c] \subseteq h.bbMap
      BY <1>1 DEF Sym
    <3>2. n.succs[x] \subseteq n.bbMap
      BY <1>1, <1>3, <1>4, <1>6, <3>1
    <3>3. x \notin h.succs[c] => c \notin h.preds[x]
      BY <1>1 DEF Sym
    <3> QED BY ZenonT(30), <1>1, <1>3, <1>5, <3>1, <3>2, <3>3
  <2> QED BY <2>1, <2>2 DEF Sym
<1>8. ASSUME NEW r \in h.bbMap, Spans(h, r) PROVE \E q \in n.bbMap : Spans(n, q)
  <2> DEFINE q == IF r = c THEN b ELSE r
  <2>1. q \in n.bbMap
    BY <1>1, <1>3
  <2>2. ASSUME NEW S \in SUBSET n.bbMap, q \in S, \A x \in S : n.succs[x] \subseteq S
        PROVE  S = n.bbMap
    <3> DEFINE T == IF b \in S THEN S \cup {c} ELSE S
    <3>1. T \in SUBSET h.bbMap /\ r \in T
      BY <1>3, <2>2
    <3>2. ASSUME NEW x \in T PROVE h.succs[x] \subseteq T
      <4>1. CASE x = c \/ x = b
        <5>1. b \in S /\ b \in Addr
          BY <1>3, <2>2, <3>2, <4>1
        <5>2. n.succs[b] \subseteq S /\ n.succs[b] = h.succs[c]
          BY <1>4, <2>2, <5>1
        <5> QED BY <4>1, <5>1, <5>2 DEF Chained
      <4>2. CASE x # c /\ x # b
        <5>1. x \in S /\ x \in Addr
          BY <1>1, <1>3, <3>2, <4>2
        <5> QED BY <1>4, <2>2, <4>2, <5>1
      <4> QED BY <4>1, <4>2
    <3> HIDE DEF T
    <3>3. T = h.bbMap
      BY <1>8, <3>1, <3>2 DEF Spans
    <3> QED BY <1>3, <2>2, <3>3 DEF T
  <2> HIDE DEF q
  <2>3. Spans(n, q)
    BY <2>2 DEF Spans
  <2> QED BY <2>1, <2>3
<1> QED BY <1>7, <1>8

-----------------------------------------------------------------------------
LEMMA RecordCarries ==
  ASSUME GraphInv, NEW npc \in Addr,
         Stay(npc) \/ Leave(npc) \/ Build(npc) \/ Join(npc)
  PROVE  Carries(g', g)
<1> DEFINE b == Resync
<1>1. WellFormed(g) /\ g \in Graph /\ b \in g.bbMap /\ pc \in Addr /\ b \in Addr
  BY ResyncWF DEF GraphInv, TypeOK, WellFormed, Graph
<1>2. CASE Stay(npc)
  BY <1>2 DEF Stay, Become, Carries
<1>3. CASE Leave(npc)
  <2> DEFINE s == Successor(g, b, npc)
  <2>1. g' = s.graph
    BY <1>3 DEF Leave, Become
  <2> HIDE DEF b
  <2>2. Carries(s.graph, g)
    BY <1>1, SuccessorCarries
  <2> QED BY <2>1, <2>2
<1>4. CASE Build(npc)
  <2> DEFINE t == TranslateRiscv(g, b, npc)
  <2>1. g' = t.graph
    BY <1>4 DEF Build, Become
  <2> HIDE DEF b
  <2>2. Carries(t.graph, g)
    BY <1>1, TranslateCarries
  <2> QED BY <2>1, <2>2
<1>5. CASE Join(npc) /\ IsEmpty(g, b)
  <2>1. g' = Abort(g, "at")
    BY <1>5 DEF Join, Become
  <2>2. g'.fault = "at"
    BY <1>1, <2>1 DEF Abort, Graph
  <2> QED BY <2>2 DEF Carries
<1>6. CASE Join(npc) /\ ~IsEmpty(g, b)
  <2> DEFINE m == SetTermAddr(g, b, LastPc(g, b))
             s == GetNextBlock(m, b, pc)
             t == TranslateRiscv(s.graph, s.blk, npc)
  <2>1. g' = s.graph \/ g' = t.graph
    BY <1>6 DEF Join, Become
  <2>2. LastPc(g, b) \in Nat
    <3>1. Len(g.vecIns[b]) \in 1 .. Len(g.vecIns[b])
      BY <1>1, <1>6, LenFacts DEF IsEmpty
    <3> QED BY <1>1, <3>1, Length, AddrFacts DEF LastPc
  <2> HIDE DEF b
  <2>3. WellFormed(m) /\ m.bbMap = g.bbMap /\ Carries(m, g)
    BY <1>1, <2>2, SetTermAddrWF, SetTermAddrCarries
  <2> HIDE DEF m
  <2>4. Leads(s, m) /\ Carries(s.graph, m)
    BY <1>1, <2>3, GetNextBlockWF, GetNextBlockCarries
  <2> HIDE DEF s
  <2>5. Carries(s.graph, g) /\ g.bbMap \subseteq s.graph.bbMap
    BY <2>3, <2>4, CarriesOn DEF Leads
  <2>6. Carries(t.graph, s.graph)
    BY <1>1, <2>4, TranslateCarries DEF Leads
  <2> HIDE DEF t
  <2>7. Carries(t.graph, g)
    BY <2>5, <2>6, CarriesOn
  <2> QED BY <2>1, <2>5, <2>7
<1> QED BY <1>2, <1>3, <1>4, <1>5, <1>6

(* The invariant behind Rooted, which holds with exceptions too, unless    *)
(* they made an assertion fail.                                            *)
HasRoot(h) == h.bbMap # {} => \E r \in h.bbMap : Spans(h, r)

SpanInv ==
  /\ TypeOK /\ Sym(g)
  /\ phase = "replay" => GraphInv
  /\ g.fault = "none" => HasRoot(g)

LEMMA InitSpanInv == Init => SpanInv
<1> SUFFICES ASSUME Init PROVE SpanInv
  OBVIOUS
<1>1. GraphInv
  BY InitGraphInv
<1>2. g.bbMap = {pc}
  BY DEF Init, Construct, EmptyGraph
<1>3. Spans(g, pc)
  BY <1>2 DEF Spans
<1> QED BY <1>1, <1>2, <1>3 DEF SpanInv, GraphInv, WellFormed, HasRoot

LEMMA ReplaySpan == ASSUME SpanInv, Next PROVE SpanInv'
<1>1. phase = "replay" /\ GraphInv /\ g.fault = "none" /\ HasRoot(g)
  BY DEF Next, Step, EndTrace, Running, SpanInv
<1>2. GraphInv'
  BY <1>1, StepGraphInv
<1>3. ASSUME NEW npc \in NextPcs(pc), Step(npc) PROVE g'.fault = "none" => HasRoot(g')
  <2>1. npc \in Addr
    BY DEF NextPcs
  <2>2. Carries(g', g)
    BY <1>1, <1>3, <2>1, RecordCarries DEF Step
  <2>3. g.bbMap # {} /\ g.bbMap \subseteq g'.bbMap
    BY <1>1, <1>3, <2>1, RecordWF DEF Step, GraphInv, Leads
  <2> QED BY <1>1, <2>2, <2>3 DEF HasRoot, Carries
<1>4. ASSUME EndTrace PROVE g'.fault = "none" => HasRoot(g')
  BY <1>1, <1>4 DEF EndTrace
<1>5. g'.fault = "none" => HasRoot(g')
  BY <1>3, <1>4 DEF Next
<1> QED BY <1>2, <1>5 DEF SpanInv, GraphInv, WellFormed

LEMMA CleanSpan ==
  ASSUME SpanInv, NEW b \in Empties, Alive("clean"), Change(RemoveEmpty(g, b))
  PROVE  SpanInv'
<1>1. /\ g \in Graph /\ b \in g.bbMap /\ b \in Addr /\ Sym(g) /\ TypeOK
      /\ g' = RemoveEmpty(g, b) /\ phase' = phase /\ phase = "clean" /\ HasRoot(g)
      /\ UNCHANGED <<code, pc, globalEdges, cBB>>
  BY DEF SpanInv, TypeOK, Graph, Empties, Change, Alive
<1>2. CASE g.succs[b] # {}
  <2>1. g' = Abort(g, "removeEmpty")
    BY <1>1, <1>2 DEF RemoveEmpty
  <2>2. /\ g' \in Graph /\ g'.fault = "removeEmpty" /\ g'.succs = g.succs
        /\ g'.preds = g.preds /\ g'.bbMap = g.bbMap
    BY <1>1, <2>1 DEF Abort, Graph, Fault
  <2>3. Sym(g')
    BY <1>1, <2>2 DEF Sym
  <2> QED BY <1>1, <2>2, <2>3 DEF SpanInv, TypeOK
<1>3. CASE g.succs[b] = {}
  <2>1. /\ Sym(g')
        /\ \A r \in g.bbMap : Spans(g, r) => g'.bbMap = {} \/ (r \in g'.bbMap /\ Spans(g', r))
    BY <1>1, <1>3, RemoveEmptyRoot
  <2>2. g' \in Graph
    BY <1>1, <1>3, RemoveEmptyFields DEF Emptied
  <2>3. HasRoot(g')
    BY <1>1, <2>1 DEF HasRoot
  <2> QED BY <1>1, <2>1, <2>2, <2>3 DEF SpanInv, TypeOK
<1> QED BY <1>2, <1>3

LEMMA MergeSpan ==
  ASSUME SpanInv, NEW b \in Mergables, NEW c \in g.succs[b], Alive("merge"),
         Change(MergeWithSucc(g, b, c))
  PROVE  SpanInv'
<1>1. /\ g \in Graph /\ Sym(g) /\ TypeOK /\ b \in g.bbMap /\ MergableWithSucc(g, b)
      /\ g' = MergeWithSucc(g, b, c) /\ phase' = phase /\ phase = "merge" /\ HasRoot(g)
      /\ UNCHANGED <<code, pc, globalEdges, cBB>>
  BY DEF SpanInv, TypeOK, Mergables, Change, Alive
<1>2. Chained(g, b, c) /\ c \in g.bbMap /\ c \in Addr /\ b \in Addr
  BY <1>1, MergableChained
<1>3. CASE b = c
  <2>1. g' = Abort(g, "selfMerge")
    BY <1>1, <1>3 DEF MergeWithSucc
  <2>2. /\ g' \in Graph /\ g'.fault = "selfMerge" /\ g'.succs = g.succs
        /\ g'.preds = g.preds /\ g'.bbMap = g.bbMap
    BY <1>1, <2>1 DEF Abort, Graph, Fault
  <2>3. Sym(g')
    BY <1>1, <2>2 DEF Sym
  <2> QED BY <1>1, <2>2, <2>3 DEF SpanInv, TypeOK
<1>4. CASE b # c
  <2>1. Sym(g') /\ \A r \in g.bbMap : Spans(g, r) => \E q \in g'.bbMap : Spans(g', q)
    BY <1>1, <1>2, <1>4, MergeRoot
  <2>2. g' \in Graph
    BY <1>1, <1>2, <1>4, MergeFields DEF Fused
  <2>3. HasRoot(g')
    BY <1>1, <1>2, <2>1 DEF HasRoot
  <2> QED BY <1>1, <2>1, <2>2, <2>3 DEF SpanInv, TypeOK
<1> QED BY <1>3, <1>4

LEMMA StepSpanInv == SpanInv /\ [MainNext]_vars => SpanInv'
<1> SUFFICES ASSUME SpanInv, [MainNext]_vars PROVE SpanInv'
  OBVIOUS
<1>1. CASE Next
  BY <1>1, ReplaySpan
<1>2. CASE CleanStep
  BY <1>2, CleanSpan DEF CleanStep
<1>3. CASE MergeStep
  BY <1>3, MergeSpan DEF MergeStep
<1>4. ASSUME UNCHANGED <<code, pc, globalEdges, g, cBB>>, phase' \in {"merge", "region"}
      PROVE  SpanInv'
  <2>1. TypeOK'
    BY <1>4 DEF SpanInv, TypeOK, Phase
  <2>2. Sym(g') /\ (g'.fault = "none" => HasRoot(g'))
    BY <1>4 DEF SpanInv
  <2> QED BY <1>4, <2>1, <2>2 DEF SpanInv
<1>5. CASE UNCHANGED vars
  <2>1. TypeOK' /\ (phase' = "replay" => GraphInv')
    BY <1>5 DEF vars, SpanInv, GraphInv, TypeOK
  <2>2. Sym(g') /\ (g'.fault = "none" => HasRoot(g'))
    BY <1>5 DEF vars, SpanInv
  <2> QED BY <2>1, <2>2 DEF SpanInv
<1>6. CASE EndClean \/ EndMerge
  BY <1>4, <1>6 DEF EndClean, EndMerge, Continue
<1> QED BY <1>1, <1>2, <1>3, <1>5, <1>6 DEF MainNext, Done

LEMMA AlwaysSpanInv == MainSpec => []SpanInv
BY InitSpanInv, StepSpanInv, PTL DEF MainSpec

-----------------------------------------------------------------------------
(* What every block of h has, once the trace is replayed: an instruction   *)
(* at its entry, or no successors; and the one successor a plain last      *)
(* instruction allows.                                                     *)
Ready(h) ==
  \A b \in h.bbMap :
    /\ h.vecIns[b] = <<>> => h.succs[b] = {}
    /\ h.vecIns[b] # <<>> => h.vecIns[b][1] = b
    /\ \A c \in h.succs[b] : code[LastPc(h, b)] = "plain" => c = LastPc(h, b) + 1

(* ListingExact of h. *)
Exact(h) ==
  \A b \in h.bbMap : \A i \in 1 .. Len(h.vecIns[b]) - 1 :
    h.vecIns[b][i + 1] = h.vecIns[b][i] + 1 \/ code[h.vecIns[b][i]] = "sys"

LEMMA PathReady ==
  ASSUME ~Traps, PathInv
  PROVE  Ready(g) /\ Exact(g) /\ g.fault = "none"
<1>1. /\ g \in Graph /\ g.bbMap \subseteq Addr /\ LaidOut(g) /\ g.fault = "none"
      /\ \A x \in g.bbMap : g.readOnly[x] => g.vecIns[x] # <<>>
      /\ Flows(g, Possible, {})
  BY DEF PathInv, RunInv, ReplayInv, Settled, Sound, WellFormed, Graph, Closed
<1>2. ASSUME NEW b \in g.bbMap
      PROVE  /\ g.vecIns[b] = <<>> => g.succs[b] = {}
             /\ g.vecIns[b] # <<>> => g.vecIns[b][1] = b
  <2>1. b \in Addr /\ b \in Nat
    BY <1>1, AddrFacts
  <2>2. ~g.readOnly[b] => g.succs[b] = {}
    BY <1>1, <2>1 DEF Flows
  <2>3. ASSUME g.vecIns[b] # <<>> PROVE g.vecIns[b][1] = b
    <3>1. 1 \in 1 .. Len(g.vecIns[b])
      BY <1>1, <2>1, <2>3, LenFacts
    <3>2. g.vecIns[b][1] = b + 1 - 1
      BY <1>1, <2>1, <3>1 DEF LaidOut
    <3> QED BY <2>1, <3>2
  <2> QED BY <1>1, <2>2, <2>3
<1>3. ASSUME NEW b \in g.bbMap, NEW c \in g.succs[b], code[LastPc(g, b)] = "plain"
      PROVE  c = LastPc(g, b) + 1
  <2>1. b \in Addr /\ c \in Addr /\ g.vecIns[b] # <<>>
    BY <1>1, <1>2 DEF Graph
  <2>2. LastPc(g, b) \in Addr
    <3>1. Len(g.vecIns[b]) \in 1 .. Len(g.vecIns[b])
      BY <1>1, <2>1, LenFacts
    <3> QED BY <1>1, <2>1, <3>1, Length DEF LastPc
  <2>3. Possible[LastPc(g, b)][c] > 0
    BY <1>1, <2>1 DEF Flows, Ran
  <2>4. c \in NextPcs(LastPc(g, b))
    BY <2>1, <2>2, <2>3 DEF Possible
  <2> QED BY <1>3, <2>4 DEF NextPcs
<1>4. Exact(g)
  <2> SUFFICES ASSUME NEW b \in g.bbMap, NEW i \in 1 .. Len(g.vecIns[b]) - 1
               PROVE  g.vecIns[b][i + 1] = g.vecIns[b][i] + 1
    BY DEF Exact
  <2>1. b \in Addr /\ b \in Nat /\ Len(g.vecIns[b]) \in Nat
    BY <1>1, AddrFacts, LenFacts
  <2>2. i \in 1 .. Len(g.vecIns[b]) /\ i + 1 \in 1 .. Len(g.vecIns[b]) /\ i \in Nat
    BY <2>1
  <2>3. g.vecIns[b][i] = b + i - 1 /\ g.vecIns[b][i + 1] = b + (i + 1) - 1
    BY <1>1, <2>1, <2>2 DEF LaidOut
  <2> QED BY <2>1, <2>2, <2>3
<1> QED BY <1>1, <1>2, <1>3, <1>4 DEF Ready

(* Neighbours in a concatenation are neighbours in one of the two, or the  *)
(* end of the first and the beginning of the second.                       *)
Neighbours(u, i, s, t) ==
  \/ i \in 1 .. Len(s) - 1 /\ u[i] = s[i] /\ u[i + 1] = s[i + 1]
  \/ s # <<>> /\ t # <<>> /\ u[i] = s[Len(s)] /\ u[i + 1] = t[1]
  \/ \E k \in 1 .. Len(t) - 1 : u[i] = t[k] /\ u[i + 1] = t[k + 1]

LEMMA JoinPairs ==
  ASSUME NEW s \in Seq(Addr), NEW t \in Seq(Addr), NEW u, u = s \o t,
         NEW i \in 1 .. Len(u) - 1
  PROVE  Neighbours(u, i, s, t)
<1>1. /\ Len(s) \in Nat /\ Len(t) \in Nat /\ Len(u) = Len(s) + Len(t)
      /\ \A m \in 1 .. Len(u) : u[m] = IF m <= Len(s) THEN s[m] ELSE t[m - Len(s)]
  OBVIOUS
<1>2. i \in Nat /\ i \in 1 .. Len(u) /\ i + 1 \in 1 .. Len(u)
  BY <1>1
<1>3. CASE i < Len(s)
  <2>1. i \in 1 .. Len(s) - 1
    BY <1>1, <1>2, <1>3
  <2> QED BY <1>1, <1>2, <1>3, <2>1 DEF Neighbours
<1>4. CASE i = Len(s)
  <2>1. s # <<>> /\ t # <<>>
    BY <1>1, <1>2, <1>4
  <2>2. u[i] = s[Len(s)] /\ u[i + 1] = t[1]
    BY <1>1, <1>2, <1>4
  <2> QED BY <2>1, <2>2 DEF Neighbours
<1>5. CASE i > Len(s)
  <2>1. i - Len(s) \in 1 .. Len(t) - 1 /\ (i + 1) - Len(s) = (i - Len(s)) + 1
    BY <1>1, <1>2, <1>5
  <2>2. u[i] = t[i - Len(s)] /\ u[i + 1] = t[(i - Len(s)) + 1]
    BY SMTT(30), <1>1, <1>2, <1>5, <2>1
  <2> QED BY <2>1, <2>2 DEF Neighbours
<1> QED BY <1>1, <1>2, <1>3, <1>4, <1>5

LEMMA JoinEnds ==
  ASSUME NEW s \in Seq(Addr), NEW t \in Seq(Addr), s # <<>>, t # <<>>, NEW u, u = s \o t
  PROVE  u # <<>> /\ u[1] = s[1] /\ u[Len(u)] = t[Len(t)]
<1>1. /\ Len(s) \in Nat /\ Len(t) \in Nat /\ Len(u) = Len(s) + Len(t)
      /\ \A m \in 1 .. Len(u) : u[m] = IF m <= Len(s) THEN s[m] ELSE t[m - Len(s)]
      /\ Len(s) > 0 /\ Len(t) > 0
  OBVIOUS
<1>2. 1 \in 1 .. Len(u) /\ Len(u) \in 1 .. Len(u) /\ ~(Len(u) <= Len(s))
      /\ Len(u) - Len(s) = Len(t)
  BY <1>1
<1> QED BY <1>1, <1>2

LEMMA RemoveEmptyReady ==
  ASSUME NEW h \in Graph, Sym(h), Ready(h), Exact(h), NEW b \in h.bbMap, h.succs[b] = {},
         h.vecIns[b] = <<>>, NEW n, n = RemoveEmpty(h, b)
  PROVE  Ready(n) /\ Exact(n)
<1>1. b \in Addr /\ h.bbMap \subseteq Addr
  BY DEF Graph
<1>2. Emptied(n, h, b)
  BY <1>1, RemoveEmptyFields
<1>3. n.bbMap = h.bbMap \ {b} /\ \A x \in Addr : n.succs[x] \subseteq h.succs[x]
  BY <1>2 DEF Emptied
<1>4. \A x \in n.bbMap : n.vecIns[x] = h.vecIns[x] /\ LastPc(n, x) = LastPc(h, x)
  BY <1>1, <1>2, <1>3 DEF Emptied, Graph, LastPc
<1>5. Ready(n)
  BY <1>1, <1>3, <1>4 DEF Ready
<1>6. Exact(n)
  BY SMTT(30), <1>3, <1>4 DEF Exact
<1> QED BY <1>5, <1>6

LEMMA MergeReady ==
  ASSUME NEW h \in Graph, Sym(h), Ready(h), Exact(h), code \in [Addr -> Class],
         NEW b \in h.bbMap, NEW c \in h.bbMap, b # c, Chained(h, b, c), FallsThru(h, b),
         h.vecIns[b] # <<>>, h.vecIns[c] # <<>>, NEW n, n = MergeWithSucc(h, b, c)
  PROVE  Ready(n) /\ Exact(n) /\ n.vecIns[b] # <<>>
<1>1. b \in Addr /\ c \in Addr /\ h.bbMap \subseteq Addr
      /\ h.vecIns[b] \in Seq(Addr) /\ h.vecIns[c] \in Seq(Addr)
  BY DEF Graph
<1>2. Fused(n, h, b, c)
  BY <1>1, MergeFields
<1>3. /\ n.bbMap = h.bbMap \ {c}
      /\ \A x \in Addr : n.vecIns[x] = IF x = c THEN <<>>
                                       ELSE IF x = b THEN h.vecIns[b] \o h.vecIns[c]
                                       ELSE h.vecIns[x]
      /\ \A x \in Addr : n.succs[x] = IF x = c THEN {}
                                      ELSE IF x = b THEN h.succs[c] ELSE h.succs[x]
  BY <1>2 DEF Fused
<1>4. /\ n.vecIns[b] # <<>> /\ n.vecIns[b][1] = h.vecIns[b][1]
      /\ LastPc(n, b) = LastPc(h, c)
  <2> DEFINE u == n.vecIns[b]
             s == h.vecIns[b]
             t == h.vecIns[c]
  <2>1. u = s \o t /\ s \in Seq(Addr) /\ t \in Seq(Addr) /\ s # <<>> /\ t # <<>>
    BY <1>1, <1>3
  <2> HIDE DEF u, s, t
  <2>2. u # <<>> /\ u[1] = s[1] /\ u[Len(u)] = t[Len(t)]
    BY <2>1, JoinEnds
  <2> QED BY <2>2 DEF LastPc, u, s, t
<1>5. \A x \in n.bbMap \ {b} : /\ n.vecIns[x] = h.vecIns[x] /\ n.succs[x] = h.succs[x]
                               /\ LastPc(n, x) = LastPc(h, x)
  BY <1>1, <1>3 DEF LastPc
<1>6. Ready(n)
  <2>1. ASSUME NEW x \in n.bbMap, x # b
        PROVE  /\ n.vecIns[x] = <<>> => n.succs[x] = {}
               /\ n.vecIns[x] # <<>> => n.vecIns[x][1] = x
               /\ \A d \in n.succs[x] : code[LastPc(n, x)] = "plain" => d = LastPc(n, x) + 1
    BY <1>3, <1>5, <2>1 DEF Ready
  <2>2. n.vecIns[b][1] = b
    BY <1>4 DEF Ready
  <2>3. \A d \in n.succs[b] : code[LastPc(n, b)] = "plain" => d = LastPc(n, b) + 1
    BY <1>1, <1>3, <1>4 DEF Ready
  <2> QED BY <1>4, <2>1, <2>2, <2>3 DEF Ready
(* b falls through into c. *)
<1>7. h.vecIns[c][1] = LastPc(h, b) + 1 \/ code[LastPc(h, b)] = "sys"
  <2>1. LastPc(h, b) \in Addr
    <3>1. Len(h.vecIns[b]) \in 1 .. Len(h.vecIns[b])
      BY <1>1, LenFacts
    <3> QED BY <1>1, <3>1, Length DEF LastPc
  <2>2. code[LastPc(h, b)] \in {"plain", "sys"}
    BY <2>1 DEF FallsThru, IsBranchOrJump, Class
  <2>3. c \in h.succs[b] /\ h.vecIns[c][1] = c
    BY DEF Chained, Ready
  <2> QED BY <2>2, <2>3 DEF Ready
<1>8. Exact(n)
  <2>1. ASSUME NEW x \in n.bbMap, x # b, NEW i \in 1 .. Len(n.vecIns[x]) - 1
        PROVE  n.vecIns[x][i + 1] = n.vecIns[x][i] + 1 \/ code[n.vecIns[x][i]] = "sys"
    BY <1>3, <1>5, <2>1 DEF Exact
  <2>2. ASSUME NEW i \in 1 .. Len(n.vecIns[b]) - 1
        PROVE  n.vecIns[b][i + 1] = n.vecIns[b][i] + 1 \/ code[n.vecIns[b][i]] = "sys"
    <3> DEFINE u == n.vecIns[b]
               s == h.vecIns[b]
               t == h.vecIns[c]
    <3>1. u = s \o t /\ s \in Seq(Addr) /\ t \in Seq(Addr)
      BY <1>1, <1>3
    <3>7. \A k \in 1 .. Len(s) - 1 : s[k + 1] = s[k] + 1 \/ code[s[k]] = "sys"
      BY Zenon DEF Exact
    <3>8. \A k \in 1 .. Len(t) - 1 : t[k + 1] = t[k] + 1 \/ code[t[k]] = "sys"
      BY Zenon DEF Exact
    <3>3. t[1] = s[Len(s)] + 1 \/ code[s[Len(s)]] = "sys"
      BY <1>7 DEF LastPc
    <3>4. i \in 1 .. Len(u) - 1
      OBVIOUS
    <3> HIDE DEF u, s, t
    <3>5. Neighbours(u, i, s, t)
      BY <3>1, <3>4, JoinPairs
    <3>6. u[i + 1] = u[i] + 1 \/ code[u[i]] = "sys"
      BY <3>3, <3>5, <3>7, <3>8 DEF Neighbours
    <3> QED BY <3>6 DEF u
  <2> QED BY SMTT(30), <2>1, <2>2 DEF Exact
<1> QED BY <1>4, <1>6, <1>8

-----------------------------------------------------------------------------
(* The inductive invariant without exceptions. *)
TrailInv ==
  /\ SpanInv
  /\ phase = "replay" => PathInv
  /\ phase # "replay" => Ready(g) /\ Exact(g)
  /\ phase \in {"merge", "region"} => \A b \in g.bbMap : g.vecIns[b] # <<>>
  /\ MergeFault

LEMMA InitTrailInv == ASSUME ~Traps, Init PROVE TrailInv
<1>1. SpanInv /\ PathInv
  BY InitSpanInv, InitRunInv DEF PathInv
<1>2. phase = "replay" /\ g.fault = "none"
  BY <1>1, PathReady DEF Init
<1> QED BY <1>1, <1>2 DEF TrailInv, MergeFault

LEMMA ReplayTrail == ASSUME ~Traps, TrailInv, Next PROVE TrailInv'
<1>1. phase = "replay" /\ PathInv
  BY DEF Next, Step, EndTrace, Running, TrailInv
<1>2. SpanInv' /\ PathInv'
  BY <1>1, StepPathInv, StepSpanInv DEF TrailInv, MainNext
<1>3. ASSUME NEW npc \in NextPcs(pc), Step(npc) PROVE TrailInv'
  <2>1. phase' = "replay" /\ UNCHANGED code
    BY <1>1, <1>3 DEF Step
  <2>2. PathInv' => g'.fault = "none"
    BY DEF PathInv, RunInv, ReplayInv, Settled, Sound
  <2> QED BY <1>2, <2>1, <2>2 DEF TrailInv, MergeFault
<1>4. ASSUME EndTrace PROVE TrailInv'
  <2>1. Ready(g) /\ Exact(g) /\ g.fault = "none"
    BY <1>1, PathReady
  <2>2. phase' = "clean" /\ UNCHANGED <<code, g>>
    BY <1>4 DEF EndTrace
  <2>3. Ready(g)' /\ Exact(g)'
    BY <2>1, <2>2 DEF Ready, Exact, LastPc
  <2> QED BY <1>2, <2>1, <2>2, <2>3 DEF TrailInv, MergeFault
<1> QED BY <1>3, <1>4 DEF Next

LEMMA CleanTrail ==
  ASSUME ~Traps, TrailInv, NEW b \in Empties, Alive("clean"), Change(RemoveEmpty(g, b))
  PROVE  TrailInv'
<1>1. /\ g \in Graph /\ b \in g.bbMap /\ b \in Addr /\ Sym(g) /\ g.vecIns[b] = <<>>
      /\ g' = RemoveEmpty(g, b) /\ phase' = phase /\ phase = "clean" /\ g.fault = "none"
      /\ code' = code /\ Ready(g) /\ Exact(g)
  BY DEF TrailInv, SpanInv, TypeOK, Graph, Empties, IsEmpty, Change, Alive
<1>2. SpanInv'
  BY CleanSpan DEF TrailInv
<1>3. g.succs[b] = {}
  BY <1>1 DEF Ready
<1>4. Ready(g') /\ Exact(g')
  BY <1>1, <1>3, RemoveEmptyReady
<1>5. g'.fault = "none"
  <2>1. Emptied(g', g, b)
    BY <1>1, <1>3, RemoveEmptyFields
  <2> QED BY <1>1, <2>1 DEF Emptied
<1>6. Ready(g)' /\ Exact(g)'
  BY <1>1, <1>4 DEF Ready, Exact, LastPc
<1> QED BY <1>1, <1>2, <1>5, <1>6 DEF TrailInv, MergeFault

(* A block that is its own only successor and its own only predecessor is  *)
(* reached by no other, and reaches no other.                              *)
LEMMA SelfMergeAlone ==
  ASSUME NEW h \in Graph, Sym(h), HasRoot(h), NEW b \in h.bbMap, Chained(h, b, b)
  PROVE  h.bbMap = {b}
<1>1. h.bbMap \subseteq Addr
  BY DEF Graph
<1>2. PICK r \in h.bbMap : Spans(h, r)
  BY DEF HasRoot
<1>3. CASE r = b
  <2>1. {b} \in SUBSET h.bbMap /\ r \in {b} /\ \A x \in {b} : h.succs[x] \subseteq {b}
    BY <1>3 DEF Chained
  <2> QED BY <1>2, <2>1 DEF Spans
<1>4. CASE r # b
  <2> DEFINE S == h.bbMap \ {b}
  <2>1. \A x \in S : h.succs[x] \subseteq S
    BY <1>1 DEF Sym, Chained
  <2>2. S \in SUBSET h.bbMap /\ r \in S
    BY <1>4
  <2> HIDE DEF S
  <2>3. S = h.bbMap
    BY <1>2, <2>1, <2>2 DEF Spans
  <2> QED BY <2>3 DEF S
<1> QED BY <1>3, <1>4

LEMMA MergeTrail ==
  ASSUME ~Traps, TrailInv, NEW b \in Mergables, NEW c \in g.succs[b], Alive("merge"),
         Change(MergeWithSucc(g, b, c))
  PROVE  TrailInv'
<1>1. /\ g \in Graph /\ Sym(g) /\ b \in g.bbMap /\ MergableWithSucc(g, b)
      /\ g' = MergeWithSucc(g, b, c) /\ phase' = phase /\ phase = "merge"
      /\ code' = code /\ Ready(g) /\ Exact(g) /\ code \in [Addr -> Class]
      /\ g.fault = "none" /\ HasRoot(g) /\ \A x \in g.bbMap : g.vecIns[x] # <<>>
  BY DEF TrailInv, SpanInv, TypeOK, Mergables, Change, Alive
<1>2. Chained(g, b, c) /\ c \in g.bbMap /\ c \in Addr /\ b \in Addr
  BY <1>1, MergableChained
<1>3. SpanInv'
  BY MergeSpan DEF TrailInv
<1>4. CASE b = c
  <2>1. g' = Abort(g, "selfMerge")
    BY <1>1, <1>4 DEF MergeWithSucc
  <2>2. /\ g'.fault = "selfMerge" /\ g'.succs = g.succs
        /\ g'.vecIns = g.vecIns /\ g'.bbMap = g.bbMap
    BY <1>1, <2>1 DEF Abort, Graph
  <2>3. g.bbMap = {b}
    BY <1>1, <1>2, <1>4, SelfMergeAlone
  <2>4. Ready(g)' /\ Exact(g)'
    BY <1>1, <2>2 DEF Ready, Exact, LastPc
  <2>5. MergeFault'
    BY <1>2, <2>2, <2>3 DEF MergeFault
  <2> QED BY <1>1, <1>3, <2>2, <2>4, <2>5 DEF TrailInv
<1>5. CASE b # c
  <2>1. Ready(g') /\ Exact(g') /\ g'.vecIns[b] # <<>>
    BY <1>1, <1>2, <1>5, MergeReady DEF MergableWithSucc
  <2>2. Fused(g', g, b, c)
    BY <1>1, <1>2, <1>5, MergeFields
  <2>3. \A x \in g'.bbMap : g'.vecIns[x] # <<>>
    BY <1>1, <2>1, <2>2 DEF Fused, Graph
  <2>4. Ready(g)' /\ Exact(g)'
    BY <1>1, <2>1 DEF Ready, Exact, LastPc
  <2> QED BY <1>1, <1>3, <2>2, <2>3, <2>4 DEF TrailInv, Fused, MergeFault
<1> QED BY <1>4, <1>5

LEMMA StepTrailInv == ASSUME ~Traps, TrailInv, [MainNext]_vars PROVE TrailInv'
<1>1. CASE Next
  BY <1>1, ReplayTrail
<1>2. CASE CleanStep
  BY <1>2, CleanTrail DEF CleanStep
<1>3. CASE MergeStep
  BY <1>3, MergeTrail DEF MergeStep
<1>4. SpanInv'
  BY StepSpanInv DEF TrailInv
<1>5. CASE EndClean \/ EndMerge
  <2>1. /\ phase # "replay" /\ phase' \in {"merge", "region"}
        /\ UNCHANGED <<code, g>> /\ \A b \in g.bbMap : g.vecIns[b] # <<>>
    BY <1>5 DEF EndClean, EndMerge, Continue, Alive, Empties, IsEmpty, TrailInv
  <2>2. Ready(g)' /\ Exact(g)' /\ MergeFault'
    BY <2>1 DEF TrailInv, Ready, Exact, LastPc, MergeFault
  <2> QED BY <1>4, <2>1, <2>2 DEF TrailInv
<1>6. CASE UNCHANGED vars
  <2>1. UNCHANGED <<code, g, phase>>
    BY <1>6 DEF vars
  <2>2. (Ready(g) => Ready(g)') /\ (Exact(g) => Exact(g)') /\ (MergeFault => MergeFault')
    BY <2>1 DEF Ready, Exact, LastPc, MergeFault
  <2>3. phase' = "replay" => PathInv'
    BY <1>6, StepPathInv DEF vars, TrailInv
  <2> QED BY <1>4, <2>1, <2>2, <2>3 DEF TrailInv
<1> QED BY <1>1, <1>2, <1>3, <1>5, <1>6 DEF MainNext, Done

LEMMA AlwaysTrailInv == ASSUME ~Traps PROVE MainSpec => []TrailInv
<1>1. Init => TrailInv
  BY InitTrailInv
<1>2. TrailInv /\ [MainNext]_vars => TrailInv'
  BY StepTrailInv
<1> QED BY <1>1, <1>2, PTL DEF MainSpec

(* Whatever is built, split, deleted and merged, some block reaches every  *)
(* block: regionCFG can be given a head that loses none.                   *)
THEOREM GraphIsRooted == ASSUME ~Traps PROVE MainSpec => []Rooted
<1>1. TrailInv => Rooted
  <2> SUFFICES ASSUME TrailInv PROVE Rooted
    OBVIOUS
  <2>1. CASE g.fault = "none"
    BY <2>1 DEF TrailInv, SpanInv, HasRoot, Spans, Rooted, ReachesAll
  <2>2. CASE g.fault # "none"
    <3>1. PICK b \in Addr : g.bbMap = {b}
      BY <2>2 DEF TrailInv, MergeFault
    <3>2. ReachesAll(b)
      BY <3>1 DEF ReachesAll
    <3> QED BY <3>1, <3>2 DEF Rooted
  <2> QED BY <2>1, <2>2
<1> QED BY <1>1, AlwaysTrailInv, PTL

(* No assertion fails from the first record to regionCFG: removeEmpty only *)
(* meets a block without successors.  The one way to fail is to merge a    *)
(* block with itself, when it is the whole graph.                          *)
THEOREM OnlySelfMergeFails == ASSUME ~Traps PROVE MainSpec => []MergeFault
<1>1. TrailInv => MergeFault
  BY DEF TrailInv
<1> QED BY <1>1, AlwaysTrailInv, PTL

(* The addresses the listing derives from a block's entry are those of its *)
(* instructions, merged or not, up to the first system instruction.        *)
THEOREM ListingIsExact == ASSUME ~Traps PROVE MainSpec => []ListingExact
<1>1. TrailInv => ListingExact
  <2> SUFFICES ASSUME TrailInv PROVE Exact(g)
    BY DEF Exact, ListingExact
  <2> QED BY PathReady DEF TrailInv
<1> QED BY <1>1, AlwaysTrailInv, PTL

-----------------------------------------------------------------------------
(* Exceptions allowed again. *)
NoInner(h) ==
  \A b \in h.bbMap : \A i \in 1 .. Len(h.vecIns[b]) - 1 :
    ~IsBranchOrJump(code[h.vecIns[b][i]])

LEMMA MergeInner ==
  ASSUME NEW h \in Graph, NoInner(h), NEW b \in h.bbMap, NEW c \in h.bbMap, b # c,
         FallsThru(h, b), NEW n, n = MergeWithSucc(h, b, c)
  PROVE  NoInner(n)
<1>1. b \in Addr /\ c \in Addr /\ h.bbMap \subseteq Addr
      /\ h.vecIns[b] \in Seq(Addr) /\ h.vecIns[c] \in Seq(Addr)
  BY DEF Graph
<1>2. Fused(n, h, b, c)
  BY <1>1, MergeFields
<1>3. /\ n.bbMap = h.bbMap \ {c}
      /\ \A x \in Addr : n.vecIns[x] = IF x = c THEN <<>>
                                       ELSE IF x = b THEN h.vecIns[b] \o h.vecIns[c]
                                       ELSE h.vecIns[x]
  BY <1>2 DEF Fused
<1>4. ASSUME NEW x \in n.bbMap, x # b, NEW i \in 1 .. Len(n.vecIns[x]) - 1
      PROVE  ~IsBranchOrJump(code[n.vecIns[x][i]])
  <2>1. n.vecIns[x] = h.vecIns[x] /\ x \in h.bbMap
    BY <1>1, <1>3, <1>4
  <2> QED BY <2>1 DEF NoInner
<1>5. ASSUME NEW i \in 1 .. Len(n.vecIns[b]) - 1
      PROVE  ~IsBranchOrJump(code[n.vecIns[b][i]])
  <2> DEFINE u == n.vecIns[b]
             s == h.vecIns[b]
             t == h.vecIns[c]
  <2>1. u = s \o t /\ s \in Seq(Addr) /\ t \in Seq(Addr)
    BY <1>1, <1>3
  <2>2. \A k \in 1 .. Len(s) - 1 : ~IsBranchOrJump(code[s[k]])
    BY Zenon DEF NoInner
  <2>3. \A k \in 1 .. Len(t) - 1 : ~IsBranchOrJump(code[t[k]])
    BY Zenon DEF NoInner
  <2>4. ~IsBranchOrJump(code[s[Len(s)]])
    BY DEF FallsThru, LastPc
  <2>5. i \in 1 .. Len(u) - 1
    OBVIOUS
  <2> HIDE DEF u, s, t
  <2>6. Neighbours(u, i, s, t)
    BY <2>1, <2>5, JoinPairs
  <2>7. ~IsBranchOrJump(code[u[i]])
    BY <2>2, <2>3, <2>4, <2>6 DEF Neighbours
  <2> QED BY <2>7 DEF u
<1> QED BY <1>4, <1>5 DEF NoInner

SaneInv ==
  /\ SpanInv
  /\ phase = "replay" => ShapeInv
  /\ NoInner(g)

LEMMA ShapeInner == ShapeInv => NoInner(g)
BY DEF ShapeInv, Form, WellFormed, Graph, Straight, NoInner, EndsBlock, IsBranchOrJump

LEMMA StepSaneInv == SaneInv /\ [MainNext]_vars => SaneInv'
<1> SUFFICES ASSUME SaneInv, [MainNext]_vars PROVE SaneInv'
  OBVIOUS
<1>1. SpanInv'
  BY StepSpanInv DEF SaneInv
<1>2. CASE Next
  <2>1. ShapeInv'
    BY <1>2, StepShapeInv DEF Next, Step, EndTrace, Running, SaneInv
  <2>2. ShapeInv' => NoInner(g)'
    BY ShapeInner, PTL
  <2> QED BY <1>1, <2>1, <2>2 DEF SaneInv
<1>3. ASSUME NEW b \in Empties, Alive("clean"), Change(RemoveEmpty(g, b))
      PROVE  SaneInv'
  <2>1. /\ g \in Graph /\ Sym(g) /\ b \in g.bbMap /\ b \in Addr /\ g' = RemoveEmpty(g, b)
        /\ code' = code /\ phase' = phase /\ phase = "clean" /\ NoInner(g)
    BY <1>3 DEF SaneInv, SpanInv, TypeOK, Graph, Empties, Change, Alive
  <2>2. g'.bbMap \subseteq g.bbMap /\ \A x \in g'.bbMap : g'.vecIns[x] = g.vecIns[x]
    <3>1. CASE g.succs[b] = {}
      <4>1. Emptied(g', g, b)
        BY <2>1, <3>1, RemoveEmptyFields
      <4> QED BY <2>1, <4>1 DEF Emptied, Graph
    <3>2. CASE g.succs[b] # {}
      BY <2>1, <3>2 DEF RemoveEmpty, Abort, Graph
    <3> QED BY <3>1, <3>2
  <2>3. NoInner(g)'
    BY <2>1, <2>2 DEF NoInner
  <2> QED BY <1>1, <2>1, <2>3 DEF SaneInv
<1>4. ASSUME NEW b \in Mergables, NEW c \in g.succs[b], Alive("merge"),
             Change(MergeWithSucc(g, b, c))
      PROVE  SaneInv'
  <2>1. /\ g \in Graph /\ Sym(g) /\ b \in g.bbMap /\ MergableWithSucc(g, b)
        /\ g' = MergeWithSucc(g, b, c) /\ code' = code /\ phase' = phase /\ phase = "merge"
        /\ NoInner(g)
    BY <1>4 DEF SaneInv, SpanInv, TypeOK, Mergables, Change, Alive
  <2>2. c \in g.bbMap
    BY <2>1, MergableChained
  <2>3. NoInner(g')
    <3>1. CASE b = c
      <4>1. g'.bbMap = g.bbMap /\ g'.vecIns = g.vecIns
        BY <2>1, <3>1 DEF MergeWithSucc, Abort, Graph
      <4> QED BY <2>1, <4>1 DEF NoInner
    <3>2. CASE b # c
      BY <2>1, <2>2, <3>2, MergeInner DEF MergableWithSucc
    <3> QED BY <3>1, <3>2
  <2>4. NoInner(g)'
    BY <2>1, <2>3 DEF NoInner
  <2> QED BY <1>1, <2>1, <2>4 DEF SaneInv
<1>5. ASSUME UNCHANGED <<code, g>>, phase' \in {"merge", "region"} PROVE SaneInv'
  BY <1>1, <1>5 DEF SaneInv, NoInner
<1>6. CASE UNCHANGED vars
  <2>1. UNCHANGED <<code, g, phase>>
    BY <1>6 DEF vars
  <2>2. phase' = "replay" => ShapeInv'
    BY <1>6, StepShapeInv DEF vars, SaneInv
  <2> QED BY <1>1, <2>1, <2>2 DEF SaneInv, NoInner
<1> QED BY <1>2, <1>3, <1>4, <1>5, <1>6
    DEF MainNext, CleanStep, EndClean, MergeStep, EndMerge, Continue, Done

(* What regionCFG::buildCFG asserts of the blocks it is given holds of     *)
(* those that clean-up and merging leave, exceptions and key collisions    *)
(* included: symmetric edges, and no jump inside a block.                  *)
THEOREM RegionBlocksAreSane == MainSpec => []SanityCheck
<1>1. Init => SaneInv
  BY InitSpanInv, InitShapeInv, ShapeInner DEF SaneInv
<1>2. SaneInv => SanityCheck
  <2> SUFFICES ASSUME SaneInv PROVE Symmetric /\ NoInnerBranch
    BY DEF SanityCheck
  <2>1. Sym(g) /\ g \in Graph
    BY DEF SaneInv, SpanInv, TypeOK
  <2> QED BY <2>1, SymSymmetric DEF SaneInv, NoInner, NoInnerBranch
<1> QED BY <1>1, <1>2, StepSaneInv, PTL DEF MainSpec

-----------------------------------------------------------------------------
(***************************************************************************)
(* Without exceptions the graph misses no step of the trace that the keys  *)
(* of succsMap let it see, for every address range, key width, program and *)
(* trace; and with keys that tell all addresses apart, replaying, cleaning *)
(* and merging implement ExecutedFlow.                                     *)
(*                                                                         *)
(* The argument: a block is an interval of addresses, so the pairs it      *)
(* stands for are told by its bounds and its successors.  Splitting keeps  *)
(* these pairs, adding an instruction or an edge adds one, and nothing     *)
(* else changes them.  Two facts make this work: what succsMap finds is a  *)
(* successor already, and a block that was closed behind a plain           *)
(* instruction has the edge to the next address.                           *)
(***************************************************************************)

(* The last address of block x. *)
Top(h, x) == x + Len(h.vecIns[x]) - 1

(* The pairs of block x: its instructions, and the end with a successor.   *)
Inner(h, x, p, q) == p \in x .. Top(h, x) - 1 /\ q = p + 1
Outer(h, x, p, q) == h.vecIns[x] # <<>> /\ p = Top(h, x) /\ q \in h.succs[x]
Pair(h, p, q) == \E x \in Addr : Inner(h, x, p, q) \/ Outer(h, x, p, q)

(* The edge a plain last instruction needs. *)
Goes(h, x) == EndsBlock(code[Top(h, x)]) \/ Top(h, x) + 1 \in h.succs[x]
Onward(h) == \A x \in Addr : h.readOnly[x] => Goes(h, x)

Linked(h) == Mapped(h) /\ Onward(h)

(* n has the pairs of h, and perhaps <<u, v>>. *)
Grown(n, h, u, v) ==
  \A p, q \in Addr : /\ Pair(h, p, q) => Pair(n, p, q)
                     /\ Pair(n, p, q) => Pair(h, p, q) \/ (p = u /\ q = v)
SamePairs(n, h) == \A p, q \in Addr : Pair(n, p, q) <=> Pair(h, p, q)

(* n and h have a block for the same addresses. *)
SameHeld(n, h) == \A s \in Slot : n.insMap[s] = NoBlock <=> h.insMap[s] = NoBlock

LEMMA TopFacts ==
  ASSUME NEW h \in Graph, NEW x \in Addr
  PROVE  /\ x \in Nat /\ Len(h.vecIns[x]) \in Nat /\ Top(h, x) \in Int
         /\ h.vecIns[x] # <<>> <=> Top(h, x) >= x
         /\ Extent(h, x) = x .. Top(h, x)
         /\ LaidOut(h) /\ h.vecIns[x] # <<>> => LastPc(h, x) = Top(h, x)
<1>1. x \in Nat /\ Len(h.vecIns[x]) \in Nat /\ (h.vecIns[x] # <<>> <=> Len(h.vecIns[x]) > 0)
  BY AddrFacts, LenFacts
<1>2. ASSUME LaidOut(h), h.vecIns[x] # <<>> PROVE LastPc(h, x) = Top(h, x)
  <2>1. Len(h.vecIns[x]) \in 1 .. Len(h.vecIns[x])
    BY <1>1, <1>2
  <2> QED BY <1>2, <2>1 DEF LaidOut, LastPc, Top
<1> QED BY <1>1, <1>2 DEF Top, Extent

(* Pair is what the graph's own reading of it, InTable, comes to. *)
LEMMA TablePair ==
  ASSUME NEW h \in Graph, LaidOut(h), NEW p \in Addr, NEW q \in Addr
  PROVE  InTable(h, p, q) <=> Pair(h, p, q)
<1>1. h.bbMap \subseteq Addr /\ \A x \in Addr \ h.bbMap : h.vecIns[x] = <<>>
  BY DEF Graph, LaidOut
<1>2. ASSUME NEW x \in Addr
      PROVE  /\ Inner(h, x, p, q) <=>
                  \E i \in 1 .. Len(h.vecIns[x]) - 1 :
                    h.vecIns[x][i] = p /\ h.vecIns[x][i + 1] = q
             /\ Outer(h, x, p, q) <=>
                  ~IsEmpty(h, x) /\ LastPc(h, x) = p /\ q \in h.succs[x]
             /\ h.vecIns[x] = <<>> => ~Inner(h, x, p, q) /\ ~Outer(h, x, p, q)
  <2> DEFINE l == Len(h.vecIns[x])
             w == h.vecIns[x]
  <2>1. x \in Nat /\ l \in Nat /\ Top(h, x) = x + l - 1 /\ p \in Nat /\ q \in Nat
    BY <1>2, TopFacts, AddrFacts DEF Top
  <2>2. \A i \in 1 .. l : w[i] = x + i - 1
    BY <1>2 DEF LaidOut
  <2>3. Outer(h, x, p, q) <=> ~IsEmpty(h, x) /\ LastPc(h, x) = p /\ q \in h.succs[x]
    BY <1>2, TopFacts DEF Outer, IsEmpty
  <2>4. h.vecIns[x] = <<>> => ~Inner(h, x, p, q) /\ ~Outer(h, x, p, q)
    BY <1>2, <2>1, TopFacts DEF Inner, Outer
  <2> HIDE DEF l, w
  <2>5. ASSUME Inner(h, x, p, q) PROVE \E i \in 1 .. l - 1 : w[i] = p /\ w[i + 1] = q
    <3> DEFINE i == p - x + 1
    <3>1. i \in 1 .. l - 1 /\ i \in 1 .. l /\ i + 1 \in 1 .. l
          /\ x + i - 1 = p /\ x + (i + 1) - 1 = q
      BY <2>1, <2>5 DEF Inner
    <3> HIDE DEF i
    <3> QED BY <2>2, <3>1
  <2>6. ASSUME NEW i \in 1 .. l - 1, w[i] = p, w[i + 1] = q PROVE Inner(h, x, p, q)
    <3>1. i \in 1 .. l /\ i + 1 \in 1 .. l /\ i \in Nat
      BY <2>1
    <3>2. p = x + i - 1 /\ q = x + (i + 1) - 1
      BY <2>2, <2>6, <3>1
    <3> QED BY <2>1, <3>1, <3>2 DEF Inner
  <2> QED BY <2>3, <2>4, <2>5, <2>6 DEF l, w
<1> QED BY <1>1, <1>2 DEF InTable, Pair

(* Nothing that pairs are made of is changed. *)
LEMMA SameGraphPairs ==
  ASSUME NEW n, NEW h, n.vecIns = h.vecIns, n.succs = h.succs
  PROVE  /\ SamePairs(n, h)
         /\ \A x \in Addr : Top(n, x) = Top(h, x) /\ (Goes(n, x) <=> Goes(h, x))
<1>1. \A x \in Addr : Top(n, x) = Top(h, x)
  BY DEF Top
<1>2. \A x, p, q \in Addr : (Inner(n, x, p, q) <=> Inner(h, x, p, q))
                         /\ (Outer(n, x, p, q) <=> Outer(h, x, p, q))
  BY <1>1 DEF Inner, Outer
<1> QED BY <1>1, <1>2 DEF SamePairs, Pair, Goes

-----------------------------------------------------------------------------
LEMMA AddSuccessorPairs ==
  ASSUME NEW h \in Graph, NEW b \in Addr, NEW c \in Addr, h.vecIns[b] # <<>>, Linked(h),
         NEW n, n = AddSuccessor(h, b, c)
  PROVE  /\ Linked(n) /\ n.vecIns = h.vecIns /\ n.insMap = h.insMap /\ n.bbMap = h.bbMap
         /\ n.readOnly = h.readOnly /\ c \in n.succs[b] /\ h.succs[b] \subseteq n.succs[b]
         /\ Grown(n, h, Top(h, b), c) /\ Pair(n, Top(h, b), c)
<1>1. CASE c \in h.succs[b]
  <2>1. n = h
    BY <1>1 DEF AddSuccessor
  <2>2. Outer(h, b, Top(h, b), c)
    BY <1>1 DEF Outer
  <2> QED BY <1>1, <2>1, <2>2 DEF Grown, Pair
<1>2. CASE c \notin h.succs[b]
  <2>1. AddsSuccessor(n, h, b, c)
    BY <1>2, AddSuccessorFields DEF IsEmpty
  <2>2. /\ n.vecIns = h.vecIns /\ n.insMap = h.insMap /\ n.bbMap = h.bbMap
        /\ n.readOnly = h.readOnly
        /\ \A x \in Addr : n.succs[x] = IF x = b THEN h.succs[b] \cup {c} ELSE h.succs[x]
        /\ \A x \in Addr : n.succsMap[x] = IF x = b THEN MapSucc(h.succsMap[b], c)
                                           ELSE h.succsMap[x]
    BY <2>1 DEF AddsSuccessor, Graph
  <2>3. \A x \in Addr : Top(n, x) = Top(h, x)
    BY <2>2 DEF Top
  <2>4. Linked(n)
    BY <2>2, <2>3 DEF Linked, Mapped, Onward, Goes, MapSucc
  <2>5. \A x, p, q \in Addr :
          /\ Inner(n, x, p, q) <=> Inner(h, x, p, q)
          /\ Outer(n, x, p, q) <=> Outer(h, x, p, q) \/ (x = b /\ p = Top(h, b) /\ q = c)
    BY <2>2, <2>3 DEF Inner, Outer
  <2>6. Outer(n, b, Top(h, b), c)
    BY <2>2, <2>3 DEF Outer
  <2> QED BY <2>2, <2>4, <2>5, <2>6 DEF Grown, Pair
<1> QED BY <1>1, <1>2

LEMMA ConstructPairs ==
  ASSUME NEW h \in Graph, NEW a \in Addr, Linked(h), NEW n, n = Construct(h, a)
  PROVE  /\ Linked(n) /\ SamePairs(n, h) /\ a \in n.bbMap
         /\ n.vecIns = h.vecIns /\ n.insMap = h.insMap /\ n.succs = h.succs
<1>1. /\ n.vecIns = h.vecIns /\ n.insMap = h.insMap /\ n.succs = h.succs
      /\ n.succsMap = h.succsMap /\ n.readOnly = h.readOnly /\ a \in n.bbMap
  BY DEF Construct, Graph
<1>2. /\ SamePairs(n, h)
      /\ \A x \in Addr : Top(n, x) = Top(h, x) /\ (Goes(n, x) <=> Goes(h, x))
  BY <1>1, SameGraphPairs
<1>3. Linked(n)
  BY <1>1, <1>2 DEF Linked, Mapped, Onward
<1> QED BY <1>1, <1>2, <1>3

(* split: a step inside the block becomes the edge of its head. *)
LEMMA SplitPairs ==
  ASSUME NEW h \in Graph, LaidOut(h), Linked(h), NEW b \in Addr, NEW a \in Addr,
         a # b, a \notin h.bbMap, a \in Extent(h, b),
         h.readOnly[b] \/ EndsBlock(code[Top(h, b)]), NEW n, n = Split(h, b, a)
  PROVE  /\ Linked(n) /\ SamePairs(n, h) /\ SameHeld(n, h) /\ a \in n.bbMap
         /\ n.readOnly[b] /\ n.vecIns[b] # <<>> /\ Top(n, b) = a - 1 /\ a \in n.succs[b]
         /\ \A x \in Addr \ {a, b} : n.vecIns[x] = h.vecIns[x] /\ n.succs[x] = h.succs[x]
<1> DEFINE k == Offset(h, b, a)
           l == Len(h.vecIns[b])
<1>1. a \in Insns(h, b) /\ k = a - b + 1
  BY ExtentInsns
<1>2. Parts(n, h, b, a, k)
  BY <1>1, SplitPlaces
<1>3. /\ n.succs = [h.succs EXCEPT ![a] = h.succs[b], ![b] = {a}]
      /\ n.succsMap = [h.succsMap EXCEPT ![a] = MapSuccs(h.succs[b]), ![b] = {a}]
      /\ n.bbMap = h.bbMap \cup {a}
      /\ n.insMap = SplitInsMap(h, b, a, k)
  BY DEF Split
<1> HIDE DEF k
<1>4. /\ k \in 1 .. l
      /\ \A x \in Addr \ {a, b} : n.vecIns[x] = h.vecIns[x]
      /\ Len(n.vecIns[a]) = l - k + 1
      /\ Len(n.vecIns[b]) = k - 1
      /\ n.readOnly = [h.readOnly EXCEPT ![a] = TRUE, ![b] = TRUE]
  BY <1>2 DEF Parts
<1>5. /\ l \in Nat /\ a \in Nat /\ b \in Nat /\ Top(h, b) = b + l - 1
      /\ h.readOnly \in [Addr -> BOOLEAN] /\ h.succs \in [Addr -> SUBSET Addr]
      /\ h.succsMap \in [Addr -> SUBSET Addr] /\ h.vecIns[a] = <<>> /\ h.vecIns[b] # <<>>
  <2>1. l \in Nat /\ a \in Nat /\ b \in Nat /\ Top(h, b) = b + l - 1
    BY AddrFacts, LenFacts DEF Top
  <2>2. l > 0
    BY <1>4, <2>1
  <2> QED BY <2>1, <2>2, LenFacts DEF Graph, LaidOut
<1> HIDE DEF l
<1>6. /\ Top(n, b) = a - 1 /\ Top(n, a) = Top(h, b)
      /\ n.vecIns[b] # <<>> /\ n.vecIns[a] # <<>> /\ Top(h, b) >= a /\ a > b
  <2>1. Top(n, b) = b + (k - 1) - 1 /\ Top(n, a) = a + (l - k + 1) - 1
    BY <1>4 DEF Top
  <2>2. k \in 1 .. l /\ k = a - b + 1 /\ l \in Nat /\ a \in Nat /\ b \in Nat /\ a # b
    BY ZenonT(30), <1>1, <1>4, <1>5
  <2>5. a > b
    <3>1. a >= b
      BY ONLY <2>2, SMTT(30)
    <3> QED BY ONLY <2>2, <3>1, SMTT(30)
  <2>3. n.vecIns[b] # <<>> /\ n.vecIns[a] # <<>>
    <3>1. k - 1 > 0 /\ l - k + 1 > 0
      BY ONLY <2>2, <2>5, SMTT(30)
    <3> QED BY <1>4, <3>1
  <2>4. /\ b + (k - 1) - 1 = a - 1 /\ a + (l - k + 1) - 1 = b + l - 1
        /\ b + l - 1 >= a /\ a > b
    BY ONLY <2>2, <2>5, SMTT(30)
  <2> QED BY <1>5, <2>1, <2>3, <2>4
<1>7. \A x \in Addr \ {a, b} : Top(n, x) = Top(h, x)
  BY <1>4 DEF Top
<1>8. /\ \A x \in Addr \ {a, b} : n.succs[x] = h.succs[x] /\ n.succsMap[x] = h.succsMap[x]
                                 /\ n.readOnly[x] = h.readOnly[x]
      /\ n.succs[a] = h.succs[b] /\ n.succs[b] = {a}
      /\ n.succsMap[a] = MapSuccs(h.succs[b]) /\ n.succsMap[b] = {a} /\ n.readOnly[b]
  BY ZenonT(30), <1>3, <1>4, <1>5
<1>9. Mapped(n)
  <2>1. MapSuccs(h.succs[b]) \subseteq h.succs[b]
    BY DEF MapSuccs
  <2> QED BY <1>8, <2>1 DEF Linked, Mapped
<1>10. Onward(n)
  <2>1. Goes(h, b)
    BY DEF Linked, Onward, Goes
  <2>2. Goes(n, a)
    BY <1>6, <1>8, <2>1 DEF Goes
  <2>3. Goes(n, b)
    BY <1>5, <1>6, <1>8 DEF Goes
  <2>4. \A x \in Addr \ {a, b} : n.readOnly[x] => Goes(n, x)
    BY <1>7, <1>8 DEF Linked, Onward, Goes
  <2> QED BY <2>2, <2>3, <2>4 DEF Onward
<1>11. SamePairs(n, h)
  <2> SUFFICES ASSUME NEW p \in Addr, NEW q \in Addr PROVE Pair(n, p, q) <=> Pair(h, p, q)
    BY DEF SamePairs
  <2>1. \A x \in Addr \ {a, b} : /\ Inner(n, x, p, q) <=> Inner(h, x, p, q)
                                 /\ Outer(n, x, p, q) <=> Outer(h, x, p, q)
    BY <1>4, <1>7, <1>8 DEF Inner, Outer
  <2>2. p \in Nat /\ q \in Nat /\ Top(h, b) \in Int
    BY AddrFacts, TopFacts
  <2>3. Outer(n, a, p, q) <=> Outer(h, b, p, q)
    BY <1>5, <1>6, <1>8 DEF Outer
  <2>4. Inner(n, a, p, q) \/ Inner(n, b, p, q) \/ Outer(n, b, p, q) <=> Inner(h, b, p, q)
    <3>1. Outer(n, b, p, q) <=> p = a - 1 /\ q = a
      BY <1>6, <1>8 DEF Outer
    <3>2. Inner(n, a, p, q) <=> p \in a .. Top(h, b) - 1 /\ q = p + 1
      BY <1>6 DEF Inner
    <3>3. Inner(n, b, p, q) <=> p \in b .. (a - 1) - 1 /\ q = p + 1
      BY <1>6 DEF Inner
    <3> QED BY <1>5, <1>6, <2>2, <3>1, <3>2, <3>3 DEF Inner
  <2>5. ~Inner(h, a, p, q) /\ ~Outer(h, a, p, q)
    BY <1>5, <2>2, TopFacts DEF Inner, Outer
  <2> QED BY <2>1, <2>3, <2>4, <2>5 DEF Pair
<1>12. SameHeld(n, h)
  <2> SUFFICES ASSUME NEW s \in Slot PROVE n.insMap[s] = NoBlock <=> h.insMap[s] = NoBlock
    BY DEF SameHeld
  <2>1. n.insMap[s] = IF s \in b + k - 1 .. b + l - 1 THEN a ELSE h.insMap[s]
    BY <1>3 DEF SplitInsMap, l
  <2>2. s \in b + k - 1 .. b + l - 1 => h.insMap[s] = b
    <3>1. s \in b + k - 1 .. b + l - 1 => s \in Extent(h, b)
      BY <1>4, <1>5 DEF Extent, l
    <3> QED BY <3>1 DEF LaidOut
  <2> QED BY <2>1, <2>2, AddrFacts
<1> QED BY <1>3, <1>4, <1>6, <1>8, <1>9, <1>10, <1>11, <1>12 DEF Linked

-----------------------------------------------------------------------------
(* succsMap[b] finds no other block in the place of a. *)
KeyOk(h, b, a) == \A x \in h.succsMap[b] : Key(x) = Key(a) => x = a

(* n is h after the step from b's end to a: the edge is there, unless a    *)
(* key led elsewhere, or a was inside b, where b was split.                *)
Led(n, h, b, a) ==
  /\ Linked(n) /\ SameHeld(n, h) /\ Grown(n, h, Top(h, b), a)
  /\ n.readOnly[b] \/ n.vecIns[b] = h.vecIns[b]
  /\ KeyOk(h, b, a) =>
       Pair(n, Top(h, b), a) \/ (a \in Extent(h, b) /\ a \notin h.bbMap /\ a \in n.bbMap)
  /\ KeyOk(h, b, a) /\ a \notin Extent(h, b) =>
       a \in n.succs[b] /\ n.vecIns[b] = h.vecIns[b]

LEMMA SuccessorPairs ==
  ASSUME NEW h, NEW b, Shut(h, b), Linked(h), NEW a \in Addr,
         h.readOnly[b] \/ EndsBlock(code[Top(h, b)]) \/ a \notin Extent(h, b),
         NEW s, s = Successor(h, b, a)
  PROVE  Led(s.graph, h, b, a)
<1> DEFINE hit == {x \in h.succsMap[b] : Key(x) = Key(a)}
           own == BbInBlock(h, a)
           f   == FindBlock(h, b, a)
<1>1. /\ WellFormed(h) /\ LaidOut(h) /\ h \in Graph /\ b \in h.bbMap /\ b \in Addr
      /\ a \in Slot /\ h.bbMap \subseteq Addr /\ h.vecIns[b] # <<>>
      /\ \A x \in h.bbMap \ {b} : Closed(h, x)
  BY AddrFacts DEF Shut, Sound, WellFormed, Graph
<1>2. CASE hit # {}
  <2> DEFINE c == CHOOSE x \in hit : TRUE
  <2>1. f = [blk |-> c, graph |-> h]
    BY <1>2 DEF FindBlock
  <2>2. c \in h.bbMap /\ c \in h.succs[b] /\ (KeyOk(h, b, a) => c = a)
    BY <1>1, <1>2 DEF WellFormed, MapsIn, Linked, Mapped, KeyOk
  <2> HIDE DEF c, f
  <2>3. s = [blk |-> c, graph |-> h]
    BY <1>1, <2>1, <2>2, AddrFacts DEF Successor, f
  <2>4. s.graph = h
    BY <2>3
  <2>5. Outer(h, b, Top(h, b), c)
    BY <1>1, <2>2 DEF Outer
  <2>6. KeyOk(h, b, a) => Pair(h, Top(h, b), a)
    BY <1>1, <2>2, <2>5 DEF Pair
  <2> QED BY <2>2, <2>4, <2>6 DEF Led, SameHeld, Grown
<1>3. CASE hit = {} /\ a \in h.bbMap
  <2> DEFINE n == AddSuccessor(h, b, a)
  <2>1. f = [blk |-> a, graph |-> n]
    BY <1>3 DEF FindBlock
  <2>2. /\ Linked(n) /\ n.vecIns = h.vecIns /\ n.insMap = h.insMap /\ a \in n.succs[b]
        /\ Grown(n, h, Top(h, b), a) /\ Pair(n, Top(h, b), a)
    BY <1>1, AddSuccessorPairs
  <2> HIDE DEF n, f
  <2>3. s = [blk |-> a, graph |-> n]
    BY <2>1, AddrFacts DEF Successor, f
  <2>4. s.graph = n
    BY <2>3
  <2> QED BY <2>2, <2>4 DEF Led, SameHeld
<1>4. CASE hit = {} /\ a \notin h.bbMap /\ own # NoBlock
  <2> DEFINE m == Split(h, own, a)
             n == AddSuccessor(m, b, a)
  <2>1. own \in h.bbMap /\ own \in Addr /\ own # a
    BY <1>1, <1>4 DEF BbInBlock, WellFormed, MapsIn
  <2>2. a \in Extent(h, own)
    BY <1>1, <2>1 DEF LaidOut, BbInBlock
  <2>3. a \in Insns(h, own)
    BY <1>1, <2>1, <2>2, ExtentInsns
  <2>4. f = [blk |-> a, graph |-> n]
    BY <1>4, <2>3 DEF FindBlock
  <2> HIDE DEF own, hit
  <2>5. h.readOnly[own] \/ EndsBlock(code[Top(h, own)])
    BY <1>1, <2>1, <2>2 DEF Closed
  <2>6. /\ Linked(m) /\ SamePairs(m, h) /\ SameHeld(m, h) /\ a \in m.bbMap
        /\ m.readOnly[own] /\ m.vecIns[own] # <<>> /\ a \in m.succs[own]
        /\ \A x \in Addr \ {a, own} : m.vecIns[x] = h.vecIns[x] /\ m.succs[x] = h.succs[x]
    BY <1>1, <1>4, <2>1, <2>2, <2>5, SplitPairs
  <2>7. m \in Graph
    BY <1>1, <1>4, <2>1, <2>3, SplitWF DEF WellFormed
  <2> HIDE DEF m
  <2>8. Led(n, h, b, a)
    <3>1. CASE b = own
      <4>1. n = m
        BY <2>6, <3>1 DEF AddSuccessor
      <4> QED BY <1>4, <2>2, <2>6, <3>1, <4>1 DEF Led, Grown, SamePairs
    <3>2. CASE b # own
      <4>1. m.vecIns[b] = h.vecIns[b] /\ Top(m, b) = Top(h, b) /\ m.vecIns[b] # <<>>
        BY <1>1, <1>4, <2>6, <3>2 DEF Top
      <4>2. /\ Linked(n) /\ n.vecIns = m.vecIns /\ n.insMap = m.insMap /\ a \in n.succs[b]
            /\ Grown(n, m, Top(h, b), a) /\ Pair(n, Top(h, b), a)
        BY <1>1, <2>6, <2>7, <4>1, AddSuccessorPairs
      <4>3. SameHeld(n, h)
        BY <2>6, <4>2 DEF SameHeld
      <4>4. Grown(n, h, Top(h, b), a)
        BY <2>6, <4>2 DEF Grown, SamePairs
      <4> QED BY <4>1, <4>2, <4>3, <4>4 DEF Led
    <3> QED BY <3>1, <3>2
  <2> HIDE DEF n, f
  <2>9. s = [blk |-> a, graph |-> n]
    BY <2>4, AddrFacts DEF Successor, f
  <2>10. s.graph = n
    BY <2>9
  <2> QED BY <2>8, <2>10
<1>5. CASE hit = {} /\ a \notin h.bbMap /\ own = NoBlock
  <2> DEFINE m == Construct(h, a)
             n == AddSuccessor(m, b, a)
  <2>1. f.blk = NoBlock
    BY <1>5 DEF FindBlock
  <2>2. s = [blk |-> a, graph |-> n]
    BY <2>1 DEF Successor, NewBlock, f
  <2>3. /\ Linked(m) /\ SamePairs(m, h)
        /\ m.vecIns = h.vecIns /\ m.insMap = h.insMap
    BY <1>1, ConstructPairs
  <2>4. m \in Graph
    BY <1>1, ConstructWF DEF WellFormed
  <2> HIDE DEF m
  <2>5. Top(m, b) = Top(h, b) /\ m.vecIns[b] # <<>>
    BY <1>1, <2>3 DEF Top
  <2>6. /\ Linked(n) /\ n.vecIns = m.vecIns /\ n.insMap = m.insMap /\ a \in n.succs[b]
        /\ Grown(n, m, Top(h, b), a) /\ Pair(n, Top(h, b), a)
    BY <1>1, <2>3, <2>4, <2>5, AddSuccessorPairs
  <2> HIDE DEF n
  <2>7. Led(n, h, b, a)
    BY <2>3, <2>6 DEF Led, SameHeld, Grown, SamePairs
  <2>8. s.graph = n
    BY <2>2
  <2> QED BY <2>7, <2>8
<1> QED BY <1>2, <1>3, <1>4, <1>5

(* What getNextBlock is called for: b ends there, or a follows b. *)
LEMMA GetNextBlockPairs ==
  ASSUME NEW h, NEW b, Shut(h, b), Linked(h), NEW a \in Addr,
         EndsBlock(code[Top(h, b)]) \/ (a = Top(h, b) + 1 /\ KeyOk(h, b, a)),
         NEW t, t = GetNextBlock(h, b, a)
  PROVE  /\ Linked(t.graph) /\ SameHeld(t.graph, h)
         /\ Grown(t.graph, h, Top(h, b), a)
         /\ KeyOk(h, b, a) => Pair(t.graph, Top(h, b), a)
              \/ (a \in Extent(h, b) /\ a \notin h.bbMap /\ a \in t.graph.bbMap)
<1> DEFINE s == Successor(h, b, a)
           n == SetReadOnly(s.graph, b)
<1>1. h \in Graph /\ b \in Addr /\ a \in Nat
  BY AddrFacts DEF Shut, Sound, WellFormed, Graph
<1>2. Top(h, b) \in Int /\ Extent(h, b) = b .. Top(h, b) /\ b \in Nat
  BY <1>1, TopFacts
<1>3. a = Top(h, b) + 1 => a \notin Extent(h, b)
  BY <1>1, <1>2
<1>4. Led(s.graph, h, b, a)
  BY <1>3, SuccessorPairs
<1>5. Reached(s, b, a)
  BY SuccessorReached
<1>6. t.graph = n
  BY DEF GetNextBlock
<1> HIDE DEF s
<1>7. s.graph \in Graph
  BY <1>5 DEF Reached, Sound, WellFormed
<1>8. /\ n.vecIns = s.graph.vecIns /\ n.succs = s.graph.succs
      /\ n.succsMap = s.graph.succsMap /\ n.insMap = s.graph.insMap
      /\ n.bbMap = s.graph.bbMap
      /\ \A x \in Addr : n.readOnly[x] <=> (s.graph.readOnly[x] \/ x = b)
  BY <1>1, <1>7 DEF SetReadOnly, Graph
<1> HIDE DEF n
<1>9. /\ SamePairs(n, s.graph)
      /\ \A x \in Addr : Top(n, x) = Top(s.graph, x) /\ (Goes(n, x) <=> Goes(s.graph, x))
  BY <1>8, SameGraphPairs
<1>10. s.graph.readOnly[b] \/ Goes(n, b)
  <2> SUFFICES ASSUME ~s.graph.readOnly[b] PROVE Goes(n, b)
    OBVIOUS
  <2>1. s.graph.vecIns[b] = h.vecIns[b]
    BY <1>4 DEF Led
  <2>2. Top(n, b) = Top(h, b)
    BY <1>1, <1>8, <2>1 DEF Top
  <2>3. CASE EndsBlock(code[Top(h, b)])
    BY <2>2, <2>3 DEF Goes
  <2>4. CASE a = Top(h, b) + 1 /\ KeyOk(h, b, a)
    <3>1. a \in s.graph.succs[b]
      BY <1>3, <1>4, <2>4 DEF Led
    <3> QED BY <1>8, <2>2, <2>4, <3>1 DEF Goes
  <2> QED BY <2>3, <2>4
<1>11. Linked(n)
  <2>1. Linked(s.graph)
    BY <1>4 DEF Led
  <2>2. Mapped(n)
    BY <1>8, <2>1 DEF Linked, Mapped
  <2>3. Onward(n)
    BY <1>8, <1>9, <1>10, <2>1 DEF Linked, Onward
  <2> QED BY <2>2, <2>3 DEF Linked
<1>12. SameHeld(n, h)
  BY <1>4, <1>8 DEF Led, SameHeld
<1>13. Grown(n, h, Top(h, b), a)
  BY <1>4, <1>9 DEF Led, Grown, SamePairs
<1>14. KeyOk(h, b, a) => Pair(n, Top(h, b), a)
         \/ (a \in Extent(h, b) /\ a \notin h.bbMap /\ a \in n.bbMap)
  <2>1. Pair(s.graph, Top(h, b), a) => Pair(n, Top(h, b), a)
    <3>1. Top(h, b) \in Addr
      <4>1. h.vecIns[b] # <<>> /\ LaidOut(h)
        BY DEF Shut, Sound
      <4>2. LastPc(h, b) = Top(h, b)
        BY <1>1, <4>1, TopFacts
      <4>3. WellFormed(h) /\ b \in h.bbMap
        BY DEF Shut, Sound
      <4> QED BY <4>1, <4>2, <4>3, NextSlot
    <3> QED BY <1>9, <3>1 DEF SamePairs
  <2> QED BY <1>4, <1>8, <2>1 DEF Led
<1> QED BY <1>6, <1>11, <1>12, <1>13, <1>14

(* The block that control arrives in is closed, or new. *)
LEMMA GetNextBlockRests ==
  ASSUME NEW h, NEW b, Shut(h, b), NEW a \in Addr, NEW t, t = GetNextBlock(h, b, a)
  PROVE  t.graph.readOnly[t.blk] \/ t.graph.vecIns[t.blk] = <<>>
<1> DEFINE s == Successor(h, b, a)
           n == SetReadOnly(s.graph, b)
<1>1. Reached(s, b, a)
  BY SuccessorReached
<1>2. t.blk = s.blk /\ t.graph = n
  BY DEF GetNextBlock
<1> HIDE DEF s
<1>3. s.graph \in Graph /\ b \in Addr /\ s.blk \in Addr
  BY <1>1 DEF Reached, Sound, WellFormed, Graph
<1>4. /\ n.vecIns = s.graph.vecIns
      /\ \A x \in Addr : n.readOnly[x] <=> (s.graph.readOnly[x] \/ x = b)
  BY <1>3 DEF SetReadOnly, Graph
<1> HIDE DEF n
<1>5. n.readOnly[s.blk] \/ n.vecIns[s.blk] = <<>>
  BY <1>1, <1>3, <1>4 DEF Reached, Closed, Fresh
<1> QED BY <1>2, <1>5

LEMMA SetTermAddrPairs ==
  ASSUME NEW h \in Graph, NEW b \in Addr, NEW a \in Nat, Linked(h),
         NEW n, n = SetTermAddr(h, b, a)
  PROVE  /\ Linked(n) /\ SamePairs(n, h) /\ SameHeld(n, h) /\ n.bbMap = h.bbMap
         /\ n.succsMap = h.succsMap /\ \A x \in Addr : Top(n, x) = Top(h, x)
<1>1. /\ n.vecIns = h.vecIns /\ n.insMap = h.insMap /\ n.succs = h.succs
      /\ n.succsMap = h.succsMap /\ n.readOnly = h.readOnly /\ n.bbMap = h.bbMap
  BY DEF SetTermAddr, Graph
<1>2. /\ SamePairs(n, h)
      /\ \A x \in Addr : Top(n, x) = Top(h, x) /\ (Goes(n, x) <=> Goes(h, x))
  BY <1>1, SameGraphPairs
<1>3. Linked(n)
  BY <1>1, <1>2 DEF Linked, Mapped, Onward
<1> QED BY <1>1, <1>2, <1>3 DEF SameHeld

(* The open block grows by the instruction after its last one. *)
LEMMA AddInsPairs ==
  ASSUME NEW h \in Graph, NEW b \in Addr, ~h.readOnly[b], h.succs[b] = {},
         NEW a \in Addr, a = Top(h, b) + 1, Linked(h), NEW n, n = AddIns(h, b, a)
  PROVE  /\ Linked(n) /\ Top(n, b) = a /\ n.vecIns[b] # <<>> /\ n.insMap[a] # NoBlock
         /\ \A s \in Slot \ {a} : n.insMap[s] = h.insMap[s]
         /\ n.bbMap = h.bbMap /\ n.succs = h.succs /\ n.succsMap = h.succsMap
         /\ \A p, q \in Addr : Pair(n, p, q) <=>
              Pair(h, p, q) \/ (h.vecIns[b] # <<>> /\ p = Top(h, b) /\ q = a)
<1> DEFINE l == Len(h.vecIns[b])
<1>1. AddsIns(n, h, b, a)
  BY AddInsFields
<1>2. /\ h.vecIns \in [Addr -> Seq(Addr)] /\ h.vecIns[b] \in Seq(Addr) /\ l \in Nat
      /\ a \in Slot /\ b \in Addr /\ b \in Nat /\ a \in Nat
  BY LenFacts, AddrFacts DEF Graph
<1>3. /\ n.vecIns[b] = Append(h.vecIns[b], a)
      /\ \A x \in Addr \ {b} : n.vecIns[x] = h.vecIns[x]
      /\ n.readOnly = h.readOnly /\ n.succs = h.succs /\ n.succsMap = h.succsMap
      /\ n.bbMap = h.bbMap
  BY <1>1, <1>2 DEF AddsIns
<1>4. n.insMap[a] = b /\ \A s \in Slot \ {a} : n.insMap[s] = h.insMap[s]
  <2>1. h.insMap \in [Slot -> Addr \cup {NoBlock}]
    BY DEF Graph
  <2> QED BY <1>1, <1>2, <2>1 DEF AddsIns
<1>5. Len(n.vecIns[b]) = l + 1 /\ n.vecIns[b] # <<>>
  BY <1>2, <1>3
<1>6. Top(n, b) = a /\ Top(h, b) = a - 1 /\ (h.vecIns[b] # <<>> <=> a - 1 >= b) /\ a >= b
  <2>1. Top(h, b) = b + l - 1 /\ Top(n, b) = b + (l + 1) - 1
    BY SMTT(30), <1>5 DEF Top
  <2>2. h.vecIns[b] # <<>> <=> l > 0
    BY LenFacts
  <2> HIDE DEF l
  <2> QED BY <1>2, <2>1, <2>2
<1>7. \A x \in Addr \ {b} : Top(n, x) = Top(h, x)
  BY <1>3 DEF Top
<1>8. Linked(n)
  <2>1. \A x \in Addr : n.readOnly[x] => x # b
    BY <1>3
  <2> QED BY <1>3, <1>7, <2>1 DEF Linked, Mapped, Onward, Goes
<1>9. ASSUME NEW p \in Addr, NEW q \in Addr
      PROVE  Pair(n, p, q) <=>
               Pair(h, p, q) \/ (h.vecIns[b] # <<>> /\ p = Top(h, b) /\ q = a)
  <2>1. \A x \in Addr \ {b} : /\ Inner(n, x, p, q) <=> Inner(h, x, p, q)
                              /\ Outer(n, x, p, q) <=> Outer(h, x, p, q)
    BY <1>3, <1>7 DEF Inner, Outer
  <2>2. ~Outer(n, b, p, q) /\ ~Outer(h, b, p, q)
    BY <1>3 DEF Outer
  <2>3. Inner(n, b, p, q) <=> Inner(h, b, p, q)
          \/ (h.vecIns[b] # <<>> /\ p = Top(h, b) /\ q = a)
    <3>1. p \in Nat
      BY AddrFacts
    <3> QED BY SMTT(30), <1>2, <1>6, <3>1 DEF Inner
  <2> QED BY <2>1, <2>2, <2>3 DEF Pair
<1> QED BY <1>3, <1>4, <1>5, <1>6, <1>8, <1>9, AddrFacts

-----------------------------------------------------------------------------
(* What InGraph comes to while the trace is replayed, b being the current  *)
(* block: the open block also stands for the step to the next record.      *)
Flowing(h, b, p, q) ==
  Pair(h, p, q) \/ (~h.readOnly[b] /\ h.vecIns[b] # <<>> /\ p = Top(h, b) /\ q = p + 1)

(* From block b of h to block c of n, the record at u being followed by v. *)
Widened(n, c, h, b, u, v) ==
  \A p, q \in Addr :
    /\ Flowing(h, b, p, q) => Flowing(n, c, p, q)
    /\ Flowing(n, c, p, q) => Flowing(h, b, p, q) \/ (p = u /\ q = v)

(* The step from u to v is in the graph n, unless it jumped to the place   *)
(* where a block of h was split.                                           *)
Recorded(n, c, h, u, v) ==
  Flowing(n, c, u, v) \/ (v <= u /\ v \notin h.bbMap /\ v \in n.bbMap)

(* Only u is new among the addresses that have a block. *)
HeldBut(n, h, u) == \A s \in Slot \ {u} : n.insMap[s] = NoBlock <=> h.insMap[s] = NoBlock

LEMMA ClosedFlowing ==
  ASSUME NEW h, NEW b, h.readOnly[b] \/ h.vecIns[b] = <<>>
  PROVE  \A p, q : Flowing(h, b, p, q) <=> Pair(h, p, q)
BY DEF Flowing

LEMMA TranslateOpenPairs ==
  ASSUME ~Traps, code \in [Addr -> Class], pc \in Addr, NEW npc \in NextPcs(pc),
         NEW h, NEW b, Settled(h, b, pc), ~h.readOnly[b], h.insMap[pc] = NoBlock,
         NEW e, Flows(h, e, {}), Linked(h), NEW t, t = TranslateRiscv(h, b, npc)
  PROVE  /\ Linked(t.graph) /\ HeldBut(t.graph, h, pc)
         /\ Widened(t.graph, t.blk, h, b, pc, npc)
         /\ Recorded(t.graph, t.blk, h, pc, npc)
<1> DEFINE n == AddIns(h, b, pc)
           m == SetTermAddr(n, b, pc)
<1>1. /\ WellFormed(h) /\ LaidOut(h) /\ b \in h.bbMap /\ b \in Addr /\ pc \in Nat
      /\ h \in Graph /\ h.bbMap \subseteq Addr /\ h.fault = "none"
      /\ \A x \in h.bbMap \ {b} : Closed(h, x)
      /\ pc = b + Len(h.vecIns[b]) /\ npc \in Addr /\ npc \in Nat /\ b \in Nat
      /\ h.succs[b] = {} /\ h.succsMap[b] = {}
  BY AddrFacts DEF Settled, Sound, WellFormed, Graph, Flows, NextPcs
<1>2. /\ LaidOut(n)
      /\ n.bbMap = h.bbMap /\ n.readOnly = h.readOnly /\ n.fault = h.fault
      /\ n.vecIns[b] # <<>> /\ Len(n.vecIns[b]) = Len(h.vecIns[b]) + 1
      /\ \A x \in Addr \ {b} : n.vecIns[x] = h.vecIns[x]
  <2>1. /\ WellFormed(h) /\ LaidOut(h) /\ b \in h.bbMap
        /\ pc = b + Len(h.vecIns[b])
    BY <1>1
  <2> HIDE DEF n
  <2>2. n = AddIns(h, b, pc)
    BY DEF n
  <2> QED BY <2>1, <2>2, AddInsLaid
<1>3. WellFormed(n) /\ n \in Graph
  BY <1>1, AddInsWF DEF WellFormed
<1>4. pc = Top(h, b) + 1
  <2> DEFINE l == Len(h.vecIns[b])
  <2>1. l \in Nat /\ pc = b + l /\ Top(h, b) = b + l - 1
    BY <1>1, TopFacts DEF Top
  <2> HIDE DEF l
  <2> QED BY <1>1, <2>1
<1>5. /\ Linked(n) /\ Top(n, b) = pc
      /\ \A s \in Slot \ {pc} : n.insMap[s] = h.insMap[s]
      /\ n.succs = h.succs /\ n.succsMap = h.succsMap
      /\ \A p, q \in Addr : Pair(n, p, q) <=>
           Pair(h, p, q) \/ (h.vecIns[b] # <<>> /\ p = Top(h, b) /\ q = pc)
  BY SMTT(30), <1>1, <1>4, AddInsPairs
<1>6. t = IF EndsBlock(code[pc]) THEN GetNextBlock(m, b, npc)
          ELSE [blk |-> b, graph |-> n]
  BY DEF TranslateRiscv
<1> HIDE DEF n
<1>8. Sound(n) /\ \A x \in n.bbMap \ {b} : Closed(n, x)
  BY <1>1, <1>2, <1>3 DEF Sound, Closed
(* The pairs of n are what flowed in h. *)
<1>9. \A p, q \in Addr : Pair(n, p, q) <=> Flowing(h, b, p, q)
  <2>1. \A p, q \in Addr : q = pc /\ p = Top(h, b) <=> p = Top(h, b) /\ q = p + 1
    BY <1>4
  <2> QED BY <1>5, <2>1 DEF Flowing
<1>10. CASE EndsBlock(code[pc])
  <2>1. Sound(m) /\ Same(m, n)
    BY <1>1, <1>8, SetTermAddrSound
  <2>2. /\ Linked(m) /\ SamePairs(m, n) /\ SameHeld(m, n) /\ m.bbMap = n.bbMap
        /\ m.succsMap = n.succsMap /\ Top(m, b) = Top(n, b)
    BY <1>1, <1>3, <1>5, SetTermAddrPairs
  <2>3. m \in Graph
    BY <2>1 DEF Sound, WellFormed
  <2> HIDE DEF m
  <2>4. Shut(m, b) /\ KeyOk(m, b, npc)
    BY <1>1, <1>2, <1>5, <1>8, <2>1, <2>2 DEF Shut, Same, Closed, KeyOk
  <2>5. t = GetNextBlock(m, b, npc)
    BY <1>6, <1>10
  <2>6. /\ Linked(t.graph) /\ SameHeld(t.graph, m)
        /\ Grown(t.graph, m, pc, npc)
        /\ Pair(t.graph, pc, npc)
             \/ (npc \in Extent(m, b) /\ npc \notin m.bbMap /\ npc \in t.graph.bbMap)
    BY <1>1, <1>5, <1>10, <2>2, <2>4, <2>5, GetNextBlockPairs
  <2>7. t.graph.readOnly[t.blk] \/ t.graph.vecIns[t.blk] = <<>>
    BY <1>1, <2>4, <2>5, GetNextBlockRests
  <2>8. \A p, q \in Addr : Flowing(t.graph, t.blk, p, q) <=> Pair(t.graph, p, q)
    BY <2>7, ClosedFlowing
  <2>9. Widened(t.graph, t.blk, h, b, pc, npc)
    BY <1>9, <2>2, <2>6, <2>8 DEF Widened, Grown, SamePairs
  <2>10. npc \in Extent(m, b) => npc <= pc
    BY <1>1, <1>5, <2>2, <2>3, TopFacts
  <2>11. Recorded(t.graph, t.blk, h, pc, npc)
    BY <1>1, <1>2, <2>2, <2>6, <2>8, <2>10 DEF Recorded
  <2>12. HeldBut(t.graph, h, pc)
    BY <1>5, <2>2, <2>6 DEF HeldBut, SameHeld
  <2> QED BY <2>6, <2>9, <2>11, <2>12
<1>11. CASE ~EndsBlock(code[pc])
  <2>1. t.blk = b /\ t.graph = n
    BY <1>6, <1>11
  <2>2. npc = pc + 1
    BY <1>11 DEF EndsBlock, Class, NextPcs
  <2>3. \A p, q \in Addr :
          Flowing(n, b, p, q) <=> Pair(n, p, q) \/ (p = pc /\ q = npc)
    BY <1>1, <1>2, <1>5, <2>2 DEF Flowing
  <2>4. Widened(n, b, h, b, pc, npc) /\ Recorded(n, b, h, pc, npc)
    BY <1>1, <1>9, <2>3 DEF Widened, Recorded
  <2> QED BY <1>5, <2>1, <2>4 DEF HeldBut
<1> QED BY <1>10, <1>11

LEMMA TranslateClosedPairs ==
  ASSUME ~Traps, code \in [Addr -> Class], pc \in Addr, NEW npc \in NextPcs(pc),
         NEW h, Settled(h, pc, pc), h.readOnly[pc], Straight(h, code, {}),
         NEW e, Flows(h, e, {}), Linked(h), NEW t, t = TranslateRiscv(h, pc, npc)
  PROVE  /\ Linked(t.graph) /\ SameHeld(t.graph, h)
         /\ Widened(t.graph, t.blk, h, pc, pc, npc)
         /\ (EndsBlock(code[pc]) => KeyFree(h, npc)) =>
              Recorded(t.graph, t.blk, h, pc, npc)
<1> DEFINE l == Len(h.vecIns[pc])
<1>1. AddIns(h, pc, pc) = h
  BY DEF AddIns
<1>2. /\ h \in Graph /\ h.vecIns[pc] # <<>> /\ LaidOut(h) /\ WellFormed(h)
      /\ pc \in h.bbMap /\ pc \in Nat /\ pc # 0 /\ npc \in Addr
  BY AddrFacts DEF Settled, Sound, WellFormed, NoBlock, NextPcs
<1>3. l \in Nat /\ l > 0 /\ Top(h, pc) = pc + l - 1
  BY <1>2, LenFacts DEF Top
<1>4. h.vecIns[pc][1] = pc
  <2>1. 1 \in 1 .. l /\ pc + 1 - 1 = pc
    BY <1>2, <1>3
  <2> QED BY <1>2, <2>1 DEF LaidOut
<1>5. CASE EndsBlock(code[pc])
  <2>1. \A i \in 1 .. l - 1 : ~EndsBlock(code[h.vecIns[pc][i]])
    BY DEF Straight
  <2>2. l = 1
    <3> HIDE DEF l
    <3> QED BY <1>3, <1>4, <1>5, <2>1
  <2>3. LastPc(h, pc) = pc /\ Top(h, pc) = pc
    BY <1>2, <1>3, <1>4, <2>2 DEF LastPc
  <2>4. h.termAddr[pc] = pc
    BY <2>3 DEF Flows
  <2>5. SetTermAddr(h, pc, pc) = h
    BY <1>2, <2>4 DEF SetTermAddr
  <2>6. t = GetNextBlock(h, pc, npc)
    BY <1>1, <1>5, <2>5 DEF TranslateRiscv
  <2>7. Shut(h, pc)
    BY <1>2, SettledShut
  <2>8. /\ Linked(t.graph) /\ SameHeld(t.graph, h)
        /\ Grown(t.graph, h, pc, npc)
        /\ KeyOk(h, pc, npc) => Pair(t.graph, pc, npc)
             \/ (npc \in Extent(h, pc) /\ npc \notin h.bbMap /\ npc \in t.graph.bbMap)
    BY <1>2, <1>5, <2>3, <2>6, <2>7, GetNextBlockPairs
  <2>9. t.graph.readOnly[t.blk] \/ t.graph.vecIns[t.blk] = <<>>
    BY <1>2, <2>6, <2>7, GetNextBlockRests
  <2>10. /\ \A p, q \in Addr : Flowing(t.graph, t.blk, p, q) <=> Pair(t.graph, p, q)
         /\ \A p, q \in Addr : Flowing(h, pc, p, q) <=> Pair(h, p, q)
    BY <2>9, ClosedFlowing
  <2>11. Widened(t.graph, t.blk, h, pc, pc, npc)
    BY <2>8, <2>10 DEF Widened, Grown
  <2>12. npc \in Extent(h, pc) => npc <= pc
    BY <1>2, <2>3, TopFacts
  <2>13. ASSUME KeyFree(h, npc) PROVE Recorded(t.graph, t.blk, h, pc, npc)
    <3>1. KeyOk(h, pc, npc)
      BY <1>2, <2>13 DEF KeyFree, KeyOk, WellFormed, MapsIn
    <3> QED BY <1>2, <2>8, <2>10, <2>12, <3>1 DEF Recorded
  <2> QED BY <1>5, <2>8, <2>11, <2>13
<1>6. CASE ~EndsBlock(code[pc])
  <2>1. t = [blk |-> pc, graph |-> h]
    BY <1>1, <1>6 DEF TranslateRiscv
  <2>2. t.blk = pc /\ t.graph = h
    BY <2>1
  <2>3. npc = pc + 1
    BY <1>6 DEF EndsBlock, Class, NextPcs
  <2>4. Pair(h, pc, npc)
    <3>1. CASE l = 1
      <4>1. Top(h, pc) = pc /\ pc + 1 \in h.succs[pc]
        BY <1>2, <1>3, <1>6, <3>1 DEF Linked, Onward, Goes
      <4>2. Outer(h, pc, pc, npc)
        BY <1>2, <2>3, <4>1 DEF Outer
      <4> QED BY <4>2 DEF Pair
    <3>2. CASE l # 1
      <4> HIDE DEF l
      <4>1. Inner(h, pc, pc, npc)
        BY <1>2, <1>3, <2>3, <3>2 DEF Inner
      <4> QED BY <4>1 DEF Pair
    <3> QED BY <3>1, <3>2
  <2> QED BY <2>2, <2>4 DEF Widened, Recorded, Flowing, SameHeld
<1> QED BY <1>5, <1>6

-----------------------------------------------------------------------------
(* What a record does to the pairs. *)
Advanced(npc) ==
  /\ Linked(g') /\ HeldBut(g', g, pc) /\ Widened(g', cBB', g, cBB, pc, npc)
  /\ Entered(g, cBB, pc) /\ (EndsBlock(code[pc]) => KeyFree(g', npc)) =>
       Recorded(g', cBB', g, pc, npc)

LEMMA StayAdvanced ==
  ASSUME ~Traps, NEW e, RunInv(e), Linked(g), NEW npc \in NextPcs(pc), Stay(npc)
  PROVE  Advanced(npc)
<1> DEFINE b == Resync
<1>1. g.readOnly[b] /\ pc # g.termAddr[b] /\ cBB' = b /\ g' = g
      /\ (g.readOnly[cBB] \/ b = cBB)
  BY DEF Stay, Become, Resync
<1>2. Shut(g, b)
  BY <1>1, ResyncSettled DEF RunInv
<1>3. g.insMap[pc] # NoBlock /\ g.readOnly[cBB] => b = g.insMap[pc]
  BY DEF Resync, BbInBlock
<1> HIDE DEF b
<1>4. g.readOnly[cBB]
  BY <1>1
<1>5. \A p, q \in Addr : /\ Flowing(g, b, p, q) <=> Pair(g, p, q)
                         /\ Flowing(g, cBB, p, q) <=> Pair(g, p, q)
  BY <1>1, <1>4, ClosedFlowing
<1>6. Widened(g', cBB', g, cBB, pc, npc) /\ HeldBut(g', g, pc)
  BY <1>1, <1>5 DEF Widened, HeldBut
<1>7. ASSUME Entered(g, cBB, pc) PROVE Recorded(g', cBB', g, pc, npc)
  <2>1. /\ LaidOut(g) /\ g \in Graph /\ b \in Addr /\ b \in Nat /\ b # NoBlock
        /\ pc \in Addr /\ pc \in Slot /\ npc \in Addr /\ pc \in Nat
        /\ code \in [Addr -> Class] /\ g.vecIns[b] # <<>>
    BY <1>2, AddrFacts DEF Shut, Sound, WellFormed, Graph, RunInv, ReplayInv,
       GraphInv, TypeOK, NextPcs
  <2>2. g.insMap[pc] = b
    BY <1>3, <1>4, <1>7 DEF Entered
  <2> DEFINE l == Len(g.vecIns[b])
             i == pc - b + 1
  <2>3. pc \in Extent(g, b)
    BY <2>1, <2>2 DEF LaidOut
  <2>4. /\ pc \in b .. Top(g, b) /\ Top(g, b) \in Int /\ LastPc(g, b) = Top(g, b)
        /\ l \in Nat /\ Top(g, b) = b + l - 1
    BY <2>1, <2>3, TopFacts DEF Top
  <2>5. pc # Top(g, b)
    BY <1>1, <2>1, <2>4 DEF RunInv, Flows
  <2>6. \A j \in 1 .. l : g.vecIns[b][j] = b + j - 1
    BY <2>1 DEF LaidOut
  <2>7. \A j \in 1 .. l - 1 : ~EndsBlock(code[g.vecIns[b][j]])
    BY <2>1 DEF RunInv, ShapeInv, Form, Straight
  <2>8. pc \in b .. Top(g, b) - 1
    BY SMTT(30), <2>1, <2>4, <2>5
  <2> HIDE DEF l
  <2>9. i \in 1 .. l - 1 /\ i \in 1 .. l /\ b + i - 1 = pc
    BY <2>1, <2>4, <2>8
  <2> HIDE DEF i
  <2>10. ~EndsBlock(code[pc])
    BY <2>6, <2>7, <2>9
  <2>11. npc = pc + 1
    BY <2>1, <2>10 DEF EndsBlock, Class, NextPcs
  <2>12. Inner(g, b, pc, npc)
    BY <2>8, <2>11 DEF Inner
  <2> QED BY <1>1, <1>5, <2>1, <2>12 DEF Recorded, Pair
<1> QED BY <1>1, <1>6, <1>7 DEF Advanced

LEMMA LeaveAdvanced ==
  ASSUME ~Traps, NEW e, RunInv(e), Linked(g), NEW npc \in NextPcs(pc), Leave(npc)
  PROVE  Advanced(npc)
<1> DEFINE b == Resync
           s == Successor(g, b, npc)
<1>1. /\ g.readOnly[b] /\ pc = g.termAddr[b] /\ cBB' = s.blk /\ g' = s.graph
      /\ (g.readOnly[cBB] \/ b = cBB)
  BY DEF Leave, Become, Resync
<1>2. Shut(g, b)
  BY <1>1, ResyncSettled DEF RunInv
<1> HIDE DEF b
<1>3. /\ npc \in Addr /\ pc \in Addr /\ code \in [Addr -> Class] /\ pc \in Nat
      /\ npc \in Nat
  BY AddrFacts DEF RunInv, ReplayInv, GraphInv, TypeOK, NextPcs
<1>4. /\ WellFormed(g) /\ LaidOut(g) /\ g \in Graph /\ b \in g.bbMap /\ b \in Addr
      /\ g.vecIns[b] # <<>>
  BY <1>2 DEF Shut, Sound, WellFormed, Graph
<1>5. Top(g, b) = pc
  <2>1. LastPc(g, b) = pc
    BY <1>1, <1>4 DEF RunInv, Flows
  <2> QED BY <1>4, <2>1, TopFacts
<1>6. Led(s.graph, g, b, npc)
  BY <1>1, <1>2, <1>3, SuccessorPairs
<1>7. Reached(s, b, npc) /\ s.graph.readOnly[b]
  BY <1>1, <1>2, <1>3, SuccessorReached
<1>8. g.bbMap \subseteq s.graph.bbMap
  BY <1>3, <1>4, SuccessorWF DEF Leads
<1> HIDE DEF s
<1>9. s.graph.readOnly[s.blk] \/ s.graph.vecIns[s.blk] = <<>>
  BY <1>7 DEF Reached, Closed, Fresh
<1>10. \A p, q \in Addr : /\ Flowing(s.graph, s.blk, p, q) <=> Pair(s.graph, p, q)
                          /\ Flowing(g, cBB, p, q) <=> Pair(g, p, q)
  <2>1. g.readOnly[cBB]
    BY <1>1
  <2> QED BY <1>9, <2>1, ClosedFlowing
<1>11. Widened(g', cBB', g, cBB, pc, npc) /\ HeldBut(g', g, pc) /\ Linked(g')
  BY <1>1, <1>5, <1>6, <1>10 DEF Led, Grown, SameHeld, Widened, HeldBut
<1>12. npc \in Extent(g, b) => npc <= pc
  BY <1>3, <1>4, <1>5, TopFacts
<1>13. CASE ~EndsBlock(code[pc])
  <2>1. npc = pc + 1
    BY <1>3, <1>13 DEF EndsBlock, Class, NextPcs
  <2>2. npc \in g.succs[b]
    BY <1>1, <1>4, <1>5, <1>13, <2>1 DEF Linked, Onward, Goes
  <2>3. Outer(g, b, pc, npc)
    BY <1>4, <1>5, <2>2 DEF Outer
  <2>4. Pair(g, pc, npc)
    BY <1>4, <2>3 DEF Pair
  <2>5. Flowing(s.graph, s.blk, pc, npc)
    BY <1>3, <1>5, <1>6, <1>10, <2>4 DEF Led, Grown
  <2> QED BY <1>1, <1>11, <2>5 DEF Advanced, Recorded
<1>14. CASE EndsBlock(code[pc])
  <2>1. ASSUME KeyFree(s.graph, npc) PROVE Recorded(s.graph, s.blk, g, pc, npc)
    <3>1. KeyOk(g, b, npc)
      BY <1>4, <1>8, <2>1 DEF KeyFree, KeyOk, WellFormed, MapsIn
    <3> QED BY <1>3, <1>5, <1>6, <1>10, <1>12, <3>1 DEF Recorded, Led
  <2> QED BY <1>1, <1>11, <1>14, <2>1 DEF Advanced
<1> QED BY <1>13, <1>14

LEMMA JoinAdvanced ==
  ASSUME ~Traps, NEW e, RunInv(e), Linked(g), NEW npc \in NextPcs(pc), Join(npc)
  PROVE  Advanced(npc)
<1> DEFINE b == Resync
           m == SetTermAddr(g, b, LastPc(g, b))
           s == GetNextBlock(m, b, pc)
           t == TranslateRiscv(s.graph, s.blk, npc)
<1>1. /\ b = cBB /\ ~g.readOnly[b] /\ g.insMap[pc] # NoBlock
      /\ Settled(g, b, pc) /\ Sound(g) /\ b \in Addr /\ b \in g.bbMap /\ g \in Graph
      /\ Form(g, code, {}, b) /\ LaidOut(g) /\ g.bbMap \subseteq Addr
  BY SMTT(30), ResyncSettled DEF Join, BbInBlock, RunInv, ReplayInv, ShapeInv, Settled,
     Sound, WellFormed, Graph
<1>2. /\ pc \in Addr /\ npc \in Addr /\ code \in [Addr -> Class] /\ pc \in Slot
      /\ pc \in Nat /\ b \in Nat
  BY <1>1, AddrFacts DEF RunInv, ReplayInv, GraphInv, TypeOK, NextPcs
<1>3. ~IsEmpty(g, b)
  <2> SUFFICES ASSUME IsEmpty(g, b) PROVE FALSE
    OBVIOUS
  <2>1. g.vecIns[b] = <<>> /\ Len(g.vecIns[b]) = 0
    BY DEF IsEmpty
  <2>2. pc = b
    BY <1>1, <2>1, AddrFacts DEF Settled
  <2> QED BY <1>1, <2>1, <2>2 DEF Settled
<1>4. (cBB' = s.blk /\ g' = s.graph /\ s.graph.fault # "none")
      \/ (cBB' = t.blk /\ g' = t.graph)
  BY <1>3 DEF Join, Become
<1>5. Flows(g, e, {}) /\ Awaits(g, e, b, pc)
  BY <1>1 DEF RunInv
<1>6. Ran(e, LastPc(g, b), pc)
  BY <1>1, <1>3, <1>5 DEF Awaits, IsEmpty
<1> HIDE DEF b
(* The open block ends just before pc.                                     *)
<1>7. LastPc(g, b) = Top(g, b) /\ pc = Top(g, b) + 1 /\ LastPc(g, b) \in Nat
  <2> DEFINE l == Len(g.vecIns[b])
  <2>1. l \in Nat /\ l > 0 /\ pc = b + l /\ Top(g, b) = b + l - 1
    BY <1>1, <1>3, LenFacts DEF IsEmpty, Settled, Top
  <2>2. LastPc(g, b) = Top(g, b)
    BY <1>1, <1>3, TopFacts DEF IsEmpty
  <2> HIDE DEF l
  <2> QED BY <1>2, <2>1, <2>2
<1>8. Sound(m) /\ Same(m, g)
  BY <1>1, <1>7, SetTermAddrSound
<1>9. /\ Linked(m) /\ SamePairs(m, g) /\ SameHeld(m, g) /\ m.bbMap = g.bbMap
      /\ Top(m, b) = Top(g, b)
  BY <1>1, <1>7, SetTermAddrPairs
<1>10. Flows(m, e, {b}) /\ m.succsMap[b] = {} /\ LastPc(m, b) = LastPc(g, b)
  BY <1>1, <1>3, <1>5, SetTermAddrFlow DEF IsEmpty
<1>11. Form(m, code, {b}, b)
  BY <1>1, <1>7, SetTermAddrForm, WiderForm
<1> HIDE DEF m
<1>12. Shut(m, b) /\ m.insMap[pc] # NoBlock /\ KeyOk(m, b, pc) /\ m \in Graph
  BY <1>1, <1>3, <1>8, <1>10 DEF Shut, Same, Settled, IsEmpty, Closed, KeyOk, Sound,
     WellFormed
<1>13. /\ Linked(s.graph) /\ SameHeld(s.graph, m) /\ Grown(s.graph, m, Top(m, b), pc)
       /\ Pair(s.graph, Top(m, b), pc)
            \/ (pc \in Extent(m, b) /\ pc \notin m.bbMap /\ pc \in s.graph.bbMap)
  BY <1>2, <1>7, <1>9, <1>12, GetNextBlockPairs
<1>14. pc \notin Extent(m, b)
  <2>1. Extent(m, b) = b .. Top(m, b) /\ Top(m, b) \in Int
    BY <1>1, <1>12, TopFacts
  <2> QED BY <1>2, <1>7, <1>9, <2>1
<1>15. Settled(s.graph, s.blk, pc) /\ s.graph.readOnly[s.blk]
  BY <1>2, <1>12, GetNextBlockSettled
<1>16. s.blk = pc
  <2>1. Successor(m, b, pc).blk = pc
    BY <1>2, <1>12, SuccessorLands DEF KeyOk
  <2> QED BY <2>1 DEF GetNextBlock
<1>17. Flows(s.graph, e, {})
  BY <1>2, <1>6, <1>10, <1>12, GetNextBlockFlow
<1>18. Straight(s.graph, code, {})
  BY <1>2, <1>11, GetNextBlockForm DEF Form
<1>19. g.bbMap \subseteq s.graph.bbMap
  <2>1. WellFormed(m) /\ b \in m.bbMap
    BY <1>12 DEF Shut, Sound
  <2> QED BY <1>2, <1>9, <2>1, GetNextBlockWF DEF Leads
<1> HIDE DEF s
<1>20. /\ Linked(t.graph) /\ SameHeld(t.graph, s.graph)
       /\ Widened(t.graph, t.blk, s.graph, pc, pc, npc)
       /\ (EndsBlock(code[pc]) => KeyFree(s.graph, npc)) =>
            Recorded(t.graph, t.blk, s.graph, pc, npc)
  BY <1>2, <1>13, <1>15, <1>16, <1>17, <1>18, TranslateClosedPairs
<1>21. s.graph.bbMap \subseteq t.graph.bbMap
  <2>1. WellFormed(s.graph) /\ s.blk \in s.graph.bbMap
    BY <1>15 DEF Settled, Sound
  <2> QED BY <1>2, <2>1, TranslateRiscvWF DEF Leads
<1>22. s.graph.fault = "none"
  BY <1>15 DEF Settled, Sound
<1> HIDE DEF t
<1>23. cBB' = t.blk /\ g' = t.graph
  BY <1>4, <1>22
(* Closing the block turns the step to pc into an edge.                    *)
<1>24. \A p, q \in Addr : Flowing(s.graph, pc, p, q) <=> Flowing(g, b, p, q)
  <2>1. \A p, q \in Addr : Flowing(s.graph, pc, p, q) <=> Pair(s.graph, p, q)
    BY <1>15, <1>16, ClosedFlowing
  <2>2. \A p, q \in Addr : Pair(s.graph, p, q) <=>
          Pair(g, p, q) \/ (p = Top(g, b) /\ q = pc)
    BY <1>2, <1>9, <1>13, <1>14 DEF Grown, SamePairs
  <2>3. \A p, q \in Addr : p = Top(g, b) /\ q = pc <=> p = Top(g, b) /\ q = p + 1
    BY <1>7
  <2> QED BY <1>1, <1>3, <2>1, <2>2, <2>3 DEF Flowing, IsEmpty
<1>25. Widened(t.graph, t.blk, g, b, pc, npc)
  BY <1>20, <1>24 DEF Widened
<1>26. HeldBut(t.graph, g, pc)
  BY <1>9, <1>13, <1>20 DEF HeldBut, SameHeld
<1>27. KeyFree(t.graph, npc) => KeyFree(s.graph, npc)
  BY <1>21 DEF KeyFree
<1>28. Recorded(t.graph, t.blk, s.graph, pc, npc) => Recorded(t.graph, t.blk, g, pc, npc)
  BY <1>19 DEF Recorded
<1> QED BY <1>1, <1>20, <1>23, <1>25, <1>26, <1>27, <1>28 DEF Advanced

LEMMA RecordAdvanced ==
  ASSUME ~Traps, NEW e, RunInv(e), Linked(g),
         NEW npc \in NextPcs(pc), Stay(npc) \/ Leave(npc) \/ Build(npc) \/ Join(npc)
  PROVE  Advanced(npc)
<1>1. CASE Stay(npc)
  BY <1>1, StayAdvanced
<1>2. CASE Leave(npc)
  BY <1>2, LeaveAdvanced
<1>3. CASE Build(npc)
  <2> DEFINE b == Resync
             t == TranslateRiscv(g, b, npc)
  <2>1. /\ ~g.readOnly[b] /\ g.insMap[pc] = NoBlock
        /\ cBB' = t.blk /\ g' = t.graph
    BY <1>3 DEF Build, Become, BbInBlock
  <2>2. Settled(g, b, pc) /\ Flows(g, e, {}) /\ b = cBB
    BY <2>1, ResyncSettled DEF RunInv, ReplayInv
  <2> HIDE DEF b
  <2>3. pc \in Addr /\ code \in [Addr -> Class]
    BY DEF RunInv, ReplayInv, GraphInv, TypeOK
  <2>4. /\ Linked(t.graph) /\ HeldBut(t.graph, g, pc)
        /\ Widened(t.graph, t.blk, g, b, pc, npc)
        /\ Recorded(t.graph, t.blk, g, pc, npc)
    BY <2>1, <2>2, <2>3, TranslateOpenPairs
  <2> HIDE DEF t
  <2> QED BY <2>1, <2>2, <2>4 DEF Advanced
<1>4. CASE Join(npc)
  BY <1>4, JoinAdvanced
<1> QED BY <1>1, <1>2, <1>3, <1>4

-----------------------------------------------------------------------------
(* The step from p to q is in the graph if it was taken, or it was a jump  *)
(* that was taken once and split a block there.                            *)
Met(p, q) ==
  \/ globalEdges[p][q] = 0
  \/ Flowing(g, cBB, p, q)
  \/ globalEdges[p][q] = 1 /\ q <= p /\ q \in g.bbMap

(* The inductive invariant. *)
CompleteInv == /\ LostInv
               /\ Linked(g)
               /\ KeysApart => \A p, q \in Addr : Met(p, q)

LEMMA EmptyPairs ==
  ASSUME Init
  PROVE  Linked(g) /\ \A p, q \in Addr : ~Flowing(g, cBB, p, q)
<1>1. /\ g.vecIns = [a \in Addr |-> <<>>] /\ g.readOnly = [a \in Addr |-> FALSE]
      /\ g.succs = [a \in Addr |-> {}] /\ g.succsMap = [a \in Addr |-> {}] /\ cBB \in Addr
      /\ g.vecIns[cBB] = <<>>
  BY DEF Init, Construct, EmptyGraph
<1>2. Linked(g)
  BY <1>1 DEF Linked, Mapped, Onward
<1>3. ASSUME NEW p \in Addr, NEW q \in Addr PROVE ~Flowing(g, cBB, p, q)
  <2>1. \A x \in Addr : x \in Nat /\ Len(g.vecIns[x]) = 0
    BY <1>1, AddrFacts
  <2>2. \A x \in Addr : ~Inner(g, x, p, q)
    BY <2>1, AddrFacts DEF Inner, Top
  <2>3. \A x \in Addr : ~Outer(g, x, p, q)
    BY <1>1 DEF Outer
  <2> QED BY <1>1, <2>2, <2>3 DEF Flowing, Pair
<1> QED BY <1>2, <1>3

LEMMA InitCompleteInv == Init => CompleteInv
<1> SUFFICES ASSUME Init PROVE CompleteInv
  OBVIOUS
<1>1. \A p, q \in Addr : globalEdges[p][q] = 0
  BY DEF Init
<1> QED BY <1>1, InitLostInv, EmptyPairs DEF CompleteInv, Met

LEMMA StepCompleteInv ==
  ASSUME ~Traps, EdgeCap > 0, CompleteInv, [Next]_vars
  PROVE  CompleteInv'
<1>1. LostInv'
  BY StepLostInv DEF CompleteInv
<1>2. ASSUME NEW npc \in NextPcs(pc), Step(npc)
      PROVE  CompleteInv'
  <2>1. npc \in Addr /\ pc' = npc /\ code' = code /\ pc \in Addr /\ TypeOK /\ GraphInv
    BY <1>2 DEF Step, NextPcs, CompleteInv, LostInv, EdgeInv, RunInv, ReplayInv,
       GraphInv, TypeOK
  <2>2. Advanced(npc)
    BY <1>2, RecordAdvanced DEF Step, CompleteInv, LostInv, EdgeInv
  <2>3. Linked(g)'
    BY <2>1, <2>2 DEF Advanced, Linked, Mapped, Onward, Goes, Top
  <2>4. g.bbMap \subseteq g'.bbMap
    BY <1>2, <2>1, RecordWF DEF Step, Leads
  <2>5. /\ \A p, q \in Addr : globalEdges[p][q] \in 0 .. EdgeCap
        /\ \A p, q \in Addr : (p # pc \/ q # npc) => globalEdges'[p][q] = globalEdges[p][q]
        /\ globalEdges[pc][npc] = 0 => globalEdges'[pc][npc] = 1
    <3>1. globalEdges \in [Addr -> [Addr -> 0 .. EdgeCap]]
      BY <2>1 DEF TypeOK
    <3>2. \A p, q \in Addr : globalEdges[p][q] \in 0 .. EdgeCap
      BY <3>1
    <3>3. \A p, q \in Addr : globalEdges'[p][q] =
            IF p = pc /\ q = npc
            THEN (IF globalEdges[p][q] < EdgeCap THEN globalEdges[p][q] + 1
                  ELSE globalEdges[p][q])
            ELSE globalEdges[p][q]
      BY <1>2, <2>1, <3>1 DEF Step, CountEdge
    <3> QED BY <2>1, <3>2, <3>3
  <2>6. ASSUME KeysApart', NEW p \in Addr, NEW q \in Addr PROVE Met(p, q)'
    <3>1. Met(p, q) /\ Recorded(g', cBB', g, pc, npc) /\ Met(pc, npc)
      BY <1>2, <2>1, <2>2, <2>6, KeysStay DEF CompleteInv, LostInv, Advanced
    <3>2. CASE p = pc /\ q = npc
      <4>1. CASE globalEdges[pc][npc] = 0
        BY <2>1, <2>5, <3>1, <3>2, <4>1 DEF Met, Recorded
      <4>2. CASE Flowing(g, cBB, pc, npc)
        <5>1. Flowing(g', cBB', pc, npc)
          BY <2>1, <2>2, <4>2 DEF Advanced, Widened
        <5> QED BY <3>2, <5>1 DEF Met
      <4>3. CASE npc \in g.bbMap
        <5>1. Flowing(g', cBB', pc, npc)
          BY <3>1, <4>3 DEF Recorded
        <5> QED BY <3>2, <5>1 DEF Met
      <4> QED BY <3>1, <4>1, <4>2, <4>3 DEF Met
    <3>3. CASE p # pc \/ q # npc
      <4>1. Flowing(g, cBB, p, q) => Flowing(g', cBB', p, q)
        BY <2>2 DEF Advanced, Widened
      <4>2. globalEdges'[p][q] = globalEdges[p][q]
        BY <2>5, <3>3
      <4> QED BY <2>4, <3>1, <4>1, <4>2 DEF Met
    <3> QED BY <3>2, <3>3
  <2> QED BY <1>1, <2>3, <2>6 DEF CompleteInv
<1>3. ASSUME UNCHANGED <<code, globalEdges, g, cBB>>
      PROVE  CompleteInv'
  <2>1. Linked(g)' /\ (KeysApart' => KeysApart)
    BY <1>3 DEF CompleteInv, Linked, Mapped, Onward, Goes, Top, KeysApart
  <2>2. \A p, q \in Addr : Met(p, q) => Met(p, q)'
    BY <1>3 DEF Met
  <2> QED BY <1>1, <2>1, <2>2 DEF CompleteInv
<1> QED BY <1>2, <1>3 DEF Next, EndTrace, vars

(* The open block and the next record are what InGraph adds to the table.  *)
LEMMA FlowingInGraph ==
  ASSUME ReplayInv, phase = "replay", NEW p \in Addr, NEW q \in Addr
  PROVE  InGraph(p, q) <=> Flowing(g, cBB, p, q)
<1>1. /\ g \in Graph /\ LaidOut(g) /\ cBB \in Addr /\ pc \in Addr
      /\ ~g.readOnly[cBB] => pc = cBB + Len(g.vecIns[cBB])
  BY DEF ReplayInv, GraphInv, TypeOK, Settled, Sound
<1>2. InTable(g, p, q) <=> Pair(g, p, q)
  BY <1>1, TablePair
<1>3. ASSUME ~g.readOnly[cBB], g.vecIns[cBB] # <<>>
      PROVE  LastPc(g, cBB) = p /\ pc = q <=> p = Top(g, cBB) /\ q = p + 1
  <2> DEFINE l == Len(g.vecIns[cBB])
  <2>1. l \in Nat /\ cBB \in Nat /\ pc = cBB + l /\ Top(g, cBB) = cBB + l - 1
    BY <1>1, <1>3, TopFacts DEF Top
  <2>2. LastPc(g, cBB) = Top(g, cBB)
    BY <1>1, <1>3, TopFacts
  <2> HIDE DEF l
  <2> QED BY <2>1, <2>2
<1> QED BY <1>2, <1>3 DEF InGraph, Flowing, IsEmpty

(* Nothing that was executed is missing from the graph, as long as no      *)
(* jump's target shares its succsMap key with another block: only a jump   *)
(* back into the block it ends is recorded the second time.                *)
THEOREM EdgesAreComplete == ASSUME ~Traps PROVE Spec => []EdgesComplete
<1>1. CASE EdgeCap = 0
  <2>1. TypeOK => EdgesComplete
    <3> SUFFICES ASSUME TypeOK, NEW p \in Addr, NEW q \in Addr,
                        globalEdges[p][q] >= (IF q > p THEN 1 ELSE 2)
                 PROVE  FALSE
      BY DEF EdgesComplete
    <3>1. globalEdges[p][q] \in 0 .. 0
      BY <1>1 DEF TypeOK
    <3> QED BY <3>1
  <2> QED BY <2>1, TypeCorrect, PTL
<1>2. CASE EdgeCap > 0
  <2>1. CompleteInv => EdgesComplete
    <3> SUFFICES ASSUME CompleteInv, phase = "replay", KeysApart, NEW p \in Addr, NEW q \in Addr,
                        globalEdges[p][q] >= (IF q > p THEN 1 ELSE 2)
                 PROVE  InGraph(p, q)
      BY DEF EdgesComplete
    <3>1. p \in Nat /\ q \in Nat /\ Met(p, q)
      BY AddrFacts DEF CompleteInv
    <3>2. Flowing(g, cBB, p, q)
      BY <3>1 DEF Met
    <3> QED BY <3>2, FlowingInGraph DEF CompleteInv, LostInv, EdgeInv, RunInv
  <2>2. CompleteInv /\ [Next]_vars => CompleteInv'
    BY <1>2, StepCompleteInv
  <2> QED BY <2>1, <2>2, InitCompleteInv, PTL DEF Spec
<1> QED BY <1>1, <1>2, EdgeCapAssumption
-----------------------------------------------------------------------------
(* The refinement: replay, clean-up and merging implement ExecutedFlow,    *)
(* when the 32-bit keys of succsMap tell the trace's addresses apart.      *)
Flowed == {e \in Addr \X Addr : InGraph(e[1], e[2])}
Seen   == {a \in Addr : BbInBlock(g, a) # NoBlock}

(* insMap owns every instruction of a block. *)
Held(h) == \A x \in h.bbMap : \A i \in 1 .. Len(h.vecIns[x]) :
             h.insMap[h.vecIns[x][i]] # NoBlock

(* Only the block at the record that was not translated may be empty.      *)
Trimmed(h, p) == \A x \in h.bbMap : h.vecIns[x] = <<>> => x = p /\ h.insMap[p] = NoBlock

(* The inductive invariant. *)
FlowInv ==
  /\ TrailInv
  /\ phase = "replay" => PlainNext(g, {}) /\ Linked(g) /\ Entered(g, cBB, pc)
  /\ phase = "clean" => LaidOut(g) /\ Trimmed(g, pc)
  /\ phase \in {"merge", "region"} => Held(g)

LEMMA InitFlowInv == ASSUME ~Traps, Init PROVE FlowInv
<1>1. TrailInv /\ Linked(g)
  BY InitTrailInv, EmptyPairs
<1>2. PlainNext(g, {}) /\ Entered(g, cBB, pc)
  <2>1. /\ g.readOnly = [a \in Addr |-> FALSE] /\ g.bbMap = {pc} /\ pc \in Addr /\ cBB = pc
    BY DEF Init, Construct, EmptyGraph
  <2> QED BY <2>1 DEF PlainNext, Entered
<1> QED BY <1>1, <1>2 DEF FlowInv, Init

(* InGraph is Flowing, as a set. *)
FlowedIsFlowing ==
  ReplayInv /\ phase = "replay" =>
    \A e \in Addr \X Addr : e \in Flowed <=> Flowing(g, cBB, e[1], e[2])

LEMMA ReplayFlowed == FlowedIsFlowing
BY FlowingInGraph DEF FlowedIsFlowing, Flowed

(* One record is one observation. *)
Observed(q) ==
  /\ phase = "replay" /\ phase' = "replay" /\ pc' = q
  /\ \/ Flowed' = Flowed \cup {<<pc, q>>}
     \/ q <= pc /\ Flowed' = Flowed
  /\ Seen' = Seen \cup {pc}

LEMMA StepObserves ==
  ASSUME ~Traps, DistinctKeys, FlowInv, NEW npc \in NextPcs(pc), Step(npc)
  PROVE  FlowInv' /\ Observed(npc)
<1>1. /\ phase = "replay" /\ phase' = "replay" /\ pc' = npc /\ code' = code
      /\ PathInv /\ PlainNext(g, {}) /\ Linked(g) /\ Entered(g, cBB, pc)
  BY DEF Step, Running, FlowInv, TrailInv
<1>2. pc \in Addr /\ npc \in Addr /\ pc \in Slot
  BY <1>1, AddrFacts DEF NextPcs, PathInv, RunInv, ReplayInv, GraphInv, TypeOK
<1>3. TrailInv' /\ PathInv'
  <2>1. TrailInv'
    BY <1>1, ReplayTrail DEF FlowInv, Next
  <2> QED BY <1>1, <2>1 DEF TrailInv
<1>4. Advanced(npc) /\ Passed(npc)
  BY <1>1, RecordAdvanced, RecordPassed DEF Step, PathInv
<1>5. KeyFree(g', npc)
  <2>1. g'.bbMap \subseteq Addr
    BY <1>3 DEF PathInv, RunInv, ReplayInv, GraphInv, WellFormed, Graph
  <2> QED BY <1>2, <2>1 DEF DistinctKeys, KeyFree
<1>6. FlowInv'
  <2>1. Entered(g', cBB', pc')
    BY <1>1, <1>4, <1>5 DEF Passed
  <2>2. PlainNext(g, {})'
    BY <1>1, <1>4 DEF Passed, PlainNext
  <2>3. Linked(g)'
    BY <1>1, <1>4 DEF Advanced, Linked, Mapped, Onward, Goes, Top
  <2> QED BY <1>1, <1>3, <2>1, <2>2, <2>3 DEF FlowInv
<1>7. Recorded(g', cBB', g, pc, npc)
  BY <1>1, <1>4, <1>5 DEF Advanced
<1>8. /\ \A e \in Addr \X Addr : e \in Flowed <=> Flowing(g, cBB, e[1], e[2])
      /\ \A e \in Addr \X Addr : e \in Flowed' <=> Flowing(g', cBB', e[1], e[2])
  <2>1. ReplayInv /\ ReplayInv'
    BY <1>1, <1>3 DEF PathInv, RunInv
  <2>2. FlowedIsFlowing'
    BY ReplayFlowed, PTL
  <2> QED BY <1>1, <2>1, <2>2, ReplayFlowed DEF FlowedIsFlowing
<1>9. Flowed' = Flowed \cup {<<pc, npc>>} \/ (npc <= pc /\ Flowed' = Flowed)
  <2>1. Flowed \subseteq Addr \X Addr /\ Flowed' \subseteq Addr \X Addr
    BY DEF Flowed
  <2>2. \A e \in Addr \X Addr :
          /\ e \in Flowed => e \in Flowed'
          /\ e \in Flowed' => e \in Flowed \/ e = <<pc, npc>>
    BY <1>4, <1>8 DEF Advanced, Widened
  <2>3. CASE Flowing(g', cBB', pc, npc)
    <3>1. <<pc, npc>> \in Flowed'
      BY <1>2, <1>8, <2>3
    <3> QED BY <1>2, <2>1, <2>2, <3>1
  <2>4. CASE ~Flowing(g', cBB', pc, npc)
    <3>1. <<pc, npc>> \notin Flowed'
      BY <1>2, <1>8, <2>4
    <3>2. Flowed' = Flowed
      BY <2>1, <2>2, <3>1
    <3> QED BY <1>7, <2>4, <3>2 DEF Recorded
  <2> QED BY <2>3, <2>4
<1>10. Seen' = Seen \cup {pc}
  <2>1. \A s \in Slot \ {pc} : g'.insMap[s] = NoBlock <=> g.insMap[s] = NoBlock
    BY <1>4 DEF Advanced, HeldBut
  <2>2. g'.insMap[pc] # NoBlock
    BY <1>1, <1>4, <1>5 DEF Passed
  <2> QED BY <1>2, <2>1, <2>2, AddrFacts DEF Seen, BbInBlock
<1> QED BY <1>1, <1>6, <1>9, <1>10 DEF Observed
(* The trace ends: the open block stands for one step less. *)
LEMMA EndEnds ==
  ASSUME ~Traps, FlowInv, EndTrace
  PROVE  /\ FlowInv'
         /\ phase = "replay" /\ phase' = "clean" /\ UNCHANGED <<pc, Seen>>
         /\ \/ Flowed' = Flowed
            \/ \E p \in Addr : Flowed' = Flowed \ {<<p, pc>>}
<1>1. /\ phase = "replay" /\ phase' = "clean" /\ UNCHANGED <<code, pc, globalEdges, g, cBB>>
      /\ PathInv /\ LaidOut(g) /\ g \in Graph /\ Settled(g, cBB, pc) /\ cBB \in Addr
      /\ pc \in Addr
  BY DEF EndTrace, Running, FlowInv, TrailInv, PathInv, RunInv, ReplayInv, Settled, Sound,
     GraphInv, TypeOK
<1>2. UNCHANGED Seen
  BY <1>1 DEF Seen
<1>3. Trimmed(g, pc)
  <2> SUFFICES ASSUME NEW x \in g.bbMap, g.vecIns[x] = <<>>
               PROVE  x = pc /\ g.insMap[pc] = NoBlock
    BY DEF Trimmed
  <2>1. x = cBB /\ ~g.readOnly[cBB]
    BY <1>1 DEF Settled, Closed
  <2>2. Len(g.vecIns[cBB]) = 0 /\ cBB \in Nat
    BY <1>1, <2>1, AddrFacts
  <2> QED BY <1>1, <2>1, <2>2 DEF Settled
<1>4. FlowInv'
  <2>1. TrailInv'
    BY <1>1, ReplayTrail DEF FlowInv, Next
  <2> QED BY <1>1, <1>3, <2>1 DEF FlowInv
<1>5. \A e \in Addr \X Addr : e \in Flowed' <=> InTable(g, e[1], e[2])
  BY <1>1 DEF Flowed, InGraph, InTable, IsEmpty, LastPc
<1>6. \A e \in Addr \X Addr :
        e \in Flowed <=> \/ InTable(g, e[1], e[2])
                         \/ /\ ~g.readOnly[cBB] /\ ~IsEmpty(g, cBB)
                            /\ e[1] = LastPc(g, cBB) /\ e[2] = pc
  BY <1>1 DEF Flowed, InGraph
<1>7. Flowed \subseteq Addr \X Addr /\ Flowed' \subseteq Addr \X Addr
  BY DEF Flowed
<1>8. Flowed' = Flowed \/ \E p \in Addr : Flowed' = Flowed \ {<<p, pc>>}
  <2>1. CASE g.readOnly[cBB] \/ IsEmpty(g, cBB)
    BY <1>5, <1>6, <1>7, <2>1
  <2>2. CASE ~g.readOnly[cBB] /\ ~IsEmpty(g, cBB)
    <3> DEFINE p == LastPc(g, cBB)
    <3>1. p \in Addr
      <4>1. Len(g.vecIns[cBB]) \in 1 .. Len(g.vecIns[cBB])
        BY <1>1, <2>2, LenFacts DEF IsEmpty
      <4> QED BY <1>1, <4>1, Length DEF LastPc
    <3> HIDE DEF p
    <3>2. \A e \in Addr \X Addr :
            e \in Flowed <=> InTable(g, e[1], e[2]) \/ e = <<p, pc>>
      BY <1>6, <2>2 DEF p
    <3>3. CASE InTable(g, p, pc)
      <4>1. \A e \in Addr \X Addr : e \in Flowed <=> InTable(g, e[1], e[2])
        BY <3>2, <3>3
      <4> QED BY <1>5, <1>7, <4>1
    <3>4. CASE ~InTable(g, p, pc)
      <4>1. \A e \in Addr \X Addr : InTable(g, e[1], e[2]) => e # <<p, pc>>
        BY <3>4
      <4>2. Flowed' = Flowed \ {<<p, pc>>}
        BY <1>5, <1>7, <3>2, <4>1
      <4> QED BY <3>1, <4>2
    <3> QED BY <3>3, <3>4
  <2> QED BY <2>1, <2>2
<1> QED BY <1>1, <1>2, <1>4, <1>8

(* Deleting the block the trace ended on forgets the edges to it. *)
LEMMA RemoveEmptyTable ==
  ASSUME NEW h \in Graph, LaidOut(h), Sym(h), NEW b \in h.bbMap, h.vecIns[b] = <<>>,
         h.insMap[b] = NoBlock, h.succs[b] = {}, NEW n, n = RemoveEmpty(h, b)
  PROVE  /\ LaidOut(n)
         /\ \A p, q \in Addr : InTable(n, p, q) <=> InTable(h, p, q) /\ q # b
<1>1. b \in Addr /\ h.bbMap \subseteq Addr
  BY DEF Graph
<1>2. Emptied(n, h, b)
  BY <1>1, RemoveEmptyFields
<1>3. /\ n \in Graph /\ n.bbMap = h.bbMap \ {b} /\ n.insMap = h.insMap
      /\ \A x \in Addr : /\ n.vecIns[x] = h.vecIns[x] /\ n.succs[x] = h.succs[x] \ {b}
                         /\ Top(n, x) = Top(h, x) /\ Extent(n, x) = Extent(h, x)
      /\ \A x \in Addr : n.readOnly[x] => h.readOnly[x]
      /\ ~n.readOnly[b]
  BY <1>1, <1>2 DEF Emptied, Graph, Top, Extent
<1>4. LaidOut(n)
  BY <1>1, <1>3 DEF LaidOut
<1>5. ASSUME NEW x \in Addr, NEW p \in Addr PROVE ~Inner(h, x, p, b)
  <2> SUFFICES ASSUME Inner(h, x, p, b) PROVE FALSE
    OBVIOUS
  <2>1. p \in Nat /\ x \in Nat /\ Top(h, x) \in Int /\ Extent(h, x) = x .. Top(h, x)
    BY AddrFacts, TopFacts
  <2>2. b \in Extent(h, x)
    BY <2>1 DEF Inner
  <2>3. h.insMap[b] = x
    BY <1>1, <2>2, AddrFacts DEF LaidOut
  <2> QED BY <2>3, AddrFacts
<1>6. ASSUME NEW p \in Addr, NEW q \in Addr
      PROVE  Pair(n, p, q) <=> Pair(h, p, q) /\ q # b
  <2>1. \A x \in Addr : /\ Inner(n, x, p, q) <=> Inner(h, x, p, q)
                        /\ Outer(n, x, p, q) <=> Outer(h, x, p, q) /\ q # b
    BY <1>3 DEF Inner, Outer
  <2> QED BY <1>5, <2>1 DEF Pair
<1> QED BY <1>3, <1>4, <1>6, TablePair

LEMMA CleanForgets ==
  ASSUME ~Traps, FlowInv, NEW b \in Empties, Alive("clean"), Change(RemoveEmpty(g, b))
  PROVE  /\ FlowInv'
         /\ phase # "replay" /\ pc \notin Seen /\ Flowed' = Flowed \ (Addr \X {pc})
         /\ UNCHANGED <<pc, Seen, phase>>
<1>1. /\ g \in Graph /\ b \in g.bbMap /\ b \in Addr /\ Sym(g) /\ g.vecIns[b] = <<>>
      /\ g' = RemoveEmpty(g, b) /\ phase' = phase /\ phase = "clean" /\ pc' = pc
      /\ code' = code /\ Ready(g) /\ LaidOut(g) /\ Trimmed(g, pc) /\ TrailInv
  BY DEF FlowInv, TrailInv, SpanInv, TypeOK, Graph, Empties, IsEmpty, Change, Alive
<1>2. g.succs[b] = {} /\ b = pc /\ g.insMap[pc] = NoBlock
  BY <1>1 DEF Ready, Trimmed
<1>3. /\ LaidOut(g')
      /\ \A p, q \in Addr : InTable(g', p, q) <=> InTable(g, p, q) /\ q # b
  BY <1>1, <1>2, RemoveEmptyTable
<1>4. /\ g'.insMap = g.insMap /\ g'.bbMap \subseteq g.bbMap
      /\ \A x \in g'.bbMap : x # b /\ g'.vecIns[x] = g.vecIns[x]
  <2>1. Emptied(g', g, b)
    BY <1>1, <1>2, RemoveEmptyFields
  <2> QED BY <1>1, <2>1 DEF Emptied, Graph
<1>5. Trimmed(g', pc)
  BY <1>1, <1>2, <1>4 DEF Trimmed
<1>6. FlowInv'
  <2>1. TrailInv'
    BY <1>1, CleanTrail
  <2>2. LaidOut(g)' /\ Trimmed(g, pc)'
    BY <1>1, <1>3, <1>5
  <2> QED BY <1>1, <2>1, <2>2 DEF FlowInv
<1>7. UNCHANGED Seen /\ pc \notin Seen
  BY <1>2, <1>4 DEF Seen, BbInBlock
<1>8. Flowed' = Flowed \ (Addr \X {pc})
  <2>1. \A e \in Addr \X Addr : /\ e \in Flowed <=> InTable(g, e[1], e[2])
                                /\ e \in Flowed' <=> InTable(g', e[1], e[2])
    BY <1>1 DEF Flowed, InGraph
  <2>2. Flowed \subseteq Addr \X Addr /\ Flowed' \subseteq Addr \X Addr
    BY DEF Flowed
  <2>3. \A e \in Addr \X Addr : e \in Flowed' <=> e \in Flowed /\ e[2] # pc
    <3>1. \A e \in Addr \X Addr : e[1] \in Addr /\ e[2] \in Addr
      OBVIOUS
    <3>2. \A e \in Addr \X Addr :
            InTable(g', e[1], e[2]) <=> InTable(g, e[1], e[2]) /\ e[2] # pc
      BY <1>2, <1>3, <3>1
    <3> QED BY <2>1, <3>2
  <2>4. \A e \in Addr \X Addr : e \in Addr \X {pc} <=> e[2] = pc
    OBVIOUS
  <2> QED BY <2>2, <2>3, <2>4
<1> QED BY <1>1, <1>6, <1>7, <1>8
-----------------------------------------------------------------------------
(* p is followed by q in u. *)
Follows(u, p, q) == \E i \in 1 .. Len(u) - 1 : u[i] = p /\ u[i + 1] = q

LEMMA JoinFollows ==
  ASSUME NEW s \in Seq(Addr), NEW t \in Seq(Addr), s # <<>>, t # <<>>, NEW u, u = s \o t,
         NEW p, NEW q
  PROVE  Follows(u, p, q) <=> \/ Follows(s, p, q) \/ Follows(t, p, q)
                              \/ p = s[Len(s)] /\ q = t[1]
<1> DEFINE l == Len(s)
           m == Len(t)
<1>1. /\ l \in Nat /\ m \in Nat /\ Len(u) = l + m /\ l > 0 /\ m > 0
      /\ \A i \in 1 .. l : u[i] = s[i]
      /\ \A i \in 1 .. m : u[l + i] = t[i]
  OBVIOUS
<1>2. ASSUME Follows(u, p, q)
      PROVE  Follows(s, p, q) \/ Follows(t, p, q) \/ (p = s[l] /\ q = t[1])
  <2>1. PICK i \in 1 .. Len(u) - 1 : u[i] = p /\ u[i + 1] = q
    BY <1>2 DEF Follows
  <2>2. Neighbours(u, i, s, t)
    BY JoinPairs
  <2> QED BY <2>1, <2>2 DEF Neighbours, Follows
<1> HIDE DEF l, m
<1>3. ASSUME NEW i \in 1 .. l - 1 PROVE i \in 1 .. Len(u) - 1 /\ u[i] = s[i] /\ u[i + 1] = s[i + 1]
  <2>1. i \in 1 .. l /\ i + 1 \in 1 .. l /\ i \in 1 .. Len(u) - 1
    BY <1>1
  <2> QED BY <1>1, <2>1
<1>4. ASSUME NEW i \in 1 .. m - 1
      PROVE  l + i \in 1 .. Len(u) - 1 /\ u[l + i] = t[i] /\ u[(l + i) + 1] = t[i + 1]
  <2>1. i \in 1 .. m /\ i + 1 \in 1 .. m /\ l + i \in 1 .. Len(u) - 1
        /\ (l + i) + 1 = l + (i + 1)
    BY <1>1
  <2> QED BY <1>1, <2>1
<1>5. l \in 1 .. Len(u) - 1 /\ u[l] = s[l] /\ u[l + 1] = t[1]
  <2>1. l \in 1 .. l /\ 1 \in 1 .. m /\ l \in 1 .. Len(u) - 1
    BY <1>1
  <2> QED BY <1>1, <2>1
<1>6. Follows(s, p, q) => Follows(u, p, q)
  BY <1>3 DEF Follows, l
<1>7. Follows(t, p, q) => Follows(u, p, q)
  BY ZenonT(30), <1>4 DEF Follows, m
<1>8. p = s[l] /\ q = t[1] => Follows(u, p, q)
  BY <1>5 DEF Follows
<1> QED BY <1>2, <1>6, <1>7, <1>8 DEF l

(* InTable, block by block. *)
Stands(h, x, p, q) ==
  \/ Follows(h.vecIns[x], p, q)
  \/ h.vecIns[x] # <<>> /\ LastPc(h, x) = p /\ q \in h.succs[x]

LEMMA TableStands ==
  ASSUME NEW h, NEW p, NEW q
  PROVE  InTable(h, p, q) <=> \E x \in h.bbMap : Stands(h, x, p, q)
BY DEF InTable, Stands, Follows, IsEmpty

(* The merged block stands for the steps of the two. *)
LEMMA MergeTable ==
  ASSUME NEW h \in Graph, Sym(h), NEW b \in h.bbMap, NEW c \in h.bbMap, b # c,
         Chained(h, b, c), h.vecIns[b] # <<>>, h.vecIns[c] # <<>>, h.vecIns[c][1] = c,
         NEW n, n = MergeWithSucc(h, b, c)
  PROVE  \A p, q \in Addr : InTable(n, p, q) <=> InTable(h, p, q)
<1>1. b \in Addr /\ c \in Addr /\ h.bbMap \subseteq Addr
      /\ h.vecIns[b] \in Seq(Addr) /\ h.vecIns[c] \in Seq(Addr) /\ h.succs[b] = {c}
  BY DEF Graph, Chained
<1>2. Fused(n, h, b, c)
  BY <1>1, MergeFields
<1>3. /\ n.bbMap = h.bbMap \ {c}
      /\ n.vecIns[b] = h.vecIns[b] \o h.vecIns[c] /\ n.succs[b] = h.succs[c]
      /\ \A x \in n.bbMap \ {b} : n.vecIns[x] = h.vecIns[x] /\ n.succs[x] = h.succs[x]
  BY <1>1, <1>2 DEF Fused
<1> SUFFICES ASSUME NEW p \in Addr, NEW q \in Addr
             PROVE  InTable(n, p, q) <=> InTable(h, p, q)
  OBVIOUS
<1>4. \A x \in n.bbMap \ {b} : Stands(n, x, p, q) <=> Stands(h, x, p, q)
  BY <1>3 DEF Stands, LastPc
<1>5. Stands(n, b, p, q) <=> Stands(h, b, p, q) \/ Stands(h, c, p, q)
  <2> DEFINE u == n.vecIns[b]
             s == h.vecIns[b]
             t == h.vecIns[c]
  <2>1. u = s \o t /\ s \in Seq(Addr) /\ t \in Seq(Addr) /\ s # <<>> /\ t # <<>>
    BY <1>1, <1>3
  <2>2. LastPc(n, b) = u[Len(u)] /\ LastPc(h, b) = s[Len(s)] /\ LastPc(h, c) = t[Len(t)]
        /\ t[1] = c
    BY DEF LastPc
  <2>3. Stands(n, b, p, q) <=> Follows(u, p, q) \/ (u # <<>> /\ LastPc(n, b) = p /\ q \in h.succs[c])
    BY <1>3 DEF Stands
  <2>4. Stands(h, b, p, q) <=> Follows(s, p, q) \/ (LastPc(h, b) = p /\ q = c)
    BY <1>1 DEF Stands
  <2>5. Stands(h, c, p, q) <=> Follows(t, p, q) \/ (LastPc(h, c) = p /\ q \in h.succs[c])
    BY DEF Stands
  <2> HIDE DEF u, s, t
  <2>6. u # <<>> /\ u[Len(u)] = t[Len(t)]
    BY <2>1, JoinEnds
  <2>7. Follows(u, p, q) <=> Follows(s, p, q) \/ Follows(t, p, q) \/ (p = s[Len(s)] /\ q = t[1])
    BY <2>1, JoinFollows
  <2> QED BY <2>2, <2>3, <2>4, <2>5, <2>6, <2>7
<1>6. (\E x \in n.bbMap : Stands(n, x, p, q)) <=> (\E x \in h.bbMap : Stands(h, x, p, q))
  BY <1>3, <1>4, <1>5
<1> QED BY <1>6, TableStands

LEMMA MergeHeld ==
  ASSUME NEW h \in Graph, Held(h), NEW b \in h.bbMap, NEW c \in h.bbMap, b # c,
         NEW n, n = MergeWithSucc(h, b, c)
  PROVE  Held(n) /\ SameHeld(n, h)
<1>1. b \in Addr /\ c \in Addr /\ h.bbMap \subseteq Addr /\ b # NoBlock
      /\ h.vecIns[b] \in Seq(Addr) /\ h.vecIns[c] \in Seq(Addr)
  BY AddrFacts DEF Graph
<1>2. Fused(n, h, b, c)
  BY <1>1, MergeFields
<1>3. SameHeld(n, h)
  <2> SUFFICES ASSUME NEW s \in Slot PROVE n.insMap[s] = NoBlock <=> h.insMap[s] = NoBlock
    BY DEF SameHeld
  <2>1. n.insMap[s] = IF s \in Insns(h, c) THEN b ELSE h.insMap[s]
    BY <1>2 DEF Fused, MergedInsMap
  <2>2. s \in Insns(h, c) => h.insMap[s] # NoBlock
    BY DEF Insns, Held
  <2> QED BY <1>1, <2>1, <2>2
<1>4. ASSUME NEW x \in n.bbMap, NEW i \in 1 .. Len(n.vecIns[x])
      PROVE  n.insMap[n.vecIns[x][i]] # NoBlock
  <2>1. n.vecIns[x][i] \in Addr /\ n.vecIns[x][i] \in Slot
    <3>1. n \in Graph /\ x \in Addr
      BY <1>1, <1>2 DEF Fused
    <3>2. n.vecIns[x] \in Seq(Addr)
      BY <3>1 DEF Graph
    <3>3. n.vecIns[x][i] \in Addr
      BY <3>2, Length
    <3> QED BY <3>3, AddrFacts
  <2>2. h.insMap[n.vecIns[x][i]] # NoBlock
    <3>1. CASE x = b
      <4> DEFINE u == n.vecIns[b]
                 s == h.vecIns[b]
                 t == h.vecIns[c]
      <4>1. u = s \o t /\ s \in Seq(Addr) /\ t \in Seq(Addr) /\ i \in 1 .. Len(u)
        BY <1>1, <1>2, <3>1 DEF Fused
      <4>2. /\ \A k \in 1 .. Len(s) : h.insMap[s[k]] # NoBlock
            /\ \A k \in 1 .. Len(t) : h.insMap[t[k]] # NoBlock
        BY DEF Held
      <4> HIDE DEF u, s, t
      <4>3. (i \in 1 .. Len(s) /\ u[i] = s[i]) \/ (i - Len(s) \in 1 .. Len(t) /\ u[i] = t[i - Len(s)])
        BY <4>1
      <4>4. h.insMap[u[i]] # NoBlock
        BY <4>2, <4>3
      <4> QED BY <3>1, <4>4 DEF u
    <3>2. CASE x # b
      <4>1. x \in h.bbMap /\ n.vecIns[x] = h.vecIns[x]
        BY <1>1, <1>2, <3>2 DEF Fused
      <4> QED BY <4>1 DEF Held
    <3> QED BY <3>1, <3>2
  <2> QED BY <1>3, <2>1, <2>2 DEF SameHeld
<1> QED BY <1>3, <1>4 DEF Held
Unseen == UNCHANGED <<pc, Flowed, Seen, phase = "replay">>

LEMMA MergeUnseen ==
  ASSUME ~Traps, FlowInv, NEW b \in Mergables, NEW c \in g.succs[b], Alive("merge"),
         Change(MergeWithSucc(g, b, c))
  PROVE  FlowInv' /\ Unseen
<1>1. /\ g \in Graph /\ Sym(g) /\ b \in g.bbMap /\ MergableWithSucc(g, b)
      /\ g' = MergeWithSucc(g, b, c) /\ phase' = phase /\ phase = "merge" /\ pc' = pc
      /\ Ready(g) /\ Held(g) /\ TrailInv
      /\ \A x \in g.bbMap : g.vecIns[x] # <<>>
  BY DEF FlowInv, TrailInv, SpanInv, TypeOK, Mergables, Change, Alive
<1>2. Chained(g, b, c) /\ c \in g.bbMap /\ c \in Addr /\ b \in Addr
  BY <1>1, MergableChained
<1>3. TrailInv'
  BY <1>1, MergeTrail
<1>4. /\ Held(g') /\ SameHeld(g', g)
      /\ \A p, q \in Addr : InTable(g', p, q) <=> InTable(g, p, q)
  <2>1. CASE b = c
    <3>1. g' = Abort(g, "selfMerge")
      BY <1>1, <2>1 DEF MergeWithSucc
    <3>2. g'.succs = g.succs /\ g'.vecIns = g.vecIns /\ g'.bbMap = g.bbMap /\ g'.insMap = g.insMap
      BY <1>1, <3>1 DEF Abort, Graph
    <3> QED BY <1>1, <3>2 DEF Held, SameHeld, InTable, IsEmpty, LastPc
  <2>2. CASE b # c
    <3>1. g.vecIns[b] # <<>> /\ g.vecIns[c] # <<>> /\ g.vecIns[c][1] = c
      BY <1>1, <1>2 DEF Ready
    <3> QED BY <1>1, <1>2, <2>2, <3>1, MergeTable, MergeHeld
  <2> QED BY <2>1, <2>2
<1>5. FlowInv'
  BY <1>1, <1>3, <1>4 DEF FlowInv
<1>6. UNCHANGED Seen
  <2>1. \A a \in Addr : a \in Slot
    BY AddrFacts
  <2> QED BY <1>4, <2>1 DEF Seen, SameHeld, BbInBlock
<1>7. UNCHANGED Flowed
  <2>1. \A e \in Addr \X Addr : e[1] \in Addr /\ e[2] \in Addr
    OBVIOUS
  <2>2. \A e \in Addr \X Addr : /\ e \in Flowed <=> InTable(g, e[1], e[2])
                                /\ e \in Flowed' <=> InTable(g', e[1], e[2])
    BY <1>1 DEF Flowed, InGraph
  <2>3. Flowed \subseteq Addr \X Addr /\ Flowed' \subseteq Addr \X Addr
    BY DEF Flowed
  <2>4. \A e \in Addr \X Addr : e \in Flowed' <=> e \in Flowed
    BY <1>4, <2>1, <2>2
  <2> QED BY <2>3, <2>4
<1> QED BY <1>1, <1>5, <1>6, <1>7 DEF Unseen

LEMMA RestUnseen ==
  ASSUME ~Traps, FlowInv, EndClean \/ EndMerge \/ UNCHANGED vars
  PROVE  FlowInv' /\ Unseen
<1>1. UNCHANGED <<code, pc, g, cBB>>
      /\ (phase' = phase \/ (phase \in {"clean", "merge"} /\ phase' \in {"merge", "region"}))
  BY DEF EndClean, EndMerge, Continue, Alive, vars
<1>2. TrailInv'
  BY StepTrailInv DEF FlowInv, MainNext
<1>3. CASE EndClean
  <2>1. phase = "clean" /\ LaidOut(g) /\ g \in Graph
    BY <1>3 DEF EndClean, Alive, FlowInv, TrailInv, SpanInv, TypeOK
  <2>2. Held(g)
    <3> SUFFICES ASSUME NEW x \in g.bbMap, NEW i \in 1 .. Len(g.vecIns[x])
                 PROVE  g.insMap[g.vecIns[x][i]] # NoBlock
      BY DEF Held
    <3>1. x \in Addr /\ x \in Nat /\ g.vecIns[x][i] \in Addr /\ Len(g.vecIns[x]) \in Nat
      BY <2>1, AddrFacts, Length DEF Graph
    <3>2. g.vecIns[x][i] = x + i - 1
      BY <2>1, <3>1 DEF LaidOut
    <3>3. g.vecIns[x][i] \in Extent(g, x)
      BY SMTT(30), <3>1, <3>2 DEF Extent
    <3> QED BY <2>1, <3>1, <3>3, AddrFacts DEF LaidOut
  <2>3. phase' \in {"merge", "region"}
    BY <1>3 DEF EndClean, Continue
  <2>4. Held(g)'
    BY <1>1, <2>2 DEF Held
  <2>5. FlowInv'
    BY <1>2, <2>3, <2>4 DEF FlowInv
  <2>6. (phase = "replay")' = (phase = "replay")
    BY <2>1, <2>3
  <2>7. UNCHANGED Flowed /\ UNCHANGED Seen
    BY <1>1, <2>1, <2>3 DEF Flowed, InGraph, Seen
  <2> QED BY <1>1, <2>5, <2>6, <2>7 DEF Unseen
<1>4. CASE EndMerge
  <2>1. phase = "merge" /\ phase' = "region"
    BY <1>4 DEF EndMerge, Alive, Continue
  <2>2. FlowInv'
    BY <1>1, <1>2, <2>1 DEF FlowInv
  <2>3. UNCHANGED Flowed /\ UNCHANGED Seen
    BY <1>1, <2>1 DEF Flowed, InGraph, Seen
  <2> QED BY <1>1, <2>1, <2>2, <2>3 DEF Unseen
<1>5. CASE UNCHANGED vars
  <2>1. phase' = phase
    BY <1>5 DEF vars
  <2>2. FlowInv'
    BY <1>1, <1>2, <2>1 DEF FlowInv, PlainNext, Linked, Mapped, Onward, Goes, Top
  <2>3. UNCHANGED Flowed /\ UNCHANGED Seen
    BY <1>1, <2>1 DEF Flowed, InGraph, Seen
  <2> QED BY <1>1, <2>1, <2>2, <2>3 DEF Unseen
<1> QED BY <1>3, <1>4, <1>5

(* Replaying the trace, deleting the empty block and merging blocks        *)
(* implement ExecutedFlow: the pairs of instructions the graph connects    *)
(* are those that were executed one after the other, through every split   *)
(* and every merge.                                                        *)
THEOREM GraphImplementsFlow == ASSUME ~Traps, DistinctKeys PROVE MainSpec => FlowSpec
<1>1. Init => FlowInv
  BY InitFlowInv
<1>2. Init => Flow!Init
  <2> SUFFICES ASSUME Init PROVE Flow!Init
    OBVIOUS
  <2>1. pc \in Addr /\ phase = "replay" /\ ReplayInv
    BY InitReplayInv DEF Init
  <2>2. Flowed = {}
    <3>1. \A e \in Addr \X Addr : ~Flowing(g, cBB, e[1], e[2])
      BY EmptyPairs
    <3> QED BY <2>1, <3>1, ReplayFlowed DEF FlowedIsFlowing, Flowed
  <2>3. Seen = {}
    <3>1. \A a \in Addr : a \in Slot /\ g.insMap = [s \in Slot |-> NoBlock]
      BY AddrFacts DEF Init, Construct, EmptyGraph
    <3> QED BY <3>1 DEF Seen, BbInBlock
  <2> QED BY <2>1, <2>2, <2>3 DEF Flow!Init, Flow!Location, Addr, Flowed, Seen
<1>3. FlowInv /\ [MainNext]_vars =>
        FlowInv' /\ [Flow!Next]_<<pc, Flowed, Seen, phase = "replay">>
  <2> SUFFICES ASSUME FlowInv, [MainNext]_vars
               PROVE  FlowInv' /\ [Flow!Next]_<<pc, Flowed, Seen, phase = "replay">>
    OBVIOUS
  <2>1. CASE Next
    <3>1. ASSUME NEW npc \in NextPcs(pc), Step(npc) PROVE FlowInv' /\ Flow!Next
      <4>1. FlowInv' /\ Observed(npc) /\ npc \in Addr
        BY <3>1, StepObserves DEF NextPcs
      <4>2. Flow!Observe(npc)
        BY <4>1 DEF Observed, Flow!Observe, Flowed, Seen
      <4> QED BY <4>1, <4>2 DEF Flow!Next, Flow!Location, Addr
    <3>2. ASSUME EndTrace PROVE FlowInv' /\ Flow!Next
      <4>1. Flow!End
        BY <3>2, EndEnds DEF Flow!End, Flow!Location, Addr, Flowed, Seen
      <4> QED BY <3>2, <4>1, EndEnds DEF Flow!Next
    <3> QED BY <2>1, <3>1, <3>2 DEF Next
  <2>2. CASE CleanStep
    <3>1. FlowInv' /\ Flow!Forget
      BY <2>2, CleanForgets DEF CleanStep, Flow!Forget, Flow!Location, Addr, Flowed, Seen
    <3> QED BY <3>1 DEF Flow!Next
  <2>3. CASE MergeStep
    BY <2>3, MergeUnseen DEF MergeStep, Unseen
  <2>4. CASE EndClean \/ EndMerge \/ UNCHANGED vars
    BY <2>4, RestUnseen DEF Unseen
  <2> QED BY <2>1, <2>2, <2>3, <2>4 DEF MainNext, Done
<1> QED BY <1>1, <1>2, <1>3, PTL DEF MainSpec, FlowSpec, Flow!Spec, Flowed, Seen
-----------------------------------------------------------------------------
(* The report: what is listed is what was executed, each instruction once. *)
Unique(h) ==
  \A x, y \in h.bbMap : \A i \in 1 .. Len(h.vecIns[x]), j \in 1 .. Len(h.vecIns[y]) :
    h.vecIns[x][i] = h.vecIns[y][j] => x = y /\ i = j

LEMMA UniquePlaces ==
  ASSUME NEW h, Unique(h), NEW x \in h.bbMap, NEW y \in h.bbMap, NEW i \in 1 .. Len(h.vecIns[x]),
         NEW j \in 1 .. Len(h.vecIns[y]), h.vecIns[x][i] = h.vecIns[y][j]
  PROVE  x = y /\ i = j
BY DEF Unique

At(h, x, a) == \E i \in 1 .. Len(h.vecIns[x]) : h.vecIns[x][i] = a

(* What insMap knows is in a block. *)
Listed(h) == \A a \in Addr : h.insMap[a] # NoBlock => \E x \in h.bbMap : At(h, x, a)

LEMMA LaidListed ==
  ASSUME NEW h \in Graph, LaidOut(h)
  PROVE  Unique(h) /\ Listed(h)
<1>1. /\ h.bbMap \subseteq Addr
      /\ \A x \in Addr : x \in Nat /\ Len(h.vecIns[x]) \in Nat
                         /\ Extent(h, x) = x .. x + Len(h.vecIns[x]) - 1
      /\ \A x \in Addr : \A i \in 1 .. Len(h.vecIns[x]) :
           h.vecIns[x][i] \in Addr /\ h.vecIns[x][i] = x + i - 1
  BY AddrFacts, Length DEF Graph, Extent, LaidOut
<1>2. \A x \in Addr : \A s \in Slot : h.insMap[s] = x <=> s \in Extent(h, x)
  BY DEF LaidOut
<1>3. Unique(h)
  <2> SUFFICES ASSUME NEW x \in h.bbMap, NEW y \in h.bbMap, NEW i \in 1 .. Len(h.vecIns[x]),
                      NEW j \in 1 .. Len(h.vecIns[y]), h.vecIns[x][i] = h.vecIns[y][j]
               PROVE  x = y /\ i = j
    BY DEF Unique
  <2> DEFINE a == h.vecIns[x][i]
  <2>1. x \in Addr /\ y \in Addr /\ a \in Addr /\ a = x + i - 1 /\ a = y + j - 1
    BY <1>1
  <2>2. a \in Extent(h, x) /\ a \in Extent(h, y) /\ a \in Slot
    BY SMTT(30), <1>1, <2>1, AddrFacts
  <2> HIDE DEF a
  <2>3. x = y
    BY <1>2, <2>1, <2>2
  <2> QED BY <1>1, <2>1, <2>3
<1>4. Listed(h)
  <2> SUFFICES ASSUME NEW a \in Addr, h.insMap[a] # NoBlock
               PROVE  \E x \in h.bbMap : At(h, x, a)
    BY DEF Listed
  <2> DEFINE x == h.insMap[a]
  <2>1. a \in Slot /\ x \in Addr /\ a \in Nat
    BY AddrFacts DEF Graph
  <2>2. a \in Extent(h, x)
    BY <1>2, <2>1
  <2> HIDE DEF x
  <2>6. x \in h.bbMap
    <3>1. h.vecIns[x] # <<>>
      BY <1>1, <2>1, <2>2
    <3> QED BY <2>1, <3>1 DEF LaidOut
  <2>3. (a - x) + 1 \in 1 .. Len(h.vecIns[x])
    BY <1>1, <2>1, <2>2
  <2>4. h.vecIns[x][(a - x) + 1] = x + ((a - x) + 1) - 1
    BY <1>1, <2>1, <2>3
  <2>5. x + ((a - x) + 1) - 1 = a
    BY <1>1, <2>1
  <2> QED BY <2>3, <2>4, <2>5, <2>6 DEF At
<1> QED BY <1>3, <1>4

(* Merging moves the instructions of c behind those of b. *)
LEMMA MergeListed ==
  ASSUME NEW h \in Graph, Unique(h), Listed(h), Held(h), NEW b \in h.bbMap, NEW c \in h.bbMap,
         b # c, NEW n, n = MergeWithSucc(h, b, c)
  PROVE  Unique(n) /\ Listed(n)
<1>1. b \in Addr /\ c \in Addr /\ h.bbMap \subseteq Addr
      /\ h.vecIns[b] \in Seq(Addr) /\ h.vecIns[c] \in Seq(Addr)
  BY DEF Graph
<1>2. Fused(n, h, b, c)
  BY <1>1, MergeFields
<1> DEFINE s == h.vecIns[b]
           t == h.vecIns[c]
           u == n.vecIns[b]
<1>3. /\ n.bbMap = h.bbMap \ {c} /\ u = s \o t /\ s \in Seq(Addr) /\ t \in Seq(Addr)
      /\ \A x \in n.bbMap \ {b} : n.vecIns[x] = h.vecIns[x]
  BY <1>1, <1>2 DEF Fused
<1>4. SameHeld(n, h)
  BY MergeHeld
(* the block and the place a place of b comes from *)
<1> DEFINE Home(i) == IF i <= Len(s) THEN b ELSE c
           Rank(i) == IF i <= Len(s) THEN i ELSE i - Len(s)
<1>5. ASSUME NEW i \in 1 .. Len(u)
      PROVE  /\ Home(i) \in {b, c} /\ Rank(i) \in 1 .. Len(h.vecIns[Home(i)])
             /\ u[i] = h.vecIns[Home(i)][Rank(i)]
  <2> HIDE DEF u
  <2>1. /\ Len(s) \in Nat /\ Len(t) \in Nat /\ Len(u) = Len(s) + Len(t)
        /\ u[i] = IF i <= Len(s) THEN s[i] ELSE t[i - Len(s)]
    <3>1. i \in 1 .. Len(u) /\ u = s \o t /\ s \in Seq(Addr) /\ t \in Seq(Addr)
      BY <1>3, <1>5
    <3> HIDE DEF s, t
    <3> QED BY <3>1
  <2>2. CASE i <= Len(s)
    <3>1. Home(i) = b /\ Rank(i) = i
      BY <2>2
    <3>2. u[i] = s[i] /\ i \in 1 .. Len(s)
      BY <1>5, <2>1, <2>2
    <3> QED BY <3>1, <3>2
  <2>3. CASE ~(i <= Len(s))
    <3>1. Home(i) = c /\ Rank(i) = i - Len(s)
      BY <2>3
    <3>2. u[i] = t[i - Len(s)] /\ i - Len(s) \in 1 .. Len(t)
      <4> HIDE DEF s, t
      <4> QED BY <1>5, <2>1, <2>3
    <3> QED BY <3>1, <3>2
  <2> QED BY <2>2, <2>3
<1>6. ASSUME NEW i \in 1 .. Len(u), NEW j \in 1 .. Len(u), Home(i) = Home(j), Rank(i) = Rank(j)
      PROVE  i = j
  <2>1. Len(s) \in Nat /\ i \in Int /\ j \in Int
    BY <1>3
  <2> HIDE DEF s
  <2> QED BY <1>6, <2>1
<1>7. /\ \A i \in 1 .. Len(s) : i \in 1 .. Len(u) /\ u[i] = s[i]
      /\ \A i \in 1 .. Len(t) : Len(s) + i \in 1 .. Len(u) /\ u[Len(s) + i] = t[i]
  <2> HIDE DEF s, t, u
  <2> QED BY <1>3
<1> HIDE DEF Home, Rank
<1>8. Unique(n)
  <2>1. ASSUME NEW x \in n.bbMap, NEW y \in n.bbMap, NEW i \in 1 .. Len(n.vecIns[x]),
               NEW j \in 1 .. Len(n.vecIns[y]), n.vecIns[x][i] = n.vecIns[y][j], x = b
        PROVE  x = y /\ i = j
    <3>1. /\ i \in 1 .. Len(u) /\ Home(i) \in {b, c} /\ Rank(i) \in 1 .. Len(h.vecIns[Home(i)])
          /\ u[i] = h.vecIns[Home(i)][Rank(i)] /\ Home(i) \in h.bbMap
      BY <1>5, <2>1
    <3>2. CASE y = b
      <4>1. /\ j \in 1 .. Len(u) /\ Home(j) \in h.bbMap
            /\ Rank(j) \in 1 .. Len(h.vecIns[Home(j)]) /\ u[j] = h.vecIns[Home(j)][Rank(j)]
        BY <1>5, <2>1, <3>2
      <4>2. u[i] = u[j]
        BY <2>1, <3>2
      <4>4. h.vecIns[Home(i)][Rank(i)] = h.vecIns[Home(j)][Rank(j)]
        BY <3>1, <4>1, <4>2
      <4>3. Home(i) = Home(j) /\ Rank(i) = Rank(j)
        BY SMTT(30), <3>1, <4>1, <4>4, UniquePlaces
      <4> QED BY <1>6, <2>1, <3>1, <3>2, <4>1, <4>3
    <3>3. CASE y # b
      <4>1. /\ y \in h.bbMap /\ y # c /\ n.vecIns[y] = h.vecIns[y]
            /\ j \in 1 .. Len(h.vecIns[y])
        BY <1>3, <2>1, <3>3
      <4>2. u[i] = h.vecIns[y][j]
        BY <2>1, <4>1
      <4>4. h.vecIns[Home(i)][Rank(i)] = h.vecIns[y][j]
        BY <3>1, <4>2
      <4>3. Home(i) = y
        BY <3>1, <4>1, <4>4, UniquePlaces
      <4> QED BY <3>1, <3>3, <4>1, <4>3
    <3> QED BY <3>2, <3>3
  <2>2. ASSUME NEW x \in n.bbMap, NEW y \in n.bbMap, NEW i \in 1 .. Len(n.vecIns[x]),
               NEW j \in 1 .. Len(n.vecIns[y]), n.vecIns[x][i] = n.vecIns[y][j], x # b, y # b
        PROVE  x = y /\ i = j
    <3>1. x \in h.bbMap /\ y \in h.bbMap /\ n.vecIns[x] = h.vecIns[x] /\ n.vecIns[y] = h.vecIns[y]
      BY <1>3, <2>2
    <3> QED BY <2>2, <3>1 DEF Unique
  <2> QED BY <2>1, <2>2 DEF Unique
<1>9. ASSUME NEW a \in Addr, n.insMap[a] # NoBlock
      PROVE  \E x \in n.bbMap : At(n, x, a)
  <2>1. h.insMap[a] # NoBlock
    BY <1>4, <1>9, AddrFacts DEF SameHeld
  <2>2. PICK x \in h.bbMap : At(h, x, a)
    BY <2>1 DEF Listed
  <2>3. b \in n.bbMap
    BY <1>3
  <2>4. CASE x = b
    BY <1>7, <2>2, <2>3, <2>4 DEF At
  <2>5. CASE x = c
    <3>1. PICK i \in 1 .. Len(t) : t[i] = a
      BY <2>2, <2>5 DEF At
    <3>2. Len(s) + i \in 1 .. Len(u) /\ u[Len(s) + i] = a
      BY <1>7, <3>1
    <3> QED BY <2>3, <3>2 DEF At
  <2>6. CASE x # b /\ x # c
    BY <1>3, <2>2, <2>6 DEF At
  <2> QED BY <2>4, <2>5, <2>6
<1> QED BY <1>8, <1>9 DEF Listed

(* The inductive invariant: what was translated is what was counted. *)
CountInv ==
  /\ FlowInv
  /\ counts \in [Addr -> Nat]
  /\ Seen = {a \in Addr : counts[a] > 0}
  /\ phase \in {"merge", "region"} => Unique(g) /\ Listed(g)

LEMMA InitCountInv == ASSUME ~Traps, ReportInit PROVE CountInv
<1>1. FlowInv /\ phase = "replay" /\ counts = [a \in Addr |-> 0]
  BY InitFlowInv DEF ReportInit, Init
<1>2. Seen = {}
  <2>1. \A a \in Addr : a \in Slot /\ g.insMap = [s \in Slot |-> NoBlock]
    BY AddrFacts DEF ReportInit, Init, Construct, EmptyGraph
  <2> QED BY <2>1 DEF Seen, BbInBlock
<1> QED BY <1>1, <1>2 DEF CountInv

LEMMA StepCountInv ==
  ASSUME ~Traps, DistinctKeys, CountInv, [ReportNext]_reportVars
  PROVE  CountInv'
<1>1. ASSUME NEW npc \in NextPcs(pc), Record(npc) PROVE CountInv'
  <2>1. FlowInv' /\ Observed(npc)
    BY <1>1, StepObserves DEF Record, CountInv
  <2>2. pc \in Addr /\ counts' = [counts EXCEPT ![pc] = counts[pc] + 1] /\ counts \in [Addr -> Nat]
    BY <1>1 DEF Record, CountInsn, CountInv, FlowInv, TrailInv, SpanInv, TypeOK
  <2>3. \A a \in Addr : counts'[a] > 0 <=> counts[a] > 0 \/ a = pc
    BY <2>2
  <2>4. Seen' = {a \in Addr : counts'[a] > 0}
    BY <2>1, <2>2, <2>3 DEF Observed, CountInv
  <2> QED BY <2>1, <2>2, <2>4 DEF CountInv, Observed
<1>2. ASSUME EndTrace, UNCHANGED counts PROVE CountInv'
  <2>1. FlowInv' /\ phase' = "clean" /\ UNCHANGED Seen
    BY <1>2, EndEnds DEF CountInv
  <2> QED BY <1>2, <2>1 DEF CountInv
<1>3. ASSUME CleanStep, UNCHANGED counts PROVE CountInv'
  <2>1. FlowInv' /\ UNCHANGED <<Seen, phase>> /\ phase = "clean"
    BY <1>3, CleanForgets DEF CountInv, CleanStep, Alive
  <2> QED BY <1>3, <2>1 DEF CountInv
<1>4. ASSUME MergeStep, UNCHANGED counts PROVE CountInv'
  <2>0. PICK b \in Mergables : \E c \in g.succs[b] : Change(MergeWithSucc(g, b, c))
    BY <1>4 DEF MergeStep
  <2>1. PICK c \in g.succs[b] : Change(MergeWithSucc(g, b, c))
    BY <2>0
  <2>2. FlowInv' /\ UNCHANGED Seen /\ phase = "merge" /\ phase' = phase
    BY <1>4, <2>1, MergeUnseen DEF MergeStep, CountInv, Unseen, Alive, Change
  <2>3. /\ g \in Graph /\ Sym(g) /\ b \in g.bbMap /\ MergableWithSucc(g, b) /\ Held(g)
        /\ Unique(g) /\ Listed(g) /\ g' = MergeWithSucc(g, b, c)
    BY <2>1, <2>2 DEF CountInv, FlowInv, TrailInv, SpanInv, TypeOK, Mergables, Change
  <2>4. c \in g.bbMap
    BY <2>3, MergableChained
  <2>5. Unique(g') /\ Listed(g')
    <3>1. CASE b = c
      <4>1. g'.bbMap = g.bbMap /\ g'.vecIns = g.vecIns /\ g'.insMap = g.insMap
        BY <2>3, <3>1 DEF MergeWithSucc, Abort, Graph
      <4> QED BY <2>3, <4>1 DEF Unique, Listed, At
    <3>2. CASE b # c
      BY <2>3, <2>4, <3>2, MergeListed
    <3> QED BY <3>1, <3>2
  <2>6. Unique(g)' /\ Listed(g)'
    BY <2>5 DEF Unique, Listed, At
  <2> QED BY <1>4, <2>2, <2>6 DEF CountInv
<1>5. ASSUME EndClean \/ EndMerge \/ UNCHANGED vars, UNCHANGED counts PROVE CountInv'
  <2>1. FlowInv' /\ UNCHANGED Seen /\ UNCHANGED g
    BY <1>5, RestUnseen DEF CountInv, Unseen, EndClean, EndMerge, Continue, vars
  <2>2. phase' \in {"merge", "region"} => Unique(g) /\ Listed(g)
    <3>1. CASE EndClean
      <4>1. LaidOut(g) /\ g \in Graph
        BY <3>1 DEF EndClean, Alive, CountInv, FlowInv, TrailInv, SpanInv, TypeOK
      <4> QED BY <4>1, LaidListed
    <3>2. CASE EndMerge \/ UNCHANGED vars
      BY <3>2 DEF EndMerge, Alive, Continue, vars, CountInv
    <3> QED BY <1>5, <3>1, <3>2
  <2>3. Unique(g)' = Unique(g) /\ Listed(g)' = Listed(g)
    BY <2>1 DEF Unique, Listed, At
  <2> QED BY <1>5, <2>1, <2>2, <2>3 DEF CountInv
<1> QED BY <1>1, <1>2, <1>3, <1>4, <1>5 DEF ReportNext, reportVars, Done

(* In the report every executed instruction is in one block and at one     *)
(* place of it, and no other instruction is: its cycles are charged once,  *)
(* and none is divided by a count of zero.                                 *)
THEOREM CyclesChargedOnce ==
  ASSUME ~Traps, DistinctKeys PROVE ReportSpec => []CyclesOnce
<1>1. CountInv => CyclesOnce
  <2> SUFFICES ASSUME CountInv, phase = "region", NEW a \in Addr
               PROVE  Cardinality(Shown(a)) = Once(counts[a] > 0)
    BY DEF CyclesOnce
  <2>1. /\ Unique(g) /\ Listed(g) /\ Held(g) /\ g \in Graph /\ counts[a] \in Nat
        /\ g.insMap[a] # NoBlock <=> counts[a] > 0
    BY DEF CountInv, FlowInv, TrailInv, SpanInv, TypeOK, Seen, BbInBlock
  <2>2. \A x \in g.bbMap : DOMAIN g.vecIns[x] = 1 .. Len(g.vecIns[x])
    BY <2>1 DEF Graph
  <2>3. CASE counts[a] > 0
    <3>1. PICK x \in g.bbMap : At(g, x, a)
      BY <2>1, <2>3 DEF Listed
    <3>2. PICK i \in 1 .. Len(g.vecIns[x]) : g.vecIns[x][i] = a
      BY <3>1 DEF At
    <3>3. \A y \in g.bbMap : {j \in DOMAIN g.vecIns[y] : g.vecIns[y][j] = a}
                               = IF y = x THEN {i} ELSE {}
      BY <2>1, <2>2, <3>2 DEF Unique
    <3>4. Shown(a) = {<<x, i>>}
      BY <3>3 DEF Shown
    <3> QED BY <2>3, <3>4, FS_Singleton DEF Once
  <2>4. CASE ~(counts[a] > 0)
    <3>1. \A y \in g.bbMap : {j \in DOMAIN g.vecIns[y] : g.vecIns[y][j] = a} = {}
      BY <2>1, <2>2, <2>4 DEF Held
    <3>2. Shown(a) = {}
      BY <3>1 DEF Shown
    <3> QED BY <2>4, <3>2, FS_EmptySet DEF Once
  <2> QED BY <2>3, <2>4
<1> QED BY <1>1, InitCountInv, StepCountInv, PTL DEF ReportSpec
-----------------------------------------------------------------------------
(***************************************************************************)
(* Sums.  The library adds up a function's values one chosen element at a  *)
(* time.  The sum of numbers over a finite set is the number of its units, *)
(* f[x] of them at each x, so that the laws of sums are facts about        *)
(* cardinalities, and the order in which the elements are chosen is        *)
(* nobody's concern any more.                                              *)
(***************************************************************************)
Units(f, S) == {u \in S \X Nat : u[2] < f[u[1]]}

(* Induction over the subsets of a finite set. *)
LEMMA LeastSubset ==
  ASSUME NEW S, IsFiniteSet(S), NEW T, T \subseteq SUBSET S, T # {}
  PROVE  \E s \in T : \A t \in T : t \subseteq s => t = s
<1>1. PICK s \in T : \A t \in T : ~(<<t, s>> \in StrictSubsetOrdering(S))
  BY FS_StrictSubsetOrderingWellFounded, FS_FiniteSubsetsOfFinite, WFMin
<1>2. \A t \in T : ~(t \subseteq s /\ t # s)
  BY <1>1 DEF StrictSubsetOrdering
<1> QED BY <1>2

LEMMA Below == ASSUME NEW n \in Nat PROVE IsFiniteSet(0 .. n - 1) /\ Cardinality(0 .. n - 1) = n
<1> DEFINE m == n - 1
<1>1. m \in Int /\ n = m + 1 /\ (0 > m => n = 0)
  OBVIOUS
<1> HIDE DEF m
<1>2. IsFiniteSet(0 .. m) /\ Cardinality(0 .. m) = IF 0 > m THEN 0 ELSE m - 0 + 1
  BY <1>1, FS_Interval
<1>3. IsFiniteSet(0 .. m) /\ Cardinality(0 .. m) = n
  BY <1>1, <1>2
<1> QED BY <1>3 DEF m

LEMMA UnitsGrow ==
  ASSUME NEW f, NEW s, NEW x \in s, f[x] \in Nat, IsFiniteSet(Units(f, s \ {x}))
  PROVE  /\ IsFiniteSet(Units(f, s))
         /\ Cardinality(Units(f, s)) = f[x] + Cardinality(Units(f, s \ {x}))
<1> DEFINE U == Units(f, s \ {x})
           B == {x} \X (0 .. f[x] - 1)
<1>1. Units(f, s) = U \cup B
  <2>1. \A u : u \in Units(f, s) <=> u \in s \X Nat /\ u[2] < f[u[1]]
    BY DEF Units
  <2>2. \A u : u \in U <=> u \in (s \ {x}) \X Nat /\ u[2] < f[u[1]]
    BY DEF Units
  <2>3. \A u : u \in B <=> u \in {x} \X Nat /\ u[2] < f[x]
    OBVIOUS
  <2>4. \A u : u \in s \X Nat <=> u \in (s \ {x}) \X Nat \/ u \in {x} \X Nat
    OBVIOUS
  <2>5. \A u \in {x} \X Nat : u[1] = x
    OBVIOUS
  <2> HIDE DEF B, U
  <2> QED BY <2>1, <2>2, <2>3, <2>4, <2>5
<1>2. U \cap B = {}
  <2>1. \A u \in U : u[1] # x
    BY DEF Units
  <2>2. \A u \in B : u[1] = x
    OBVIOUS
  <2> HIDE DEF B, U
  <2> QED BY <2>1, <2>2
<1>3. IsFiniteSet(B) /\ Cardinality(B) = f[x]
  <2> DEFINE I == 0 .. f[x] - 1
  <2>1. IsFiniteSet(I) /\ Cardinality(I) = f[x]
    BY Below
  <2>2. IsFiniteSet({x}) /\ Cardinality({x}) = 1
    BY FS_Singleton
  <2> HIDE DEF I
  <2>3. /\ IsFiniteSet({x} \X I)
        /\ Cardinality({x} \X I) = Cardinality({x}) * Cardinality(I)
    BY <2>1, <2>2, FS_Product
  <2>4. Cardinality({x} \X I) = 1 * f[x]
    BY <2>1, <2>2, <2>3
  <2>5. Cardinality({x} \X I) = f[x]
    BY <2>4
  <2> QED BY <2>3, <2>5 DEF I
<1>4. Cardinality(U \cap B) = 0
  BY <1>2, FS_EmptySet
<1> HIDE DEF B
<1>5. IsFiniteSet(U) /\ Cardinality(U) \in Nat
  BY FS_CardinalityType
<1> HIDE DEF U
<1>6. IsFiniteSet(U \cup B) /\ Cardinality(U \cup B) = Cardinality(U) + f[x] - 0
  BY <1>3, <1>4, <1>5, FS_Union
<1> QED BY <1>1, <1>5, <1>6 DEF U

LEMMA UnitsNone == ASSUME NEW f PROVE Units(f, {}) = {}
BY DEF Units

LEMMA UnitsFinite ==
  ASSUME NEW S, IsFiniteSet(S), NEW f, \A x \in S : f[x] \in Nat, NEW s \in SUBSET S
  PROVE  IsFiniteSet(Units(f, s))
<1> DEFINE T == {t \in SUBSET S : ~IsFiniteSet(Units(f, t))}
<1>1. SUFFICES ASSUME T # {} PROVE FALSE
  OBVIOUS
<1>2. PICK t \in T : \A r \in T : r \subseteq t => r = t
  <2>1. T \subseteq SUBSET S
    OBVIOUS
  <2> HIDE DEF T
  <2> QED BY <1>1, <2>1, LeastSubset
<1>3. t # {}
  BY <1>2, UnitsNone, FS_EmptySet
<1>4. PICK x \in t : TRUE
  BY <1>3
<1>5. t \ {x} \in SUBSET S /\ t \ {x} # t
  BY <1>2, <1>4
<1>6. IsFiniteSet(Units(f, t \ {x}))
  BY <1>2, <1>5
<1>7. f[x] \in Nat
  BY <1>2, <1>4
<1>8. IsFiniteSet(Units(f, t))
  BY <1>4, <1>6, <1>7, UnitsGrow
<1> QED BY <1>2, <1>8

(* What the recursion of the library computes. *)
Adds(h, f, S) ==
  h = [s \in SUBSET S |->
         IF s = {} THEN 0
         ELSE f[CHOOSE x \in s : TRUE] + h[s \ {CHOOSE x \in s : TRUE}]]

LEMMA SumAdds ==
  ASSUME NEW f, NEW S
  PROVE  SumFunctionOnSet(f, S) = (CHOOSE h : Adds(h, f, S))[S]
BY DEF SumFunctionOnSet, FoldFunctionOnSet, MapThenFoldSet, Adds

LEMMA SumIsUnits ==
  ASSUME NEW S, IsFiniteSet(S), NEW f, \A x \in S : f[x] \in Nat
  PROVE  /\ SumFunctionOnSet(f, S) = Cardinality(Units(f, S))
         /\ IsFiniteSet(Units(f, S))
<1> DEFINE c == [s \in SUBSET S |-> Cardinality(Units(f, s))]
           h == CHOOSE k : Adds(k, f, S)
           Pick(s) == CHOOSE x \in s : TRUE
<1>1. ASSUME NEW s \in SUBSET S, s # {}
      PROVE  /\ Pick(s) \in s /\ s \ {Pick(s)} \in SUBSET S /\ s \ {Pick(s)} # s
             /\ c[s] = f[Pick(s)] + c[s \ {Pick(s)}]
  <2>1. Pick(s) \in s
    BY <1>1
  <2> HIDE DEF Pick
  <2>2. s \ {Pick(s)} \in SUBSET S /\ f[Pick(s)] \in Nat
    BY <2>1
  <2>3. IsFiniteSet(Units(f, s \ {Pick(s)}))
    BY <2>2, UnitsFinite
  <2>4. Cardinality(Units(f, s)) = f[Pick(s)] + Cardinality(Units(f, s \ {Pick(s)}))
    BY <2>1, <2>2, <2>3, UnitsGrow
  <2> QED BY <2>1, <2>2, <2>4
<1>2. c[{}] = 0
  BY UnitsNone, FS_EmptySet
<1>3. Adds(c, f, S)
  <2>1. ASSUME NEW s \in SUBSET S
        PROVE  c[s] = IF s = {} THEN 0 ELSE f[Pick(s)] + c[s \ {Pick(s)}]
    <3> HIDE DEF c, Pick
    <3> QED BY <1>1, <1>2
  <2>2. c = [s \in SUBSET S |-> c[s]]
    OBVIOUS
  <2> HIDE DEF c
  <2> QED BY <2>1, <2>2, Zenon DEF Adds
<1>4. Adds(h, f, S)
  BY <1>3, Zenon
<1> DEFINE T == {s \in SUBSET S : h[s] # c[s]}
<1>5. ASSUME T # {} PROVE FALSE
  <2>1. PICK t \in T : \A r \in T : r \subseteq t => r = t
    <3>1. T \subseteq SUBSET S
      OBVIOUS
    <3> HIDE DEF T
    <3> QED BY <1>5, <3>1, LeastSubset
  <2>2. t \in SUBSET S /\ h[t] # c[t]
    BY <2>1
  <2> HIDE DEF c, h, Pick
  <2>3. h[t] = IF t = {} THEN 0 ELSE f[Pick(t)] + h[t \ {Pick(t)}]
    BY <1>4, <2>2, Zenon DEF Adds, Pick
  <2>4. t # {}
    BY <1>2, <2>2, <2>3
  <2>5. h[t \ {Pick(t)}] = c[t \ {Pick(t)}]
    BY <1>1, <2>1, <2>2, <2>4
  <2> QED BY <1>1, <2>2, <2>3, <2>4, <2>5
<1>6. h[S] = c[S]
  BY <1>5
<1>7. SumFunctionOnSet(f, S) = h[S]
  BY SumAdds
<1>8. c[S] = Cardinality(Units(f, S)) /\ IsFiniteSet(Units(f, S))
  BY UnitsFinite
<1> QED BY <1>6, <1>7, <1>8

-----------------------------------------------------------------------------
(* Sums of equal numbers, of parts, over one element, of ones and zeroes,  *)
(* of a function changed at one place, and along a one-to-one map.         *)
LEMMA SumSame ==
  ASSUME NEW S, IsFiniteSet(S), NEW f, \A x \in S : f[x] \in Nat,
         NEW e, \A x \in S : e[x] = f[x]
  PROVE  SumFunctionOnSet(e, S) = SumFunctionOnSet(f, S)
<1>1. Units(e, S) = Units(f, S)
  BY DEF Units
<1>2. \A x \in S : e[x] \in Nat
  OBVIOUS
<1> QED BY <1>1, <1>2, SumIsUnits

LEMMA SumSplit ==
  ASSUME NEW S, IsFiniteSet(S), NEW f, \A x \in S : f[x] \in Nat, NEW T \in SUBSET S
  PROVE  /\ SumFunctionOnSet(f, T) \in Nat /\ SumFunctionOnSet(f, S \ T) \in Nat
         /\ SumFunctionOnSet(f, S) = SumFunctionOnSet(f, T) + SumFunctionOnSet(f, S \ T)
<1> DEFINE A == Units(f, T)
           B == Units(f, S \ T)
<1>1. IsFiniteSet(T) /\ IsFiniteSet(S \ T)
  BY FS_Subset
<1>2. /\ SumFunctionOnSet(f, T) = Cardinality(A) /\ IsFiniteSet(A)
      /\ SumFunctionOnSet(f, S \ T) = Cardinality(B) /\ IsFiniteSet(B)
      /\ SumFunctionOnSet(f, S) = Cardinality(Units(f, S))
  <2>1. \A x \in T : f[x] \in Nat
    OBVIOUS
  <2>2. \A x \in S \ T : f[x] \in Nat
    OBVIOUS
  <2> QED BY <1>1, <2>1, <2>2, SumIsUnits
<1>3. Units(f, S) = A \cup B /\ A \cap B = {}
  BY DEF Units
<1>4. Cardinality(A \cap B) = 0
  BY <1>3, FS_EmptySet
<1> HIDE DEF A, B
<1>5. Cardinality(A) \in Nat /\ Cardinality(B) \in Nat
  BY <1>2, FS_CardinalityType
<1>6. Cardinality(A \cup B) = Cardinality(A) + Cardinality(B) - 0
  BY <1>2, <1>4, FS_Union
<1> QED BY <1>2, <1>3, <1>5, <1>6

LEMMA SumPoint ==
  ASSUME NEW f, NEW x, f[x] \in Nat
  PROVE  SumFunctionOnSet(f, {x}) = f[x]
<1>1. {x} \ {x} = {} /\ x \in {x} /\ IsFiniteSet({x}) /\ \A y \in {x} : f[y] \in Nat
  BY FS_Singleton
<1>2. Units(f, {x} \ {x}) = {}
  BY <1>1, UnitsNone
<1>3. Cardinality(Units(f, {x})) = f[x] + Cardinality(Units(f, {x} \ {x}))
  <2>1. IsFiniteSet(Units(f, {x} \ {x}))
    BY <1>2, FS_EmptySet
  <2> QED BY <1>1, <2>1, UnitsGrow
<1>4. Cardinality(Units(f, {x})) = f[x]
  BY <1>2, <1>3, FS_EmptySet
<1> QED BY <1>1, <1>4, SumIsUnits

LEMMA SumType ==
  ASSUME NEW S, IsFiniteSet(S), NEW f, \A x \in S : f[x] \in Nat
  PROVE  SumFunctionOnSet(f, S) \in Nat
BY SumIsUnits, FS_CardinalityType

LEMMA SumMember ==
  ASSUME NEW S, IsFiniteSet(S), NEW f, \A x \in S : f[x] \in Nat, NEW x \in S
  PROVE  f[x] <= SumFunctionOnSet(f, S)
<1>1. f[x] \in Nat /\ {x} \in SUBSET S
  OBVIOUS
<1>2. SumFunctionOnSet(f, {x}) = f[x]
  BY <1>1, SumPoint
<1>3. /\ SumFunctionOnSet(f, S \ {x}) \in Nat
      /\ SumFunctionOnSet(f, S) = SumFunctionOnSet(f, {x}) + SumFunctionOnSet(f, S \ {x})
  BY <1>1, SumSplit
<1> QED BY <1>1, <1>2, <1>3

(* One of the numbers grows by one. *)
LEMMA SumStep ==
  ASSUME NEW S, IsFiniteSet(S), NEW f, \A y \in S : f[y] \in Nat, NEW x \in S,
         NEW e, e[x] = f[x] + 1, \A y \in S \ {x} : e[y] = f[y]
  PROVE  SumFunctionOnSet(e, S) = SumFunctionOnSet(f, S) + 1
<1>1. f[x] \in Nat /\ e[x] \in Nat /\ {x} \in SUBSET S /\ \A y \in S : e[y] \in Nat
  OBVIOUS
<1>2. SumFunctionOnSet(f, {x}) = f[x] /\ SumFunctionOnSet(e, {x}) = f[x] + 1
  BY <1>1, SumPoint
<1>3. /\ SumFunctionOnSet(f, S) = SumFunctionOnSet(f, {x}) + SumFunctionOnSet(f, S \ {x})
      /\ SumFunctionOnSet(f, S \ {x}) \in Nat
      /\ SumFunctionOnSet(e, S) = SumFunctionOnSet(e, {x}) + SumFunctionOnSet(e, S \ {x})
  BY <1>1, SumSplit
<1>4. SumFunctionOnSet(e, S \ {x}) = SumFunctionOnSet(f, S \ {x})
  <2>1. IsFiniteSet(S \ {x}) /\ \A y \in S \ {x} : f[y] \in Nat
    BY FS_Subset
  <2> QED BY <2>1, SumSame
<1> QED BY <1>1, <1>2, <1>3, <1>4

(* A sum of zeros and ones counts the ones. *)
LEMMA SumOnes ==
  ASSUME NEW S, IsFiniteSet(S), NEW f, \A x \in S : f[x] \in {0, 1}
  PROVE  SumFunctionOnSet(f, S) = Cardinality({x \in S : f[x] = 1})
<1> DEFINE A == {x \in S : f[x] = 1}
<1>1. \A x \in S : f[x] \in Nat
  OBVIOUS
<1>2. Units(f, S) = A \X {0}
  <2>1. ASSUME NEW u \in Units(f, S) PROVE u \in A \X {0}
    <3>1. u \in S \X Nat /\ u[2] < f[u[1]] /\ u[1] \in S /\ u[2] \in Nat
      BY <2>1 DEF Units
    <3>2. f[u[1]] = 1 /\ u[2] = 0
      BY <3>1
    <3> QED BY <3>1, <3>2
  <2>2. ASSUME NEW u \in A \X {0} PROVE u \in Units(f, S)
    BY DEF Units
  <2> QED BY <2>1, <2>2
<1>3. IsFiniteSet(A) /\ A \in SUBSET S
  BY FS_Subset
<1>4. IsFiniteSet({0}) /\ Cardinality({0}) = 1
  BY FS_Singleton
<1> HIDE DEF A
<1>5. Cardinality(A) \in Nat /\ Cardinality(A \X {0}) = Cardinality(A) * 1
  BY <1>3, <1>4, FS_Product, FS_CardinalityType
<1>6. SumFunctionOnSet(f, S) = Cardinality(A \X {0})
  BY <1>1, <1>2, SumIsUnits
<1>7. SumFunctionOnSet(f, S) = Cardinality(A)
  BY <1>5, <1>6
<1> QED BY <1>7 DEF A

(* The elements may be renamed. *)
LEMMA SumImage ==
  ASSUME NEW S, IsFiniteSet(S), NEW f, NEW m, NEW e, NEW T, T = {m[x] : x \in S},
         \A x \in S : f[x] \in Nat /\ e[m[x]] = f[x],
         \A x, y \in S : m[x] = m[y] => x = y
  PROVE  SumFunctionOnSet(e, T) = SumFunctionOnSet(f, S)
<1> DEFINE k == [u \in Units(f, S) |-> <<m[u[1]], u[2]>>]
<1>1. \A u \in Units(f, S) : u = <<u[1], u[2]>> /\ u[1] \in S /\ u[2] \in Nat /\ u[2] < f[u[1]]
  BY DEF Units
<1>2. \A u \in Units(f, S) : k[u] \in Units(e, T)
  <2> SUFFICES ASSUME NEW u \in Units(f, S) PROVE <<m[u[1]], u[2]>> \in Units(e, T)
    OBVIOUS
  <2>1. m[u[1]] \in T /\ e[m[u[1]]] = f[u[1]]
    BY <1>1
  <2> QED BY <1>1, <2>1 DEF Units
<1>3. \A u, v \in Units(f, S) : k[u] = k[v] => u = v
  <2> SUFFICES ASSUME NEW u \in Units(f, S), NEW v \in Units(f, S),
                      <<m[u[1]], u[2]>> = <<m[v[1]], v[2]>>
               PROVE  u = v
    OBVIOUS
  <2>1. u[1] = v[1] /\ u[2] = v[2]
    BY <1>1
  <2> QED BY <1>1, <2>1
<1>4. \A w \in Units(e, T) : \E u \in Units(f, S) : k[u] = w
  <2> SUFFICES ASSUME NEW w \in Units(e, T)
               PROVE  \E u \in Units(f, S) : <<m[u[1]], u[2]>> = w
    OBVIOUS
  <2>1. w = <<w[1], w[2]>> /\ w[1] \in T /\ w[2] \in Nat /\ w[2] < e[w[1]]
    BY DEF Units
  <2>2. PICK x \in S : m[x] = w[1]
    BY <2>1
  <2>3. <<x, w[2]>> \in Units(f, S)
    BY <2>1, <2>2 DEF Units
  <2> QED BY <2>1, <2>2, <2>3
<1>5. ExistsBijection(Units(f, S), Units(e, T))
  <2>1. k \in [Units(f, S) -> Units(e, T)]
    BY <1>2
  <2> HIDE DEF k
  <2>2. k \in Bijection(Units(f, S), Units(e, T))
    BY <1>3, <1>4, <2>1 DEF Bijection, Injection, Surjection, IsInjective
  <2> QED BY <2>2 DEF ExistsBijection
<1>6. SumFunctionOnSet(f, S) = Cardinality(Units(f, S)) /\ IsFiniteSet(Units(f, S))
  BY SumIsUnits
<1>7. Cardinality(Units(e, T)) = Cardinality(Units(f, S))
  BY <1>5, <1>6, FS_Bijection
<1>8. IsFiniteSet(T) /\ \A y \in T : e[y] \in Nat
  <2>1. \A y \in T : e[y] \in Nat
    OBVIOUS
  <2> DEFINE s == [x \in S |-> m[x]]
  <2>2. s \in Surjection(S, T)
    BY DEF Surjection
  <2> QED BY <2>1, <2>2, FS_Surjection
<1> QED BY <1>6, <1>7, <1>8, SumIsUnits

-----------------------------------------------------------------------------
(* The block control goes to is closed, or it has just been constructed.   *)
LEMMA NextClosed ==
  ASSUME NEW h, NEW b, Shut(h, b), NEW a \in Addr, NEW t, t = GetNextBlock(h, b, a)
  PROVE  t.graph.readOnly[t.blk] \/ t.graph.vecIns[t.blk] = <<>>
<1> DEFINE s == Successor(h, b, a)
           n == SetReadOnly(s.graph, b)
<1>1. Reached(s, b, a)
  BY SuccessorReached
<1>2. t.blk = s.blk /\ t.graph = n
  BY DEF GetNextBlock
<1> HIDE DEF s
<1>3. /\ n.vecIns = s.graph.vecIns /\ n.readOnly[b] /\ s.graph.bbMap \subseteq Addr
      /\ \A x \in Addr \ {b} : n.readOnly[x] = s.graph.readOnly[x]
  <2>1. /\ Sound(s.graph) /\ s.graph \in Graph /\ b \in s.graph.bbMap
        /\ s.graph.vecIns[b] # <<>> /\ s.graph.bbMap \subseteq Addr
    BY <1>1 DEF Reached, Sound, WellFormed, Graph
  <2> QED BY <2>1, SetReadOnlySound
<1> HIDE DEF n
<1> QED BY <1>1, <1>2, <1>3 DEF Reached, Closed, Fresh

(* An instruction that ends the open block is being executed for the first *)
(* time.                                                                   *)
LEMMA RecordOpens ==
  ASSUME ~Traps, ReplayInv, NEW npc \in NextPcs(pc),
         Stay(npc) \/ Leave(npc) \/ Build(npc) \/ Join(npc),
         ~g'.readOnly[cBB'], g'.vecIns[cBB'] # <<>>
  PROVE  LastPc(g', cBB') = pc /\ g.insMap[pc] = NoBlock
<1> DEFINE b == Resync
<1>1. /\ g.readOnly[b] => Shut(g, b) /\ Settled(g, b, pc)
      /\ ~g.readOnly[b] => b = cBB
  BY ResyncSettled
<1>2. npc \in Addr /\ pc \in Addr /\ pc \in Nat
  BY AddrFacts DEF ReplayInv, GraphInv, TypeOK, NextPcs
<1>3. ASSUME Stay(npc) PROVE FALSE
  BY <1>3 DEF Stay, Become
<1>4. ASSUME Leave(npc) PROVE FALSE
  <2> DEFINE s == Successor(g, b, npc)
  <2>1. g.readOnly[b] /\ cBB' = s.blk /\ g' = s.graph
    BY <1>4 DEF Leave, Become
  <2> HIDE DEF b
  <2>2. Reached(s, b, npc) /\ s.graph.readOnly[b]
    BY <1>1, <1>2, <2>1, SuccessorReached
  <2> HIDE DEF s
  <2> QED BY <2>1, <2>2 DEF Reached, Closed, Fresh
<1>5. ASSUME Build(npc) PROVE LastPc(g', cBB') = pc /\ g.insMap[pc] = NoBlock
  <2> DEFINE n == AddIns(g, b, pc)
             m == SetTermAddr(n, b, pc)
             t == GetNextBlock(m, b, npc)
  <2>1. ~g.readOnly[b] /\ g.insMap[pc] = NoBlock /\ Become(TranslateRiscv(g, b, npc))
    BY <1>5 DEF Build, BbInBlock
  <2>2. /\ Settled(g, b, pc) /\ Sound(g) /\ WellFormed(g) /\ LaidOut(g) /\ g \in Graph
        /\ b \in g.bbMap /\ b \in Addr /\ g.bbMap \subseteq Addr /\ g.fault = "none"
        /\ pc = b + Len(g.vecIns[b]) /\ \A x \in g.bbMap \ {b} : Closed(g, x)
    BY <1>1, <2>1 DEF ReplayInv, Settled, Sound, WellFormed, Graph
  <2> HIDE DEF b
  <2>3. /\ n = [g EXCEPT !.vecIns[b] = Append(@, pc), !.insMap[pc] = b]
        /\ WellFormed(n)
    BY <1>2, <2>1, <2>2, AddInsWF DEF AddIns
  <2>4. /\ n.vecIns[b] = Append(g.vecIns[b], pc) /\ n.vecIns[b] # <<>>
        /\ LastPc(n, b) = pc
    <3>1. g.vecIns[b] \in Seq(Addr) /\ n.vecIns[b] = Append(g.vecIns[b], pc)
      <4>1. g.vecIns \in [Addr -> Seq(Addr)] /\ n.vecIns = [g.vecIns EXCEPT ![b] = Append(@, pc)]
        BY <2>2, <2>3 DEF Graph
      <4> HIDE DEF n
      <4> QED BY <2>2, <4>1
    <3> QED BY <1>2, <3>1 DEF LastPc
  <2>5. CASE EndsBlock(code[pc])
    <3>1. cBB' = t.blk /\ g' = t.graph
      BY <2>1, <2>5 DEF Become, TranslateRiscv
    <3>2. /\ LaidOut(n) /\ n.bbMap = g.bbMap /\ n.readOnly = g.readOnly /\ n.fault = g.fault
          /\ \A x \in Addr \ {b} : n.vecIns[x] = g.vecIns[x]
      <4>1. /\ n = AddIns(g, b, pc) /\ WellFormed(g) /\ LaidOut(g) /\ b \in g.bbMap
            /\ ~g.readOnly[b] /\ pc \in Addr /\ pc = b + Len(g.vecIns[b])
            /\ g.insMap[pc] = NoBlock
        BY <1>2, <2>1, <2>2
      <4> HIDE DEF n
      <4> QED BY <4>1, AddInsLaid
    <3> HIDE DEF n
    <3>3. Sound(n) /\ \A x \in n.bbMap \ {b} : Closed(n, x)
      BY <2>2, <2>3, <3>2 DEF Sound, Closed
    <3>4. Sound(m) /\ Same(m, n)
      BY <1>2, <2>2, <3>3, SetTermAddrSound
    <3> HIDE DEF m
    <3>5. Shut(m, b)
      BY <2>2, <2>4, <3>2, <3>3, <3>4 DEF Shut, Same, Closed
    <3> QED BY <1>2, <3>1, <3>5, NextClosed
  <2>6. CASE ~EndsBlock(code[pc])
    <3>1. cBB' = b /\ g' = n
      BY <2>1, <2>6 DEF Become, TranslateRiscv
    <3> HIDE DEF n
    <3> QED BY <2>1, <2>4, <3>1
  <2> QED BY <2>5, <2>6
<1>6. ASSUME Join(npc) PROVE FALSE
  <2> DEFINE m == SetTermAddr(g, b, LastPc(g, b))
             s == GetNextBlock(m, b, pc)
             u == SetTermAddr(s.graph, s.blk, pc)
             t == GetNextBlock(u, s.blk, npc)
  <2>1. /\ b = cBB /\ ~g.readOnly[b] /\ g.insMap[pc] # NoBlock
        /\ Settled(g, b, pc) /\ Sound(g) /\ b \in Addr
    BY SMTT(30), <1>1, <1>6 DEF Join, BbInBlock, ReplayInv, Settled, Sound, WellFormed, Graph
  <2>2. ~IsEmpty(g, b)
    <3> SUFFICES ASSUME IsEmpty(g, b) PROVE FALSE
      OBVIOUS
    <3>1. g.vecIns[b] = <<>> /\ Len(g.vecIns[b]) = 0
      BY DEF IsEmpty
    <3>2. pc = b
      BY <2>1, <3>1, AddrFacts DEF Settled
    <3> QED BY <2>1, <3>1, <3>2 DEF Settled
  <2>3. Become(s) \/ Become(TranslateRiscv(s.graph, s.blk, npc))
    BY <1>6, <2>2 DEF Join
  <2>4. LastPc(g, b) \in Nat
    <3>1. g.vecIns[b] \in Seq(Addr) /\ g.vecIns[b] # <<>>
      BY <2>1, <2>2 DEF IsEmpty, Sound, WellFormed, Graph
    <3>2. g.vecIns[b][Len(g.vecIns[b])] \in Addr
      BY <3>1
    <3> QED BY <3>2, AddrFacts DEF LastPc
  <2> HIDE DEF b
  <2>5. Sound(m) /\ Same(m, g)
    BY <2>1, <2>4, SetTermAddrSound
  <2> HIDE DEF m
  <2>6. Shut(m, b) /\ m.insMap[pc] # NoBlock
    BY <2>1, <2>2, <2>5 DEF Shut, Same, Settled, IsEmpty, Closed
  <2>7. Settled(s.graph, s.blk, pc) /\ s.graph.readOnly[s.blk]
    BY <1>2, <2>6, GetNextBlockSettled
  <2> HIDE DEF s
  <2>8. /\ Sound(s.graph) /\ s.blk \in Addr /\ s.graph.vecIns[s.blk] # <<>>
        /\ AddIns(s.graph, s.blk, pc) = s.graph
    BY <2>7 DEF Settled, Sound, WellFormed, Graph, AddIns
  <2>9. CASE EndsBlock(code[pc])
    <3>1. Sound(u) /\ Same(u, s.graph)
      BY <1>2, <2>8, SetTermAddrSound
    <3>2. TranslateRiscv(s.graph, s.blk, npc) = t
      BY <2>8, <2>9 DEF TranslateRiscv
    <3> HIDE DEF u
    <3>3. Shut(u, s.blk)
      BY <2>7, <2>8, <3>1 DEF Settled, Shut, Same, Closed
    <3>4. t.graph.readOnly[t.blk] \/ t.graph.vecIns[t.blk] = <<>>
      BY <1>2, <3>3, NextClosed
    <3> HIDE DEF t
    <3> QED BY <2>3, <2>7, <3>2, <3>4 DEF Become
  <2>10. CASE ~EndsBlock(code[pc])
    <3>1. TranslateRiscv(s.graph, s.blk, npc) = [blk |-> s.blk, graph |-> s.graph]
      BY <2>8, <2>10 DEF TranslateRiscv
    <3> QED BY <2>3, <2>7, <3>1 DEF Become
  <2> QED BY <2>9, <2>10
<1> QED BY <1>3, <1>4, <1>5, <1>6

-----------------------------------------------------------------------------
(* How often q was gone to, from each address. *)
Into(q) == [p \in Addr |-> globalEdges[p][q]]

(* Every execution but the last record's was gone from, every one but the  *)
(* first record's gone to.                                                 *)
Balanced ==
  /\ \A p \in Addr : SumFunctionOnSet(globalEdges[p], Addr) = counts[p]
  /\ \A q \in Addr :
       SumFunctionOnSet(Into(q), Addr) + Once(q = first) = counts[q] + Once(q = pc)

LEMMA AddrFinite == IsFiniteSet(Addr)
BY FS_Interval, AddrAssumption DEF Addr

LEMMA RecordBalanced ==
  ASSUME TypeOK, counts \in [Addr -> Nat], Balanced, NEW npc \in Addr, Record(npc)
  PROVE  Balanced'
<1>1. /\ IsFiniteSet(Addr) /\ pc \in Addr /\ counts \in [Addr -> Nat]
      /\ \A p \in Addr : counts[p] \in Nat
      /\ globalEdges \in [Addr -> [Addr -> 0 .. EdgeCap]]
      /\ \A p, q \in Addr : globalEdges[p][q] \in Nat
  BY AddrFinite, EdgeCapAssumption DEF TypeOK
<1>2. globalEdges[pc][npc] < EdgeCap
  <2>1. globalEdges[pc][npc] <= SumFunctionOnSet(globalEdges[pc], Addr)
    BY <1>1, SumMember
  <2>2. counts[pc] <= SumFunctionOnSet(counts, Addr)
    BY <1>1, SumMember
  <2>3. Replayed = SumFunctionOnSet(counts, Addr)
    <3>1. DOMAIN counts = Addr
      BY <1>1
    <3> QED BY <3>1 DEF Replayed, SumFunction
  <2>4. Replayed < MaxTrace
    BY DEF Record
  <2>5. Replayed \in Nat
    BY <1>1, <2>3, SumType
  <2>6. SumFunctionOnSet(globalEdges[pc], Addr) = counts[pc]
    BY <1>1 DEF Balanced
  <2> QED BY <1>1, <2>1, <2>2, <2>3, <2>4, <2>5, <2>6, MaxTraceAssumption, EdgeCapAssumption
<1>3. /\ pc' = npc /\ first' = first
      /\ \A p \in Addr : counts'[p] = counts[p] + Once(p = pc)
      /\ \A p, q \in Addr : globalEdges'[p][q] = IF p = pc /\ q = npc THEN globalEdges[p][q] + 1
                                                 ELSE globalEdges[p][q]
  <2>1. /\ globalEdges' = [globalEdges EXCEPT ![pc][npc] = globalEdges[pc][npc] + 1]
        /\ pc' = npc /\ first' = first /\ counts' = [counts EXCEPT ![pc] = counts[pc] + 1]
    BY <1>1, <1>2 DEF Record, Step, CountEdge, CountInsn
  <2> QED BY <1>1, <2>1 DEF Once
<1>4. ASSUME NEW p \in Addr
      PROVE  SumFunctionOnSet(globalEdges'[p], Addr) = counts'[p]
  <2>1. SumFunctionOnSet(globalEdges[p], Addr) = counts[p]
    BY DEF Balanced
  <2>2. CASE p = pc
    <3>1. /\ globalEdges'[p][npc] = globalEdges[p][npc] + 1
          /\ \A y \in Addr \ {npc} : globalEdges'[p][y] = globalEdges[p][y]
      BY <1>3, <2>2
    <3>2. SumFunctionOnSet(globalEdges'[p], Addr) = SumFunctionOnSet(globalEdges[p], Addr) + 1
      <4> DEFINE e == globalEdges'[p]
                 f == globalEdges[p]
      <4>1. /\ IsFiniteSet(Addr) /\ npc \in Addr /\ \A y \in Addr : f[y] \in Nat
            /\ e[npc] = f[npc] + 1 /\ \A y \in Addr \ {npc} : e[y] = f[y]
        BY <1>1, <3>1
      <4> HIDE DEF e, f
      <4>2. SumFunctionOnSet(e, Addr) = SumFunctionOnSet(f, Addr) + 1
        BY <4>1, SumStep
      <4> QED BY <4>2 DEF e, f
    <3> QED BY <1>3, <2>1, <2>2, <3>2 DEF Once
  <2>3. CASE p # pc
    <3>1. \A y \in Addr : globalEdges'[p][y] = globalEdges[p][y]
      BY <1>3, <2>3
    <3>2. SumFunctionOnSet(globalEdges'[p], Addr) = SumFunctionOnSet(globalEdges[p], Addr)
      BY <1>1, <3>1, SumSame
    <3> QED BY <1>1, <1>3, <2>1, <2>3, <3>2 DEF Once
  <2> QED BY <2>2, <2>3
<1>5. ASSUME NEW q \in Addr
      PROVE  SumFunctionOnSet(Into(q)', Addr) + Once(q = first) = counts'[q] + Once(q = npc)
  <2> DEFINE e == Into(q)'
             f == Into(q)
  <2>1. SumFunctionOnSet(f, Addr) + Once(q = first) = counts[q] + Once(q = pc)
    BY DEF Balanced
  <2>2. \A p \in Addr : e[p] = globalEdges'[p][q] /\ f[p] = globalEdges[p][q] /\ f[p] \in Nat
    BY <1>1 DEF Into
  <2>3. \A p \in Addr : e[p] = IF p = pc /\ q = npc THEN f[p] + 1 ELSE f[p]
    BY <1>3, <2>2
  <2> HIDE DEF e, f
  <2>4. SumFunctionOnSet(f, Addr) \in Nat
    BY <1>1, <2>2, SumType
  <2>5. SumFunctionOnSet(e, Addr) = SumFunctionOnSet(f, Addr) + Once(q = npc)
    <3>1. CASE q = npc
      <4>1. e[pc] = f[pc] + 1 /\ \A y \in Addr \ {pc} : e[y] = f[y]
        BY <1>1, <2>3, <3>1
      <4>2. SumFunctionOnSet(e, Addr) = SumFunctionOnSet(f, Addr) + 1
        BY <1>1, <2>2, <4>1, SumStep
      <4> QED BY <3>1, <4>2 DEF Once
    <3>2. CASE q # npc
      <4>1. \A y \in Addr : e[y] = f[y]
        BY <2>3, <3>2
      <4>2. SumFunctionOnSet(e, Addr) = SumFunctionOnSet(f, Addr)
        BY <1>1, <2>2, <4>1, SumSame
      <4> QED BY <2>4, <3>2, <4>2 DEF Once
    <3> QED BY <3>1, <3>2
  <2>6. Once(q = npc) \in {0, 1} /\ Once(q = pc) \in {0, 1} /\ Once(q = first) \in {0, 1}
    BY DEF Once
  <2>7. counts[q] \in Nat /\ counts'[q] = counts[q] + Once(q = pc)
    BY <1>1, <1>3
  <2>8. SumFunctionOnSet(e, Addr) + Once(q = first) = counts'[q] + Once(q = npc)
    BY <2>1, <2>4, <2>5, <2>6, <2>7
  <2> QED BY <2>8 DEF e
<1> QED BY <1>3, <1>4, <1>5 DEF Balanced

LEMMA InitBalanced == ASSUME ReportInit PROVE Balanced
<1>1. /\ globalEdges = [p \in Addr |-> [q \in Addr |-> 0]] /\ first = pc
      /\ counts = [a \in Addr |-> 0] /\ IsFiniteSet(Addr) /\ pc \in Addr
  BY AddrFinite DEF ReportInit, Init
<1>2. ASSUME NEW f, \A x \in Addr : f[x] = 0 PROVE SumFunctionOnSet(f, Addr) = 0
  <2>1. {x \in Addr : f[x] = 1} = {}
    BY <1>2
  <2>2. SumFunctionOnSet(f, Addr) = Cardinality({x \in Addr : f[x] = 1})
    BY <1>1, <1>2, SumOnes
  <2> QED BY <2>1, <2>2, FS_EmptySet
<1>3. \A p \in Addr : SumFunctionOnSet(globalEdges[p], Addr) = 0
  BY <1>1, <1>2
<1>4. \A q \in Addr : SumFunctionOnSet(Into(q), Addr) = 0
  BY <1>1, <1>2 DEF Into
<1> QED BY <1>1, <1>3, <1>4 DEF Balanced

-----------------------------------------------------------------------------
(* While the trace is replayed, the open block has just been executed for  *)
(* the first time.                                                         *)
OpenOnce ==
  ~g.readOnly[cBB] /\ g.vecIns[cBB] # <<>> => counts[LastPc(g, cBB)] = 1

(* Afterwards, a transition that is not in the graph happened once, back   *)
(* or to the last record ...                                               *)
Missed(e) == globalEdges[e[1]][e[2]] = 1 /\ (e[2] <= e[1] \/ e[2] = pc)
Accounted ==
  \A e \in Addr \X Addr : globalEdges[e[1]][e[2]] > 0 => e \in Flowed \/ Missed(e)

(* ... and the weights are looked up where they were counted. *)
Tipped(h) ==
  \A x \in h.bbMap : h.succs[x] # {} => h.vecIns[x] # <<>> /\ h.termAddr[x] = LastPc(h, x)

(* The inductive invariant behind the sums. *)
TallyInv ==
  /\ CountInv
  /\ first \in Addr /\ Balanced
  /\ phase = "replay" => CompleteInv /\ OpenOnce
  /\ phase # "replay" => Accounted /\ Tipped(g)

LEMMA InitTallyInv == ASSUME ~Traps, ReportInit PROVE TallyInv
<1>1. /\ Init /\ phase = "replay" /\ first = pc /\ pc \in Addr /\ cBB = pc
  BY DEF ReportInit, Init
<1>2. g.vecIns = [a \in Addr |-> <<>>]
  <2>1. g = Construct(EmptyGraph, pc)
    BY DEF ReportInit, Init
  <2> QED BY <2>1 DEF Construct, EmptyGraph
<1>3. g.vecIns[cBB] = <<>>
  BY <1>1, <1>2
<1> QED BY <1>1, <1>3, InitCountInv, InitBalanced, InitCompleteInv DEF TallyInv, OpenOnce

LEMMA RecordTally ==
  ASSUME ~Traps, DistinctKeys, EdgeCap > 0, TallyInv, NEW npc \in NextPcs(pc), Record(npc)
  PROVE  TallyInv'
<1>1. Step(npc) /\ first' = first /\ counts' = [counts EXCEPT ![pc] = counts[pc] + 1]
  BY DEF Record, CountInsn
<1>2. /\ phase = "replay" /\ phase' = "replay" /\ CountInv /\ CompleteInv /\ FlowInv
      /\ counts \in [Addr -> Nat] /\ Seen = {a \in Addr : counts[a] > 0}
  BY <1>1 DEF Step, Running, TallyInv, CountInv
<1>3. ReplayInv /\ TypeOK /\ pc \in Addr /\ npc \in Addr
  <2>1. PathInv
    BY <1>2 DEF FlowInv, TrailInv
  <2>2. ReplayInv
    BY <2>1 DEF PathInv, RunInv
  <2>3. TypeOK
    BY <2>2 DEF ReplayInv, GraphInv
  <2> QED BY <2>2, <2>3 DEF TypeOK, NextPcs
<1>4. CountInv'
  BY StepCountInv DEF TallyInv, ReportNext
<1>5. CompleteInv'
  BY <1>1, <1>2, StepCompleteInv DEF Next
<1>6. Balanced'
  BY <1>2, <1>3, RecordBalanced DEF TallyInv
<1>7. ASSUME ~g'.readOnly[cBB'], g'.vecIns[cBB'] # <<>>
      PROVE  counts'[LastPc(g', cBB')] = 1
  <2>1. LastPc(g', cBB') = pc /\ g.insMap[pc] = NoBlock
    BY <1>1, <1>7, <1>3, RecordOpens DEF Step
  <2>2. counts[pc] = 0
    BY <1>2, <1>3, <2>1 DEF Seen, BbInBlock
  <2> QED BY <1>1, <1>2, <1>3, <2>1, <2>2
<1>8. OpenOnce'
  BY <1>7 DEF OpenOnce
<1> QED BY <1>1, <1>2, <1>4, <1>5, <1>6, <1>8 DEF TallyInv

LEMMA EndTally ==
  ASSUME ~Traps, DistinctKeys, TallyInv, EndTrace, UNCHANGED <<counts, first>>
  PROVE  TallyInv'
<1>1. /\ phase = "replay" /\ phase' = "clean"
      /\ UNCHANGED <<code, pc, globalEdges, g, cBB, counts, first>>
      /\ CountInv /\ CompleteInv /\ OpenOnce /\ PathInv /\ TypeOK /\ Balanced
      /\ counts \in [Addr -> Nat] /\ g \in Graph /\ LaidOut(g) /\ cBB \in Addr /\ ReplayInv
      /\ g.bbMap \subseteq Addr
      /\ Flows(g, Possible, {}) /\ \A x \in g.bbMap : g.readOnly[x] => g.vecIns[x] # <<>>
  BY DEF EndTrace, Running, TallyInv, CountInv, FlowInv, TrailInv, SpanInv, PathInv, RunInv,
     ReplayInv, Settled, Sound, TypeOK, Closed, Graph
<1>2. CountInv'
  BY StepCountInv DEF TallyInv, ReportNext
<1>3. Balanced'
  <2>1. \A q : Into(q)' = Into(q)
    BY <1>1 DEF Into
  <2> QED BY <1>1, <2>1 DEF Balanced
<1>4. KeysApart
  BY <1>1 DEF KeysApart, DistinctKeys
<1>5. ASSUME NEW e \in Addr \X Addr, globalEdges[e[1]][e[2]] > 0
      PROVE  e \in Flowed' \/ Missed(e)
  <2> DEFINE p == e[1]
             q == e[2]
  <2>1. p \in Addr /\ q \in Addr /\ Met(p, q) /\ globalEdges[p][q] \in Nat
    BY <1>1, <1>4, EdgeCapAssumption DEF CompleteInv, TypeOK
  <2>2. e \in Flowed' <=> InTable(g, p, q)
    BY <1>1 DEF Flowed, InGraph, InTable, IsEmpty, LastPc
  <2>3. CASE Flowing(g, cBB, p, q)
    <3>1. InGraph(p, q)
      BY <1>1, <2>1, <2>3, FlowingInGraph
    <3>2. CASE InTable(g, p, q)
      BY <2>2, <3>2
    <3>3. CASE ~InTable(g, p, q)
      <4>1. ~g.readOnly[cBB] /\ g.vecIns[cBB] # <<>> /\ LastPc(g, cBB) = p /\ pc = q
        BY <3>1, <3>3 DEF InGraph, IsEmpty
      <4>2. counts[p] = 1
        BY <1>1, <4>1 DEF OpenOnce
      <4>3. SumFunctionOnSet(globalEdges[p], Addr) = counts[p]
        BY <1>1, <2>1 DEF Balanced
      <4>4. globalEdges[p][q] <= SumFunctionOnSet(globalEdges[p], Addr)
        <5>1. \A y \in Addr : globalEdges[p][y] \in Nat
          BY <1>1, <2>1, EdgeCapAssumption DEF TypeOK
        <5> QED BY <2>1, <5>1, AddrFinite, SumMember
      <4> QED BY <1>5, <2>1, <4>1, <4>2, <4>3, <4>4 DEF Missed
    <3> QED BY <3>2, <3>3
  <2>4. CASE ~Flowing(g, cBB, p, q)
    BY <1>5, <2>1, <2>4 DEF Met, Missed
  <2> QED BY <2>3, <2>4
<1>6. Accounted'
  BY <1>1, <1>5 DEF Accounted, Missed
<1>7. Tipped(g)'
  <2>1. \A x \in g.bbMap : g.succs[x] # {} => g.readOnly[x]
    BY <1>1 DEF Flows
  <2>2. \A x \in g.bbMap : g.readOnly[x] => g.termAddr[x] = LastPc(g, x)
    BY <1>1 DEF Flows
  <2> QED BY <1>1, <2>1, <2>2 DEF Tipped, LastPc
<1> QED BY <1>1, <1>2, <1>3, <1>6, <1>7 DEF TallyInv

LEMMA CleanTally ==
  ASSUME ~Traps, DistinctKeys, TallyInv, CleanStep, UNCHANGED <<counts, first>>
  PROVE  TallyInv'
<1>1. PICK b \in Empties : Alive("clean") /\ Change(RemoveEmpty(g, b))
  BY DEF CleanStep
<1>2. /\ phase = "clean" /\ phase' = "clean" /\ UNCHANGED <<code, pc, globalEdges, cBB, counts, first>>
      /\ CountInv /\ Accounted /\ Tipped(g) /\ Balanced /\ TypeOK /\ counts \in [Addr -> Nat]
      /\ Seen = {a \in Addr : counts[a] > 0} /\ g \in Graph /\ b \in g.bbMap /\ b \in Addr
      /\ pc \in Addr /\ g.vecIns[b] = <<>> /\ g' = RemoveEmpty(g, b) /\ FlowInv /\ Ready(g) /\ Sym(g)
  BY <1>1 DEF Alive, Change, TallyInv, CountInv, FlowInv, TrailInv, SpanInv, TypeOK, Empties,
     IsEmpty, Graph
<1>3. CountInv'
  BY StepCountInv DEF TallyInv, ReportNext
<1>4. Balanced'
  <2>1. \A q : Into(q)' = Into(q)
    BY <1>2 DEF Into
  <2> QED BY <1>2, <2>1 DEF Balanced
<1>5. pc \notin Seen /\ Flowed' = Flowed \ (Addr \X {pc})
  BY <1>1, <1>2, CleanForgets
<1>6. ASSUME NEW e \in Addr \X Addr, globalEdges[e[1]][e[2]] > 0
      PROVE  e \in Flowed' \/ Missed(e)
  <2>1. CASE e[2] # pc
    <3>1. e \notin Addr \X {pc}
      BY <2>1
    <3> QED BY <1>2, <1>5, <1>6, <3>1 DEF Accounted
  <2>2. CASE e[2] = pc
    <3>1. counts[pc] = 0
      BY <1>2, <1>5
    <3>2. SumFunctionOnSet(Into(pc), Addr) + Once(pc = first) = counts[pc] + Once(pc = pc)
      BY <1>2 DEF Balanced
    <3>3. \A p \in Addr : Into(pc)[p] = globalEdges[p][pc] /\ Into(pc)[p] \in Nat
      BY <1>2, EdgeCapAssumption DEF Into, TypeOK
    <3>4. /\ e[1] \in Addr /\ Into(pc)[e[1]] <= SumFunctionOnSet(Into(pc), Addr)
          /\ SumFunctionOnSet(Into(pc), Addr) \in Nat
      BY <3>3, AddrFinite, SumMember, SumType
    <3>5. SumFunctionOnSet(Into(pc), Addr) <= 1
      BY <3>1, <3>2, <3>4 DEF Once
    <3>6. globalEdges[e[1]][pc] = 1
      BY <1>6, <2>2, <3>3, <3>4, <3>5
    <3> QED BY <2>2, <3>6 DEF Missed
  <2> QED BY <2>1, <2>2
<1>7. Accounted'
  BY <1>2, <1>6 DEF Accounted, Missed
<1>8. Tipped(g)'
  <2>1. g.succs[b] = {}
    BY <1>2 DEF Ready
  <2>2. Emptied(g', g, b)
    BY <1>2, <2>1, RemoveEmptyFields
  <2>5. /\ g.vecIns \in [Addr -> Seq(Addr)] /\ g.termAddr \in [Addr -> Nat]
    BY <1>2 DEF Graph
  <2>6. g'.termAddr = [g.termAddr EXCEPT ![b] = 0]
    BY <1>2, <2>1 DEF RemoveEmpty, Delete, Graph
  <2>3. /\ g'.bbMap = g.bbMap \ {b}
        /\ \A x \in Addr \ {b} : /\ g'.vecIns[x] = g.vecIns[x] /\ g'.termAddr[x] = g.termAddr[x]
                                 /\ g'.succs[x] = g.succs[x] \ {b}
    BY <2>2, <2>5, <2>6 DEF Emptied
  <2>4. g.bbMap \subseteq Addr
    BY <1>2 DEF Graph
  <2> QED BY <1>2, <2>3, <2>4 DEF Tipped, LastPc
<1> QED BY <1>2, <1>3, <1>4, <1>7, <1>8 DEF TallyInv

-----------------------------------------------------------------------------
LEMMA MergeTipped ==
  ASSUME NEW h \in Graph, Tipped(h), NEW b \in Addr, NEW c \in h.bbMap, b # c,
         h.vecIns[c] # <<>>, NEW n, n = MergeWithSucc(h, b, c)
  PROVE  Tipped(n)
<1>1. /\ c \in Addr /\ h.bbMap \subseteq Addr /\ h.vecIns \in [Addr -> Seq(Addr)]
      /\ h.termAddr \in [Addr -> Nat]
  BY DEF Graph
<1>2. Fused(n, h, b, c)
  BY <1>1, MergeFields
<1>3. n.termAddr = [[h.termAddr EXCEPT ![b] = h.termAddr[c]] EXCEPT ![c] = 0]
  BY DEF MergeWithSucc, Delete, Graph
<1>4. LastPc(n, b) = LastPc(h, c) /\ n.vecIns[b] # <<>>
  <2> DEFINE s == h.vecIns[b]
             t == h.vecIns[c]
  <2>1. n.vecIns[b] = s \o t /\ s \in Seq(Addr) /\ t \in Seq(Addr) /\ t # <<>>
    BY <1>1, <1>2 DEF Fused
  <2> HIDE DEF s
  <2>2. LastPc(h, c) = t[Len(t)]
    BY DEF LastPc
  <2> HIDE DEF t
  <2>3. Len(s \o t) = Len(s) + Len(t) /\ (s \o t)[Len(s) + Len(t)] = t[Len(t)] /\ s \o t # <<>>
    BY <2>1
  <2> QED BY <2>1, <2>2, <2>3 DEF LastPc
<1> SUFFICES ASSUME NEW x \in n.bbMap, n.succs[x] # {}
             PROVE  n.vecIns[x] # <<>> /\ n.termAddr[x] = LastPc(n, x)
  BY DEF Tipped
<1>5. x \in h.bbMap /\ x # c /\ x \in Addr
  BY <1>1, <1>2 DEF Fused
<1>6. CASE x = b
  <2>1. h.succs[c] # {} /\ n.termAddr[b] = h.termAddr[c]
    BY <1>1, <1>2, <1>3, <1>5, <1>6 DEF Fused
  <2> QED BY <1>4, <1>6, <2>1 DEF Tipped
<1>7. CASE x # b
  <2>1. h.succs[x] # {} /\ n.termAddr[x] = h.termAddr[x] /\ n.vecIns[x] = h.vecIns[x]
    BY <1>1, <1>2, <1>3, <1>5, <1>7 DEF Fused
  <2> QED BY <1>5, <2>1 DEF Tipped, LastPc
<1> QED BY <1>6, <1>7

LEMMA RestTally ==
  ASSUME ~Traps, DistinctKeys, EdgeCap > 0, TallyInv, UNCHANGED <<counts, first>>,
         MergeStep \/ EndClean \/ EndMerge \/ UNCHANGED vars
  PROVE  TallyInv'
<1>1. CountInv /\ FlowInv /\ Balanced /\ first \in Addr
  BY DEF TallyInv, CountInv
<1>2. CountInv'
  <2>1. [ReportNext]_reportVars
    BY DEF ReportNext, reportVars
  <2> QED BY <1>1, <2>1, StepCountInv
<1>3. UNCHANGED <<code, pc, globalEdges, cBB, counts, first>>
  BY DEF MergeStep, EndClean, EndMerge, Change, Continue, vars
<1>4. Balanced'
  <2>1. \A q : Into(q)' = Into(q)
    BY <1>3 DEF Into
  <2> QED BY <1>1, <1>3, <2>1 DEF Balanced
<1>5. CASE UNCHANGED vars
  <2>1. UNCHANGED <<g, phase>>
    BY <1>5 DEF vars
  <2>2. phase = "replay" => CompleteInv'
    BY <1>5, StepCompleteInv DEF TallyInv
  <2>3. Accounted' <=> Accounted
    BY <1>3, <2>1 DEF Accounted, Missed, Flowed, InGraph
  <2> QED BY <1>2, <1>3, <1>4, <2>1, <2>2, <2>3 DEF TallyInv, OpenOnce
<1>6. ASSUME MergeStep \/ EndClean \/ EndMerge
      PROVE  phase # "replay" /\ phase' # "replay" /\ UNCHANGED Flowed /\ Tipped(g')
  <2>1. CASE MergeStep
    <3>0. PICK b \in Mergables : \E c \in g.succs[b] : Change(MergeWithSucc(g, b, c))
      BY <2>1 DEF MergeStep
    <3>1. PICK c \in g.succs[b] : Change(MergeWithSucc(g, b, c))
      BY <3>0
    <3>2. phase = "merge" /\ phase' = "merge" /\ Alive("merge") /\ g' = MergeWithSucc(g, b, c)
      BY <2>1, <3>1 DEF MergeStep, Alive, Change
    <3>3. UNCHANGED Flowed
      BY <1>1, <3>1, <3>2, MergeUnseen DEF Unseen
    <3>4. /\ g \in Graph /\ Sym(g) /\ b \in g.bbMap /\ MergableWithSucc(g, b) /\ Tipped(g)
          /\ \A x \in g.bbMap : g.vecIns[x] # <<>>
      BY <1>1, <3>2 DEF FlowInv, TrailInv, SpanInv, TypeOK, Mergables, TallyInv
    <3>5. c \in g.bbMap /\ b \in Addr
      BY <3>4, MergableChained
    <3>6. CASE b = c
      <4>1. /\ g'.bbMap = g.bbMap /\ g'.vecIns = g.vecIns /\ g'.succs = g.succs
            /\ g'.termAddr = g.termAddr
        BY <3>2, <3>4, <3>6 DEF MergeWithSucc, Abort, Graph
      <4> QED BY <3>2, <3>3, <3>4, <4>1 DEF Tipped, LastPc
    <3>7. CASE b # c
      BY <3>2, <3>3, <3>4, <3>5, <3>7, MergeTipped
    <3> QED BY <3>6, <3>7
  <2>2. CASE EndClean \/ EndMerge
    <3>1. /\ phase \in {"clean", "merge"} /\ phase' \in {"merge", "region"} /\ UNCHANGED g
      BY <2>2 DEF EndClean, EndMerge, Alive, Continue
    <3>2. UNCHANGED Flowed
      BY <1>1, <2>2, RestUnseen DEF Unseen
    <3> QED BY <3>1, <3>2 DEF TallyInv
  <2> QED BY <1>6, <2>1, <2>2
<1>7. CASE MergeStep \/ EndClean \/ EndMerge
  <2>1. Accounted'
    BY <1>3, <1>6, <1>7 DEF TallyInv, Accounted, Missed
  <2>2. Tipped(g)'
    BY <1>6, <1>7 DEF Tipped, LastPc
  <2> QED BY <1>1, <1>2, <1>3, <1>4, <1>6, <1>7, <2>1, <2>2 DEF TallyInv
<1> QED BY <1>5, <1>7

LEMMA StepTallyInv ==
  ASSUME ~Traps, DistinctKeys, EdgeCap > 0, TallyInv, [ReportNext]_reportVars
  PROVE  TallyInv'
<1>1. ASSUME NEW npc \in NextPcs(pc), Record(npc) PROVE TallyInv'
  BY <1>1, RecordTally
<1>2. ASSUME EndTrace \/ CleanStep \/ EndClean \/ MergeStep \/ EndMerge \/ UNCHANGED vars,
             UNCHANGED <<counts, first>>
      PROVE  TallyInv'
  BY <1>2, EndTally, CleanTally, RestTally
<1> QED BY <1>1, <1>2 DEF ReportNext, reportVars, Done

-----------------------------------------------------------------------------
(* What the report starts from. *)
LEMMA RegionFacts ==
  ASSUME TallyInv, phase = "region"
  PROVE  /\ g \in Graph /\ g.bbMap \subseteq Addr /\ Sym(g) /\ Unique(g) /\ Tipped(g)
         /\ counts \in [Addr -> Nat] /\ IsFiniteSet(Addr)
         /\ \A p, q \in Addr : globalEdges[p][q] \in Nat
         /\ \A b \in g.bbMap : /\ Len(g.vecIns[b]) \in Nat \ {0} /\ g.vecIns[b] # <<>>
                               /\ g.vecIns[b][1] = b
                               /\ LastPc(g, b) = g.vecIns[b][Len(g.vecIns[b])]
                               /\ \A i \in 1 .. Len(g.vecIns[b]) : g.vecIns[b][i] \in Addr
<1>1. /\ CountInv /\ FlowInv /\ TrailInv /\ Unique(g) /\ Tipped(g) /\ counts \in [Addr -> Nat]
      /\ Sym(g) /\ Ready(g) /\ \A b \in g.bbMap : g.vecIns[b] # <<>>
  BY DEF TallyInv, CountInv, FlowInv, TrailInv, SpanInv
<1>2. TypeOK
  BY <1>1 DEF TrailInv, SpanInv
<1>3. g \in Graph /\ g.bbMap \subseteq Addr /\ globalEdges \in [Addr -> [Addr -> 0 .. EdgeCap]]
  BY <1>2 DEF TypeOK, Graph
<1>4. \A p, q \in Addr : globalEdges[p][q] \in Nat
  BY <1>3, EdgeCapAssumption
<1>5. ASSUME NEW b \in g.bbMap
      PROVE  /\ Len(g.vecIns[b]) \in Nat \ {0} /\ g.vecIns[b][1] = b
             /\ \A i \in 1 .. Len(g.vecIns[b]) : g.vecIns[b][i] \in Addr
  <2> DEFINE v == g.vecIns[b]
  <2>1. b \in Addr /\ v # <<>> /\ Ready(g)
    BY <1>1, <1>3
  <2>2. v[1] = b
    BY <2>1 DEF Ready
  <2>3. v \in Seq(Addr)
    BY <1>3, <2>1 DEF Graph
  <2> HIDE DEF v
  <2>4. Len(v) \in Nat \ {0} /\ \A i \in 1 .. Len(v) : v[i] \in Addr
    BY <2>1, <2>3
  <2> QED BY <2>2, <2>4 DEF v
<1> QED BY <1>1, <1>3, <1>4, <1>5, AddrFinite DEF LastPc

(* What is not in the graph did not happen, or is lost. *)
LEMMA OnlyLost ==
  ASSUME TallyInv, phase = "region", NEW p \in Addr, NEW q \in Addr, ~InTable(g, p, q)
  PROVE  /\ globalEdges[p][q] \in {0, 1}
         /\ globalEdges[p][q] = 1 <=> Lost(p, q)
<1>1. globalEdges[p][q] \in Nat
  BY RegionFacts
<1>2. globalEdges[p][q] > 0 => globalEdges[p][q] = 1 /\ (q <= p \/ q = pc)
  <2>1. <<p, q>> \in Addr \X Addr /\ <<p, q>>[1] = p /\ <<p, q>>[2] = q
    OBVIOUS
  <2>2. <<p, q>> \notin Flowed
    BY <2>1 DEF Flowed, InGraph
  <2> QED BY <2>1, <2>2, Zenon DEF TallyInv, Accounted, Missed
<1> QED BY <1>1, <1>2 DEF Lost

LEMMA SumLost ==
  ASSUME NEW S, IsFiniteSet(S), NEW f, \A x \in S : f[x] \in Nat, NEW T \in SUBSET S,
         NEW L \in SUBSET S, \A x \in T : x \notin L,
         \A x \in S \ T : f[x] \in {0, 1} /\ (f[x] = 1 <=> x \in L)
  PROVE  /\ SumFunctionOnSet(f, S) = SumFunctionOnSet(f, T) + Cardinality(L)
         /\ SumFunctionOnSet(f, T) \in Nat /\ Cardinality(L) \in Nat
<1>1. {x \in S \ T : f[x] = 1} = L
  OBVIOUS
<1>2. IsFiniteSet(S \ T) /\ IsFiniteSet(L)
  BY FS_Subset
<1>3. SumFunctionOnSet(f, S \ T) = Cardinality({x \in S \ T : f[x] = 1})
  BY <1>2, SumOnes
<1>4. Cardinality(L) \in Nat
  BY <1>2, FS_CardinalityType
<1> QED BY <1>1, <1>3, <1>4, SumSplit

(* Every execution of p went on along an edge or was lost ... *)
LEMMA GoesOn ==
  ASSUME TallyInv, phase = "region", NEW p \in Addr, NEW T, T = {q \in Addr : InTable(g, p, q)}
  PROVE  /\ SumFunctionOnSet(globalEdges[p], T) + LostFrom(p) = counts[p]
         /\ SumFunctionOnSet(globalEdges[p], T) \in Nat /\ LostFrom(p) \in Nat
<1> DEFINE L == {q \in Addr : Lost(p, q)}
<1>1. \A q \in T : q \notin L
  BY DEF Lost
<1>2. \A q \in Addr \ T : globalEdges[p][q] \in {0, 1} /\ (globalEdges[p][q] = 1 <=> q \in L)
  BY OnlyLost
<1>3. IsFiniteSet(Addr) /\ (\A q \in Addr : globalEdges[p][q] \in Nat)
  BY RegionFacts
<1>4. T \in SUBSET Addr /\ L \in SUBSET Addr /\ LostFrom(p) = Cardinality(L)
  BY DEF LostFrom
<1> HIDE DEF L
<1>5. SumFunctionOnSet(globalEdges[p], Addr) = counts[p]
  BY DEF TallyInv, Balanced
<1> QED BY <1>1, <1>2, <1>3, <1>4, <1>5, SumLost

(* ... and every execution of q came along one, was lost, or was the first. *)
LEMMA CameFrom ==
  ASSUME TallyInv, phase = "region", NEW q \in Addr, NEW T, T = {p \in Addr : InTable(g, p, q)}
  PROVE  /\ SumFunctionOnSet(Into(q), T) + Once(q = first) + LostInto(q)
              = counts[q] + Once(q = pc)
         /\ SumFunctionOnSet(Into(q), T) \in Nat /\ LostInto(q) \in Nat
<1> DEFINE L == {p \in Addr : Lost(p, q)}
           f == Into(q)
<1>0. \A p \in Addr : f[p] = globalEdges[p][q]
  BY DEF Into
<1>1. \A p \in T : p \notin L
  BY DEF Lost
<1> HIDE DEF f
<1>2. \A p \in Addr \ T : f[p] \in {0, 1} /\ (f[p] = 1 <=> p \in L)
  BY <1>0, OnlyLost
<1>3. IsFiniteSet(Addr) /\ (\A p \in Addr : f[p] \in Nat) /\ counts[q] \in Nat
  BY <1>0, RegionFacts
<1>4. T \in SUBSET Addr /\ L \in SUBSET Addr /\ LostInto(q) = Cardinality(L)
  BY DEF LostInto
<1> HIDE DEF L
<1>5. SumFunctionOnSet(f, Addr) + Once(q = first) = counts[q] + Once(q = pc)
  BY DEF TallyInv, Balanced, f
<1>6. /\ SumFunctionOnSet(f, Addr) = SumFunctionOnSet(f, T) + Cardinality(L)
      /\ SumFunctionOnSet(f, T) \in Nat /\ Cardinality(L) \in Nat
  BY <1>1, <1>2, <1>3, <1>4, SumLost
<1>7. Once(q = first) \in Nat
  BY DEF Once
<1>8. /\ SumFunctionOnSet(f, T) + Once(q = first) + LostInto(q) = counts[q] + Once(q = pc)
      /\ SumFunctionOnSet(f, T) \in Nat /\ LostInto(q) \in Nat
  BY <1>4, <1>5, <1>6, <1>7
<1> QED BY <1>8 DEF f

-----------------------------------------------------------------------------
(* Within a block an instruction has one way on and one way in. *)
LEMMA InnerWays ==
  ASSUME TallyInv, phase = "region", NEW b \in g.bbMap, NEW i \in 1 .. Len(g.vecIns[b]) - 1,
         NEW p, p = g.vecIns[b][i], NEW q, q = g.vecIns[b][i + 1]
  PROVE  /\ p \in Addr /\ q \in Addr
         /\ {y \in Addr : InTable(g, p, y)} = {q}
         /\ {x \in Addr : InTable(g, x, q)} = {p}
<1> DEFINE l == Len(g.vecIns[b])
<1>1. /\ i \in 1 .. l /\ i + 1 \in 1 .. l /\ i \in Nat /\ l \in Nat /\ i < l /\ i + 1 # 1
      /\ p \in Addr /\ q \in Addr /\ Unique(g) /\ Sym(g)
  <2>1. /\ l \in Nat \ {0} /\ Unique(g) /\ Sym(g)
        /\ \A k \in 1 .. l : g.vecIns[b][k] \in Addr
    BY RegionFacts
  <2> HIDE DEF l
  <2>2. i \in 1 .. l - 1
    BY DEF l
  <2> QED BY <2>1, <2>2
<1>2. \A x \in g.bbMap : Len(g.vecIns[x]) \in Nat \ {0} /\ g.vecIns[x][1] = x
                         /\ LastPc(g, x) = g.vecIns[x][Len(g.vecIns[x])]
  BY RegionFacts
<1>3. ASSUME NEW x \in g.bbMap, NEW j \in 1 .. Len(g.vecIns[x]), g.vecIns[x][j] = p
      PROVE  x = b /\ j = i
  BY <1>1, <1>3, UniquePlaces
<1>4. ASSUME NEW x \in g.bbMap, NEW j \in 1 .. Len(g.vecIns[x]), g.vecIns[x][j] = q
      PROVE  x = b /\ j = i + 1
  BY <1>1, <1>4, UniquePlaces
<1>5. InTable(g, p, q)
  BY DEF InTable
<1>6. ASSUME NEW y, InTable(g, p, y) PROVE y = q
  <2>1. PICK x \in g.bbMap : Stands(g, x, p, y)
    BY <1>6, TableStands
  <2>2. CASE Follows(g.vecIns[x], p, y)
    <3>1. PICK j \in 1 .. Len(g.vecIns[x]) - 1 : g.vecIns[x][j] = p /\ g.vecIns[x][j + 1] = y
      BY <2>2 DEF Follows
    <3>2. j \in 1 .. Len(g.vecIns[x])
      BY <1>2
    <3> QED BY <1>3, <3>1, <3>2
  <2>3. CASE LastPc(g, x) = p
    <3>1. Len(g.vecIns[x]) \in 1 .. Len(g.vecIns[x])
      BY <1>2
    <3>2. g.vecIns[x][Len(g.vecIns[x])] = p
      BY <1>2, <2>3
    <3>3. x = b /\ Len(g.vecIns[x]) = i
      BY <1>3, <3>1, <3>2
    <3> QED BY <1>1, <3>3
  <2> QED BY <2>1, <2>2, <2>3 DEF Stands
<1>7. ASSUME NEW y, InTable(g, y, q) PROVE y = p
  <2>1. PICK x \in g.bbMap : Stands(g, x, y, q)
    BY <1>7, TableStands
  <2>2. CASE Follows(g.vecIns[x], y, q)
    <3>1. PICK j \in 1 .. Len(g.vecIns[x]) - 1 : g.vecIns[x][j] = y /\ g.vecIns[x][j + 1] = q
      BY <2>2 DEF Follows
    <3>2. j + 1 \in 1 .. Len(g.vecIns[x]) /\ j \in Nat
      BY <1>2
    <3>3. x = b /\ j + 1 = i + 1
      BY <1>4, <3>1, <3>2
    <3>4. j = i
      BY <1>1, <3>2, <3>3
    <3> QED BY <3>1, <3>3, <3>4
  <2>3. CASE q \in g.succs[x]
    <3>1. q \in g.bbMap
      BY <1>1, <2>3, RegionFacts DEF Sym
    <3>2. 1 \in 1 .. Len(g.vecIns[q]) /\ g.vecIns[q][1] = q
      BY <1>2, <3>1
    <3>3. 1 = i + 1
      BY <1>4, <3>1, <3>2
    <3> QED BY <1>1, <3>3
  <2> QED BY <2>1, <2>2, <2>3 DEF Stands
<1> QED BY <1>1, <1>5, <1>6, <1>7

(* In the report the count of a block's first instruction is the count of  *)
(* all its instructions, but for the places where the trace begins or ends *)
(* or a transition was lost: no path into or out of the middle of a block  *)
(* is left.                                                                *)
THEOREM CountsAreUniform ==
  ASSUME ~Traps, DistinctKeys, EdgeCap > 0 PROVE ReportSpec => []CountsUniform
<1>1. TallyInv => CountsUniform
  <2> SUFFICES ASSUME TallyInv, phase = "region", NEW b \in g.bbMap,
                      NEW i \in 1 .. Len(g.vecIns[b]) - 1,
                      NEW p, p = g.vecIns[b][i], NEW q, q = g.vecIns[b][i + 1]
               PROVE  counts[q] + Once(q = pc) + LostFrom(p)
                        = counts[p] + Once(q = first) + LostInto(q)
    BY DEF CountsUniform
  <2>1. /\ p \in Addr /\ q \in Addr
        /\ {y \in Addr : InTable(g, p, y)} = {q}
        /\ {x \in Addr : InTable(g, x, q)} = {p}
    BY InnerWays
  <2>2. globalEdges[p][q] \in Nat /\ Into(q)[p] = globalEdges[p][q] /\ counts[q] \in Nat
    BY <2>1, RegionFacts DEF Into
  <2>3. /\ SumFunctionOnSet(globalEdges[p], {q}) = globalEdges[p][q]
        /\ SumFunctionOnSet(Into(q), {p}) = globalEdges[p][q]
    BY <2>2, SumPoint
  <2>4. globalEdges[p][q] + LostFrom(p) = counts[p] /\ LostFrom(p) \in Nat
    <3> DEFINE T == {y \in Addr : InTable(g, p, y)}
    <3>1. T = {y \in Addr : InTable(g, p, y)} /\ T = {q}
      BY <2>1
    <3> HIDE DEF T
    <3>2. SumFunctionOnSet(globalEdges[p], T) + LostFrom(p) = counts[p] /\ LostFrom(p) \in Nat
      BY <2>1, <3>1, GoesOn
    <3> QED BY <2>3, <3>1, <3>2
  <2>5. /\ globalEdges[p][q] + Once(q = first) + LostInto(q) = counts[q] + Once(q = pc)
        /\ LostInto(q) \in Nat
    <3> DEFINE T == {x \in Addr : InTable(g, x, q)}
    <3>1. T = {x \in Addr : InTable(g, x, q)} /\ T = {p} /\ q \in Addr
      BY <2>1
    <3> HIDE DEF T
    <3>2. LostInto(q) \in Nat
      BY ZenonT(30), <3>1, CameFrom
    <3>3. SumFunctionOnSet(Into(q), T) + Once(q = first) + LostInto(q) = counts[q] + Once(q = pc)
      BY ZenonT(30), <3>1, CameFrom
    <3> QED BY <2>3, <3>1, <3>2, <3>3
  <2>6. Once(q = first) \in Nat /\ Once(q = pc) \in Nat
    BY DEF Once
  <2> DEFINE w  == globalEdges[p][q]
             cp == counts[p]
             cq == counts[q]
             lf == LostFrom(p)
             li == LostInto(q)
             of == Once(q = first)
             ol == Once(q = pc)
  <2>7. /\ w \in Nat /\ cq \in Nat /\ lf \in Nat /\ li \in Nat /\ of \in Nat /\ ol \in Nat
        /\ w + lf = cp /\ w + of + li = cq + ol
    BY <2>2, <2>4, <2>5, <2>6
  <2> HIDE DEF w, cp, cq, lf, li, of, ol
  <2>8. cq + ol + lf = cp + of + li
    BY <2>7
  <2> QED BY <2>8 DEF cp, cq, lf, li, of, ol
<1>2. ~Traps /\ DistinctKeys /\ EdgeCap > 0 /\ ReportInit => TallyInv
  BY InitTallyInv
<1>3. TallyInv /\ [ReportNext]_reportVars => TallyInv'
  BY StepTallyInv
<1> QED BY <1>1, <1>2, <1>3, PTL DEF ReportSpec

(* The ways out of a block are its edges, and so are the ways in. *)
LEMMA OuterWays ==
  ASSUME TallyInv, phase = "region", NEW b \in g.bbMap
  PROVE  /\ LastPc(g, b) \in Addr
         /\ {y \in Addr : InTable(g, LastPc(g, b), y)} = g.succs[b]
         /\ {x \in Addr : InTable(g, x, b)} = {LastPc(g, a) : a \in g.preds[b]}
<1> DEFINE p == LastPc(g, b)
<1>1. /\ Unique(g) /\ Sym(g) /\ g \in Graph /\ b \in Addr /\ g.bbMap \subseteq Addr
      /\ g.succs[b] \subseteq Addr /\ g.preds[b] \subseteq g.bbMap
  BY RegionFacts DEF Sym, Graph
<1>2. \A x \in g.bbMap : /\ Len(g.vecIns[x]) \in Nat \ {0} /\ g.vecIns[x][1] = x
                         /\ LastPc(g, x) = g.vecIns[x][Len(g.vecIns[x])]
                         /\ Len(g.vecIns[x]) \in 1 .. Len(g.vecIns[x])
                         /\ g.vecIns[x] # <<>> /\ LastPc(g, x) \in Addr
  <2> SUFFICES ASSUME NEW x \in g.bbMap
               PROVE  /\ Len(g.vecIns[x]) \in Nat \ {0} /\ g.vecIns[x][1] = x
                      /\ LastPc(g, x) = g.vecIns[x][Len(g.vecIns[x])]
                      /\ Len(g.vecIns[x]) \in 1 .. Len(g.vecIns[x])
                      /\ g.vecIns[x] # <<>> /\ LastPc(g, x) \in Addr
    OBVIOUS
  <2> DEFINE n == Len(g.vecIns[x])
  <2>1. /\ n \in Nat \ {0} /\ g.vecIns[x][1] = x /\ LastPc(g, x) = g.vecIns[x][n]
        /\ g.vecIns[x] # <<>> /\ \A k \in 1 .. n : g.vecIns[x][k] \in Addr
    BY RegionFacts
  <2>2. n \in 1 .. n
    BY <2>1
  <2> QED BY <2>1, <2>2
<1> HIDE DEF p
<1>3. ASSUME NEW y \in Addr PROVE InTable(g, p, y) <=> y \in g.succs[b]
  <2>1. ASSUME y \in g.succs[b] PROVE InTable(g, p, y)
    BY <1>2, <2>1 DEF InTable, IsEmpty, p
  <2>2. ASSUME InTable(g, p, y) PROVE y \in g.succs[b]
    <3>1. PICK x \in g.bbMap : Stands(g, x, p, y)
      BY <2>2, TableStands
    <3>2. ASSUME Follows(g.vecIns[x], p, y) PROVE FALSE
      <4>1. PICK j \in 1 .. Len(g.vecIns[x]) - 1 : g.vecIns[x][j] = p
        BY <3>2 DEF Follows
      <4>2. j \in 1 .. Len(g.vecIns[x]) /\ j # Len(g.vecIns[x])
        BY <1>2
      <4>3. g.vecIns[x][j] = g.vecIns[b][Len(g.vecIns[b])]
        BY <1>2, <4>1 DEF p
      <4>4. x = b /\ j = Len(g.vecIns[b])
        BY <1>1, <1>2, <4>2, <4>3, UniquePlaces
      <4> QED BY <4>2, <4>4
    <3>3. LastPc(g, x) = p /\ y \in g.succs[x]
      BY <3>1, <3>2 DEF Stands
    <3>4. g.vecIns[x][Len(g.vecIns[x])] = g.vecIns[b][Len(g.vecIns[b])]
      BY <1>2, <3>3 DEF p
    <3>5. x = b
      BY <1>1, <1>2, <3>4, UniquePlaces
    <3> QED BY <3>3, <3>5
  <2> QED BY <2>1, <2>2
<1>4. ASSUME NEW x \in Addr PROVE InTable(g, x, b) <=> \E a \in g.preds[b] : x = LastPc(g, a)
  <2>1. ASSUME NEW a \in g.preds[b], x = LastPc(g, a) PROVE InTable(g, x, b)
    <3>1. a \in g.bbMap /\ b \in g.succs[a]
      BY <1>1, <2>1 DEF Sym
    <3> QED BY <1>2, <2>1, <3>1 DEF InTable, IsEmpty
  <2>2. ASSUME InTable(g, x, b) PROVE \E a \in g.preds[b] : x = LastPc(g, a)
    <3>1. PICK a \in g.bbMap : Stands(g, a, x, b)
      BY <2>2, TableStands
    <3>2. ASSUME Follows(g.vecIns[a], x, b) PROVE FALSE
      <4>1. PICK j \in 1 .. Len(g.vecIns[a]) - 1 : g.vecIns[a][j + 1] = b
        BY <3>2 DEF Follows
      <4>2. j + 1 \in 1 .. Len(g.vecIns[a]) /\ j + 1 # 1
        BY <1>2
      <4>3. 1 \in 1 .. Len(g.vecIns[b]) /\ g.vecIns[a][j + 1] = g.vecIns[b][1]
        BY <1>2, <4>1
      <4> QED BY <1>1, <4>2, <4>3, UniquePlaces
    <3>3. LastPc(g, a) = x /\ b \in g.succs[a]
      BY <3>1, <3>2 DEF Stands
    <3> QED BY <1>1, <3>3 DEF Sym
  <2> QED BY <2>1, <2>2
<1>5. \A a \in g.preds[b] : LastPc(g, a) \in Addr
  BY <1>1, <1>2
<1>6. {y \in Addr : InTable(g, p, y)} = g.succs[b]
  BY <1>1, <1>3
<1>7. {x \in Addr : InTable(g, x, b)} = {LastPc(g, a) : a \in g.preds[b]}
  BY <1>4, <1>5
<1> QED BY <1>2, <1>6, <1>7 DEF p

(* Flow is conserved in the report: the labels of the edges into a block   *)
(* add up to its count, those of the edges out of it to the count of its   *)
(* last instruction, but for the two ends of the trace and the transitions *)
(* that were lost.                                                         *)
THEOREM WeightsDoAddUp ==
  ASSUME ~Traps, DistinctKeys, EdgeCap > 0 PROVE ReportSpec => []WeightsAddUp
<1>1. TallyInv => WeightsAddUp
  <2> SUFFICES ASSUME TallyInv, phase = "region", NEW b \in g.bbMap
               PROVE  /\ InWeight(b) + Once(b = first) + LostInto(b) = counts[b] + Once(b = pc)
                      /\ OutWeight(b) + LostFrom(LastPc(g, b)) = counts[LastPc(g, b)]
    BY DEF WeightsAddUp
  <2> DEFINE p == LastPc(g, b)
  <2>1. /\ p \in Addr /\ b \in Addr /\ IsFiniteSet(Addr) /\ g.succs[b] \subseteq Addr
        /\ g.preds[b] \subseteq g.bbMap /\ g.bbMap \subseteq Addr /\ Tipped(g) /\ Unique(g)
        /\ \A a \in g.preds[b] : b \in g.succs[a]
        /\ \A x, y \in Addr : globalEdges[x][y] \in Nat
    BY OuterWays, RegionFacts DEF Sym, Graph
  <2>2. OutWeight(b) = SumFunctionOnSet(globalEdges[p], g.succs[b])
    <3> DEFINE e == [c \in g.succs[b] |-> Weight(b, c)]
    <3>1. OutWeight(b) = SumFunctionOnSet(e, g.succs[b])
      BY DEF OutWeight, SumFunction
    <3>2. \A c \in g.succs[b] : e[c] = globalEdges[p][c]
      BY <2>1 DEF Weight, Tipped
    <3>3. IsFiniteSet(g.succs[b]) /\ \A c \in g.succs[b] : globalEdges[p][c] \in Nat
      BY <2>1, FS_Subset
    <3> HIDE DEF e
    <3> QED BY <3>1, <3>2, <3>3, SumSame
  <2>3. InWeight(b) = SumFunctionOnSet(Into(b), {LastPc(g, a) : a \in g.preds[b]})
    <3> DEFINE f == [a \in g.preds[b] |-> Weight(a, b)]
               m == [a \in g.preds[b] |-> LastPc(g, a)]
    <3>1. InWeight(b) = SumFunctionOnSet(f, g.preds[b])
      BY DEF InWeight, SumFunction
    <3>2. ASSUME NEW a \in g.preds[b] PROVE f[a] \in Nat /\ Into(b)[m[a]] = f[a]
      <4>1. a \in g.bbMap /\ g.termAddr[a] = LastPc(g, a)
        BY <2>1 DEF Tipped
      <4>2. LastPc(g, a) \in Addr
        BY <4>1, OuterWays
      <4> QED BY <2>1, <4>1, <4>2 DEF Weight, Into
    <3>3. ASSUME NEW a \in g.preds[b], NEW c \in g.preds[b], m[a] = m[c] PROVE a = c
      <4> DEFINE k == Len(g.vecIns[a])
                 l == Len(g.vecIns[c])
      <4>1. /\ a \in g.bbMap /\ c \in g.bbMap /\ k \in Nat \ {0} /\ l \in Nat \ {0}
            /\ LastPc(g, a) = g.vecIns[a][k] /\ LastPc(g, c) = g.vecIns[c][l]
        BY <2>1, RegionFacts
      <4>2. k \in 1 .. k /\ l \in 1 .. l /\ g.vecIns[a][k] = g.vecIns[c][l]
        BY <3>3, <4>1
      <4>3. Unique(g) /\ k \in 1 .. Len(g.vecIns[a]) /\ l \in 1 .. Len(g.vecIns[c])
        BY <2>1, <4>2
      <4> HIDE DEF k, l, m
      <4> QED BY <4>1, <4>2, <4>3, UniquePlaces
    <3>4. {LastPc(g, a) : a \in g.preds[b]} = {m[a] : a \in g.preds[b]}
      OBVIOUS
    <3>5. IsFiniteSet(g.preds[b])
      BY <2>1, FS_Subset
    <3> HIDE DEF f, m
    <3>6. SumFunctionOnSet(Into(b), {m[a] : a \in g.preds[b]}) = SumFunctionOnSet(f, g.preds[b])
      BY <3>2, <3>3, <3>5, SumImage
    <3> QED BY <3>1, <3>4, <3>6
  <2>4. /\ SumFunctionOnSet(globalEdges[p], g.succs[b]) + LostFrom(p) = counts[p]
    BY <2>1, OuterWays, GoesOn
  <2>5. SumFunctionOnSet(Into(b), {LastPc(g, a) : a \in g.preds[b]}) + Once(b = first)
          + LostInto(b) = counts[b] + Once(b = pc)
    BY <2>1, OuterWays, CameFrom
  <2> QED BY <2>2, <2>3, <2>4, <2>5
<1>2. ~Traps /\ DistinctKeys /\ EdgeCap > 0 /\ ReportInit => TallyInv
  BY InitTallyInv
<1>3. TallyInv /\ [ReportNext]_reportVars => TallyInv'
  BY StepTallyInv
<1> QED BY <1>1, <1>2, <1>3, PTL DEF ReportSpec
=============================================================================
