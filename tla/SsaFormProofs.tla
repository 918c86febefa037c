--------------------------- MODULE SsaFormProofs ---------------------------
(***************************************************************************)
(* SSA form is right on every flow graph, for every assignment of the      *)
(* effects that instructions have, in every order of the work list, the    *)
(* tree walk and the searches.                                             *)
(*                                                                         *)
(* The argument: a block's table entry is the value made by the lowest     *)
(* block at or above it, in the dominator tree, that makes one.  A block   *)
(* without a phi is in no frontier of a block that makes a value, so all   *)
(* its predecessors end with the value its parent ends with.  Hence the    *)
(* values satisfy the equations of the reaching definitions, and both are  *)
(* the least solution.                                                     *)
(***************************************************************************)
EXTENDS SsaForm, FlowGraphProofs

Dom(a, n) == Dominates(succs, a, n)

(* What there is to know of the effects of legal instructions.             *)
Sane(e, x0) ==
  /\ e.reads => e.uses
  /\ x0 => ~e.defines
  /\ ~x0 => (e.writes <=> e.defines) /\ (e.changes <=> e.writes)

Given ==
  /\ succs \in FlowGraphs
  /\ dtree = DomTree(succs)
  /\ dfrontier = [n \in Node |-> DomFrontier(succs, n)]
  /\ \A n \in Node \ {Entry} : Sane(code[n], zero)

-----------------------------------------------------------------------------
LEMMA LegalEffect ==
  ASSUME NEW w \in Classes!Word, Classes!Legal(w), NEW r \in {0, 1}
  PROVE  Sane(Classes!Effect(w, r), r = 0)
<1> DEFINE c == Classes!GetInsn(w)
<1> USE DEF Classes!Word, Classes!Reg
<1>1. Classes!HookupReads(c, w) = Classes!RecUses(c, w)
  BY DEF Classes!HookupReads, Classes!RecUses
<1>2. 0 \notin Classes!RecDefines(c, w)
  BY DEF Classes!RecDefines, Classes!NotX0
<1>3. 1 \in Classes!HookupWrites(c, w) <=> 1 \in Classes!RecDefines(c, w)
  BY DEF Classes!RecDefines, Classes!HookupWrites, Classes!NotX0
<1>4. 1 \in Classes!Changes(w) <=> 1 \in Classes!RecDefines(c, w)
  <2>1. CASE w.op \in {"load", "opimm", "auipc", "opimm32", "amo", "op", "lui", "op32", "jalr", "jal"}
    BY <2>1 DEF Classes!RecDefines, Classes!Changes, Classes!NotX0, Classes!GetInsn,
       Classes!Legal, Classes!DecodeImm, Classes!DecodeRtype, Classes!DecodeJump
  <2>2. CASE w.op \in {"store", "branch", "fence"}
    BY <2>2 DEF Classes!RecDefines, Classes!Changes, Classes!NotX0, Classes!GetInsn
  <2>3. CASE w.op = "system"
    BY <2>3 DEF Classes!RecDefines, Classes!Changes, Classes!NotX0, Classes!GetInsn,
       Classes!Legal, Classes!DecodeSystem, Classes!bits19to7z
  <2> QED BY <2>1, <2>2, <2>3 DEF Classes!Opcode
<1> QED BY <1>1, <1>2, <1>3, <1>4 DEF Sane, Classes!Effect

LEMMA InitGiven == Init => Given
<1> SUFFICES ASSUME Init, NEW n \in Node \ {Entry} PROVE Sane(code[n], zero)
  BY DEF Init, Given
<1>1. CASE zero
  <2>1. code[n] \in Classes!Effects(0)
    BY <1>1 DEF Init, Classes!EffectsOnX0
  <2>2. PICK w \in Classes!Word : Classes!Legal(w) /\ code[n] = Classes!Effect(w, 0)
    BY <2>1 DEF Classes!Effects
  <2>3. Sane(Classes!Effect(w, 0), 0 = 0)
    BY <2>2, LegalEffect
  <2> QED BY <1>1, <2>2, <2>3 DEF Sane
<1>2. CASE ~zero
  <2>1. code[n] \in Classes!Effects(1)
    BY <1>2 DEF Init, Classes!EffectsOnOther
  <2>2. PICK w \in Classes!Word : Classes!Legal(w) /\ code[n] = Classes!Effect(w, 1)
    BY <2>1 DEF Classes!Effects
  <2>3. Sane(Classes!Effect(w, 1), 1 = 0)
    BY <2>2, LegalEffect
  <2> QED BY <1>2, <2>2, <2>3 DEF Sane
<1> QED BY <1>1, <1>2 DEF Init

-----------------------------------------------------------------------------
(* The dominator tree. *)
LEMMA ParentFacts ==
  ASSUME Given, NEW n \in Node \ {Entry}
  PROVE  /\ Parent(n) \in Node /\ Parent(n) # n
         /\ \A a \in Node : n \in dtree[a] <=> a = Parent(n)
         /\ \A a \in Node : Dom(a, n) <=> a = n \/ Dom(a, Parent(n))
         /\ ~Dom(n, Parent(n))
<1> DEFINE i == Idom(succs, n)
<1>1. i \in Node \ {n} /\ \A a \in Node : Dom(a, i) <=> a # n /\ Dom(a, n)
  BY IdomFacts DEF Given, Dom
<1>2. ASSUME NEW a \in Node PROVE n \in dtree[a] <=> a = i
  BY DEF Given, DomTree
<1>3. Parent(n) = i
  BY <1>1, <1>2 DEF Parent
<1>4. Dom(n, n)
  BY DEF Dom, Dominates
<1> HIDE DEF i
<1> QED BY <1>1, <1>2, <1>3, <1>4

LEMMA ChildOfEntry ==
  ASSUME Given, NEW n \in dtree[Entry]
  PROVE  n = CfgHead
<1> SUFFICES ASSUME n # CfgHead PROVE FALSE
  OBVIOUS
<1>1. n \in Node \ {Entry} /\ Entry = Parent(n)
  BY ParentFacts, NodeAssumption DEF Given, DomTree
<1>2. Dom(CfgHead, n)
  <2>1. {Entry} \in SUBSET (Node \ {CfgHead, n}) /\ succs[Entry] = {CfgHead}
    BY <1>1, NodeAssumption DEF Given, FlowGraphs
  <2> QED BY <2>1 DEF Dom, Dominates
<1>3. Dom(CfgHead, Entry)
  BY <1>1, <1>2, ParentFacts, NodeAssumption
<1>4. CfgHead = Entry
  BY <1>3, EntryDominates, DominatesAntisym, NodeAssumption DEF Dom, Given
<1> QED BY <1>4, NodeAssumption

LEMMA FrameVisited ==
  ASSUME NEW s, NEW ord \in Seq(Node), Frame(s, ord) # NoNode
  PROVE  Frame(s, ord) \in Visited(ord)
<1> DEFINE open == {k \in 1 .. Len(ord) : ~(s[ord[k]] \subseteq Visited(ord))}
<1>1. open # {} /\ Frame(s, ord) = ord[CHOOSE k \in open : \A m \in open : m <= k]
  BY DEF Frame
<1>2. Len(ord) \in Nat /\ open \subseteq 1 .. Len(ord)
  OBVIOUS
<1>3. \E k \in open : \A m \in open : m <= k
  <2> HIDE DEF open
  <2> QED BY <1>1, <1>2, Greatest
<1>4. (CHOOSE k \in open : \A m \in open : m <= k) \in 1 .. Len(ord)
  BY <1>3
<1> HIDE DEF open
<1> QED BY <1>1, <1>4 DEF Visited

LEMMA VisitedAppend ==
  ASSUME NEW ord \in Seq(Node), NEW n \in Node
  PROVE  Append(ord, n) \in Seq(Node) /\ Visited(Append(ord, n)) = Visited(ord) \cup {n}
<1>1. Append(ord, n) \in Seq(Node) /\ Len(Append(ord, n)) = Len(ord) + 1
  OBVIOUS
<1>2. \A k \in 1 .. Len(ord) : Append(ord, n)[k] = ord[k]
  OBVIOUS
<1>3. Append(ord, n)[Len(ord) + 1] = n /\ Len(ord) \in Nat
  OBVIOUS
<1>4. 1 .. Len(ord) + 1 = (1 .. Len(ord)) \cup {Len(ord) + 1}
  BY <1>3
<1> QED BY <1>1, <1>2, <1>3, <1>4 DEF Visited

-----------------------------------------------------------------------------
(* Placing the phis.                                                       *)
Early == phase \in {"bind", "dead", "collect"}

Defs == {n \in Node \ {Entry} : code[n].defines}
Gathered ==
  /\ defBlocks = IF Defs = {} THEN {} ELSE Defs \cup {Entry}
  /\ \A n \in Node \ {Entry} : code[n].uses => read

(* The work list has not come to these; what is behind it is closed under  *)
(* the frontiers.  A phi has a reason other than itself.                   *)
Placing ==
  /\ phis \subseteq Node \ {Entry} /\ (phis # {} => defBlocks # {})
  /\ checkSet = defBlocks \cup phis
  /\ workList \subseteq checkSet
  /\ \A b \in checkSet \ workList : dfrontier[b] \subseteq phis
  /\ \A n \in phis : \E b \in checkSet :
       n \in dfrontier[b] /\ (b # n \/ n \in defBlocks)

PlaceInv ==
  /\ Early => phis = {}
  /\ ~Early => Gathered
  /\ phase \in {"place", "rename", "patch"} => Placing
  /\ phase \in {"rename", "patch"} => workList = {}

LEMMA EntryNoFrontier ==
  ASSUME Given, NEW b \in Node
  PROVE  dfrontier[b] \subseteq Node \ {Entry}
<1>1. \A p \in Node : Entry \notin succs[p]
  BY GraphFacts DEF Given
<1> QED BY <1>1 DEF Given, DomFrontier, Preds

LEMMA CollectPlaces ==
  ASSUME Given, PlaceInv, Collect
  PROVE  PlaceInv'
<1> USE DEF Collect
<1>1. /\ Early /\ phase' = "place" /\ phis' = {} /\ code' = code
      /\ workList' = defBlocks' /\ checkSet' = defBlocks'
  BY DEF Early, PlaceInv, program
<1>2. Gathered'
  BY <1>1 DEF Gathered, Defs
<1> QED BY <1>1, <1>2 DEF PlaceInv, Placing, Early

LEMMA PlacePlaces ==
  ASSUME Given, PlaceInv, NEW n \in Node, Place(n)
  PROVE  PlaceInv'
<1> USE DEF Place
<1>1. /\ phase = "place" /\ phase' = phase /\ Placing /\ Gathered /\ n \in workList
      /\ code' = code /\ dfrontier' = dfrontier
      /\ defBlocks' = defBlocks /\ read' = read
  BY DEF PlaceInv, Early, program, collected
<1> DEFINE F == dfrontier[n]
<1>2. F \subseteq Node \ {Entry}
  BY EntryNoFrontier
<1>3. /\ phis' = phis \cup F /\ checkSet' = checkSet \cup F
      /\ workList' = (workList \ {n}) \cup (F \ checkSet)
  BY DEF PhiSites, Requeued
<1> HIDE DEF F
<1>4. Gathered'
  BY <1>1 DEF Gathered, Defs
<1>5. ASSUME NEW b \in checkSet' \ workList' PROVE dfrontier[b] \subseteq phis'
  <2>1. b = n \/ b \in checkSet \ workList
    BY <1>1, <1>3 DEF Placing
  <2>2. F = dfrontier[n]
    BY DEF F
  <2> QED BY <1>1, <1>3, <2>1, <2>2 DEF Placing
<1>6. ASSUME NEW m \in phis'
      PROVE  \E b \in checkSet' : m \in dfrontier[b] /\ (b # m \/ m \in defBlocks)
  <2>1. CASE m \in phis
    BY <1>1, <1>3, <2>1 DEF Placing
  <2>2. CASE m \notin phis
    <3>1. m \in dfrontier[n] /\ n \in checkSet
      BY <1>1, <1>3, <2>2 DEF Placing, F
    <3>2. n # m \/ m \in defBlocks
      BY <1>1, <2>2, <3>1 DEF Placing
    <3> QED BY <1>3, <3>1, <3>2
  <2> QED BY <2>1, <2>2
<1>7. Placing'
  <2>1. (phis \subseteq Node \ {Entry})' /\ (checkSet = defBlocks \cup phis)'
        /\ (workList \subseteq checkSet)' /\ defBlocks' # {}
    BY <1>1, <1>2, <1>3 DEF Placing
  <2> QED BY <1>1, <1>5, <1>6, <2>1 DEF Placing
<1> QED BY <1>1, <1>4, <1>7 DEF PlaceInv, Early

(* The other steps leave the phis alone until they are erased.             *)
LEMMA PlacesStay ==
  ASSUME PlaceInv, UNCHANGED <<program, collected>>,
         \/ UNCHANGED <<placing, phase>>
         \/ UNCHANGED placing /\ phase = "bind" /\ phase' \in {"dead", "collect"}
         \/ UNCHANGED placing /\ phase = "place" /\ workList = {} /\ phase' = "rename"
         \/ UNCHANGED placing /\ phase = "rename" /\ phase' = "patch"
         \/ ~Early /\ phase' \in {"fault", "erase", "list", "done"}
  PROVE  PlaceInv'
<1> USE DEF program, collected, placing
<1>1. Gathered => Gathered'
  BY DEF Gathered, Defs
<1>2. Placing /\ UNCHANGED placing => Placing'
  BY DEF Placing
<1> QED BY <1>1, <1>2 DEF PlaceInv, Early

-----------------------------------------------------------------------------
(* The walk down the dominator tree.  Makers are the blocks that make a    *)
(* value for the register, and Made is the one that leaves the block.      *)
Makers == phis \cup {n \in Node \ {Entry} : Writes(n)} \cup {Entry}
Made(d) == IF d = Entry THEN (IF EntryOp THEN Op(Entry) ELSE Null)
           ELSE IF Writes(d) THEN Op(d) ELSE Phi(d)

(* d is the lowest maker at or above x. *)
Lowest(d, x) ==
  d \in Makers /\ Dom(d, x) /\ \A e \in Makers : Dom(e, x) => Dom(e, d)

Tabled(x) == \E d \in Makers : Lowest(d, x) /\ table[x] = Made(d)
Sourced(n) == source[n] = IF Reads(n) THEN Start(n) ELSE Null

Walking ==
  /\ order \in Seq(Node) /\ Len(order) >= 1 /\ order[1] = Entry
  /\ Len(order) > 1 => CfgHead \in Visited(order)
  /\ \A n \in Visited(order) \ {Entry} : Parent(n) \in Visited(order)
  /\ \A n \in Visited(order) : Tabled(n) /\ Sourced(n)
  /\ \A n \in Node \ Visited(order) : source[n] = Null

RenameInv ==
  /\ table \in [Node -> Value \cup {Null}] /\ source \in [Node -> Value \cup {Null}]
  /\ Early \/ phase = "place" => \A n \in Node : source[n] = Null
  /\ phase = "rename" => Walking
  /\ phase = "patch" => \A n \in Node : Tabled(n) /\ Sourced(n)

LEMMA RenameEntryWalks ==
  ASSUME Given, PlaceInv, RenameInv, RenameEntry
  PROVE  RenameInv'
<1> USE DEF RenameEntry
<1>1. /\ phase = "place" /\ phase' = "rename" /\ order' = <<Entry>>
      /\ UNCHANGED <<succs, code, phis, defBlocks, read, source>>
      /\ table' = [table EXCEPT ![Entry] = Made(Entry)]
  BY DEF program, collected, placing, Made
<1>2. Visited(order') = {Entry} /\ order' \in Seq(Node) /\ Len(order') = 1 /\ order'[1] = Entry
  BY <1>1, NodeAssumption DEF Visited
<1>3. Tabled(Entry)'
  <2>1. Makers' = Makers /\ Made(Entry)' = Made(Entry) /\ Entry \in Makers
    BY <1>1 DEF Makers, Made, Writes, EntryOp
  <2>2. table'[Entry] = Made(Entry)
    BY <1>1, NodeAssumption DEF RenameInv
  <2>3. Lowest(Entry, Entry)'
    BY <1>1, <2>1 DEF Lowest, Dom, Dominates
  <2> QED BY <2>1, <2>2, <2>3 DEF Tabled
<1>4. \A n \in Node : source'[n] = Null
  BY <1>1 DEF RenameInv
<1>5. Sourced(Entry)'
  BY <1>4, NodeAssumption DEF Sourced, Reads
<1>6. (table \in [Node -> Value \cup {Null}] /\ source \in [Node -> Value \cup {Null}])'
  <2>1. Made(Entry) \in Value \cup {Null}
    BY NodeAssumption DEF Made, Value, Op, Null
  <2> QED BY <1>1, <2>1 DEF RenameInv
<1>7. Walking'
  BY <1>1, <1>2, <1>3, <1>4, <1>5 DEF Walking
<1> QED BY <1>1, <1>6, <1>7 DEF RenameInv, Early

LEMMA MadeValue ==
  ASSUME NEW d \in Node
  PROVE  Made(d) \in Value \cup {Null} /\ (EntryOp => Made(d) \in Value)
BY NodeAssumption DEF Made, Value, Op, Phi, Null

LEMMA NullIsNone == Null \notin Value /\ \A n : Phi(n) # Null /\ Op(n) # Null
BY DEF Null, Value, Phi, Op

LEMMA MakersAreBlocks == PlaceInv /\ phase \in {"place", "rename", "patch"} => Makers \subseteq Node
BY NodeAssumption DEF PlaceInv, Placing, Makers

(* The block a visit of the walk comes to.                                 *)
LEMMA VisitFacts ==
  ASSUME Given, Walking, NEW n \in Node, Visits(Walk, order, n)
  PROVE  /\ n \in Node \ {Entry} /\ n \notin Visited(order)
         /\ Parent(n) \in Visited(order)
         /\ Visited(order) \subseteq Node /\ Entry \in Visited(order)
         /\ Len(order) = 1 => n = CfgHead
<1> DEFINE f == Frame(Walk, order)
<1>1. f \in Visited(order) /\ n \in Walk[f] /\ n \notin Visited(order)
  BY FrameVisited DEF Visits, Walking
<1>2. Visited(order) \subseteq Node /\ Entry \in Visited(order)
  BY DEF Walking, Visited
<1>3. n \in dtree[f]
  BY <1>1, <1>2 DEF Walk
<1>4. n # Entry
  BY <1>3, <1>1, <1>2 DEF Given, DomTree
<1>5. f = Parent(n)
  BY <1>1, <1>2, <1>3, <1>4, ParentFacts
<1>6. Len(order) = 1 => f = Entry
  BY <1>1 DEF Walking, Visited
<1> QED BY <1>1, <1>2, <1>3, <1>4, <1>5, <1>6, ChildOfEntry

(* A read never finds the register empty.                                  *)
LEMMA StartNonNull ==
  ASSUME Given, PlaceInv, phase = "rename", Walking, NEW n \in Node,
         Visits(Walk, order, n)
  PROVE  /\ Start(n) \in Value \cup {Null}
         /\ EntryOp => Start(n) \in Value
         /\ Reads(n) => Start(n) # Null
<1>1. n \in Node \ {Entry} /\ Parent(n) \in Visited(order)
  BY VisitFacts
<1>2. PICK d \in Makers : table[Parent(n)] = Made(d)
  BY <1>1 DEF Walking, Tabled
<1>3. d \in Node
  BY <1>2, MakersAreBlocks
<1>4. Start(n) \in Value \cup {Null} /\ (EntryOp => Start(n) \in Value)
  BY <1>1, <1>2, <1>3, MadeValue DEF Start, Passed, Value, Phi
<1>5. Reads(n) => EntryOp
  <2>1. Gathered
    BY DEF PlaceInv, Early
  <2> QED BY <1>1, <2>1 DEF Reads, Given, Sane, Gathered, EntryOp
<1> QED BY <1>4, <1>5, NullIsNone

LEMMA RenameWalks ==
  ASSUME Given, PlaceInv, RenameInv, NEW n \in Node, Rename(n)
  PROVE  RenameInv' /\ phase' = phase
<1> USE DEF Rename
<1>1. /\ phase = "rename" /\ Walking /\ Visits(Walk, order, n)
      /\ UNCHANGED <<succs, dtree, code, phis, defBlocks, read>>
  BY DEF RenameInv, program, collected, placing
<1>2. /\ n \in Node \ {Entry} /\ n \notin Visited(order)
      /\ Parent(n) \in Visited(order)
      /\ Visited(order) \subseteq Node /\ Entry \in Visited(order)
      /\ Len(order) = 1 => n = CfgHead
  BY <1>1, VisitFacts
<1>3. /\ Start(n) \in Value \cup {Null}
      /\ Reads(n) => Start(n) # Null
  BY <1>1, StartNonNull
<1>4. /\ phase' = phase /\ order' = Append(order, n)
      /\ source' = [source EXCEPT ![n] = IF Reads(n) THEN Start(n) ELSE Null]
      /\ table' = [table EXCEPT ![n] = IF Writes(n) THEN Op(n) ELSE Start(n)]
  BY <1>3
<1>5. /\ order' \in Seq(Node) /\ Len(order') = Len(order) + 1 /\ order'[1] = Entry
      /\ Visited(order') = Visited(order) \cup {n}
  BY <1>1, <1>4, VisitedAppend DEF Walking
<1>6. (table \in [Node -> Value \cup {Null}] /\ source \in [Node -> Value \cup {Null}])'
  BY <1>3, <1>4 DEF RenameInv, Value, Op
<1>7. /\ Makers' = Makers /\ \A d : Made(d)' = Made(d)
      /\ \A d, x : Lowest(d, x)' <=> Lowest(d, x)
      /\ \A x : Reads(x)' <=> Reads(x)
      /\ \A x : Parent(x)' = Parent(x)
  BY <1>1 DEF Makers, Made, Writes, Reads, EntryOp, Lowest, Dom, Parent
<1>8. ASSUME NEW x \in Visited(order') \ {n} PROVE (Tabled(x) /\ Sourced(x))'
  <2>1. x \in Visited(order) /\ x \in Node /\ x # n
    BY <1>2, <1>5
  <2>2. table'[x] = table[x] /\ source'[x] = source[x]
    BY <1>4, <2>1 DEF RenameInv
  <2>3. Tabled(x)'
    BY <1>1, <1>7, <2>1, <2>2 DEF Walking, Tabled
  <2>4. x # Entry => Parent(x) \in Visited(order) \ {n}
    BY <1>1, <1>2, <2>1 DEF Walking
  <2>5. x # Entry => Start(x)' = Start(x)
    <3>1. x # Entry => table'[Parent(x)] = table[Parent(x)]
      BY <1>2, <1>4, <2>4 DEF RenameInv
    <3> QED BY <1>1, <1>7, <3>1 DEF Start, Passed
  <2>6. Sourced(x)'
    BY <1>1, <1>7, <2>1, <2>2, <2>5 DEF Walking, Sourced, Reads
  <2> QED BY <2>3, <2>6
<1>9. Tabled(n)'
  <2>1. /\ \A a \in Node : Dom(a, n) <=> a = n \/ Dom(a, Parent(n))
        /\ Parent(n) \in Node
    BY <1>2, ParentFacts
  <2>2. Makers \subseteq Node
    BY <1>1, MakersAreBlocks
  <2>3. table'[n] = IF Writes(n) THEN Op(n) ELSE Start(n)
    BY <1>2, <1>4 DEF RenameInv
  <2>4. CASE n \in Makers
    <3>1. table'[n] = Made(n)
      BY <1>2, <2>3, <2>4 DEF Made, Makers, Start
    <3>2. Lowest(n, n)
      BY <2>1, <2>2, <2>4 DEF Lowest
    <3> QED BY <1>7, <2>4, <3>1, <3>2 DEF Tabled
  <2>5. CASE n \notin Makers
    <3>1. table'[n] = table[Parent(n)]
      BY <1>2, <2>3, <2>5 DEF Makers, Start, Passed
    <3>2. PICK d \in Makers : Lowest(d, Parent(n)) /\ table[Parent(n)] = Made(d)
      BY <1>1, <1>2 DEF Walking, Tabled
    <3>3. Lowest(d, n)
      BY <2>1, <2>2, <2>5, <3>2 DEF Lowest
    <3> QED BY <1>7, <3>1, <3>2, <3>3 DEF Tabled
  <2> QED BY <2>4, <2>5
<1>10. Sourced(n)'
  <2>1. Parent(n) # n /\ Parent(n) \in Node
    BY <1>2, ParentFacts
  <2>2. Start(n)' = Start(n)
    BY <1>1, <1>4, <1>7, <2>1 DEF Start, Passed, RenameInv
  <2> QED BY <1>2, <1>4, <1>7, <2>2 DEF Sourced, RenameInv
<1>11. Walking'
  <2>1. CfgHead \in Visited(order')
    <3> DEFINE l == Len(order)
    <3>1. order \in Seq(Node) /\ l >= 1
      BY <1>1 DEF Walking
    <3>2. l = 1 \/ l > 1
      <4>1. l \in Nat
        BY <3>1
      <4> HIDE DEF l
      <4> QED BY <3>1, <4>1
    <3> QED BY <1>1, <1>2, <1>5, <3>2 DEF Walking
  <2>2. \A x \in Visited(order') \ {Entry} : Parent(x)' \in Visited(order')
    BY <1>1, <1>2, <1>5, <1>7 DEF Walking
  <2>3. \A x \in Node \ Visited(order') : source'[x] = Null
    BY <1>1, <1>4, <1>5 DEF Walking, RenameInv
  <2>4. \A x \in Visited(order') : (Tabled(x) /\ Sourced(x))'
    BY <1>8, <1>9, <1>10
  <2>5. Len(order') >= 1
    BY <1>1, <1>5 DEF Walking
  <2> QED BY <1>5, <2>1, <2>2, <2>3, <2>4, <2>5 DEF Walking
<1> QED BY <1>1, <1>4, <1>6, <1>11 DEF RenameInv, Early

(* The walk is over when it has been everywhere.                           *)
LEMMA EndRenameWalked ==
  ASSUME Given, Walking, Frame(Walk, order) = NoNode
  PROVE  Visited(order) = Node
<1>1. Visited(order) \subseteq Node /\ Entry \in Visited(order)
  BY DEF Walking, Visited
<1>2. \A x \in Visited(order) : Walk[x] \subseteq Visited(order)
  <2>1. \A k \in 1 .. Len(order) : Walk[order[k]] \subseteq Visited(order)
    BY FrameOver DEF Walking
  <2> QED BY <2>1 DEF Visited
<1>3. ASSUME NEW n \in Node \ {Entry}, Parent(n) \in Visited(order)
      PROVE  n \in Visited(order)
  <2>1. n \in dtree[Parent(n)] /\ Parent(n) \in Node
    BY ParentFacts
  <2>2. CASE Parent(n) = Entry /\ Len(order) > 1
    BY <2>1, <2>2, ChildOfEntry DEF Walking
  <2>3. CASE ~(Parent(n) = Entry /\ Len(order) > 1)
    BY <1>2, <1>3, <2>1, <2>3 DEF Walk
  <2> QED BY <2>2, <2>3
<1> DEFINE G == {x \in Node : \A a \in Node : Dom(a, x) => a \in Visited(order)}
<1>4. Entry \in G
  BY <1>1, NodeAssumption, EntryDominates, DominatesAntisym DEF Dom, Given
<1>5. ASSUME NEW x \in G, NEW y \in succs[x] PROVE y \in G
  <2>1. y \in Node \ {Entry} /\ x \in Node
    BY GraphFacts DEF Given
  <2>2. \A a \in Node : Dom(a, y) /\ a # y => a \in Visited(order)
    BY <2>1, PredDominated DEF Dom
  <2>3. Parent(y) \in Node /\ Parent(y) # y /\ Dom(Parent(y), y)
    <3>1. Dom(Parent(y), Parent(y))
      BY DEF Dom, Dominates
    <3> QED BY <2>1, <3>1, ParentFacts
  <2>4. y \in Visited(order)
    BY <1>3, <2>1, <2>2, <2>3
  <2> QED BY <2>1, <2>2, <2>4
<1>6. G = Node
  <2>1. G \in SUBSET Node
    OBVIOUS
  <2> HIDE DEF G
  <2> QED BY <1>4, <1>5, <2>1, GraphFacts DEF Given
<1>7. \A x \in Node : Dom(x, x)
  BY DEF Dom, Dominates
<1> QED BY <1>1, <1>6, <1>7

LEMMA EndRenameTables ==
  ASSUME Given, RenameInv, EndRename
  PROVE  RenameInv'
<1> USE DEF EndRename
<1>1. /\ phase = "rename" /\ phase' = "patch" /\ Visited(order) = Node
      /\ Walking
      /\ UNCHANGED <<succs, dtree, code, phis, defBlocks, read, table, source>>
  BY EndRenameWalked DEF RenameInv, program, collected, placing
<1>2. \A n \in Node : Tabled(n) /\ Sourced(n)
  BY <1>1 DEF Walking
<1>3. \A n \in Node : Tabled(n)' /\ Sourced(n)'
  BY <1>1, <1>2 DEF Tabled, Sourced, Lowest, Dom, Makers, Made, Writes, Reads, Start,
     Passed, Parent, EntryOp
<1> QED BY <1>1, <1>3 DEF RenameInv, Early

(* The other steps leave the tables alone.                                 *)
LEMMA TablesStay ==
  ASSUME RenameInv, UNCHANGED <<program, table, source>>,
         \/ (Early \/ phase = "place") /\ (Early \/ phase = "place")'
         \/ phase = "rename" /\ UNCHANGED <<order, phis, defBlocks, read, phase>>
         \/ phase = "patch" /\ UNCHANGED <<phis, defBlocks, read, phase>>
         \/ phase' \in {"fault", "erase", "list", "done"}
  PROVE  RenameInv'
<1> USE DEF program
<1>1. CASE (Early \/ phase = "place") /\ (Early \/ phase = "place")'
  BY <1>1 DEF RenameInv, Early
<1>2. CASE phase \in {"rename", "patch"} /\ UNCHANGED <<phis, defBlocks, read, phase>>
  <2>1. \A n : (Tabled(n) <=> Tabled(n)') /\ (Sourced(n) <=> Sourced(n)')
    BY <1>2 DEF Tabled, Sourced, Lowest, Dom, Makers, Made, Writes, Reads, Start, Passed,
       Parent, EntryOp
  <2>2. CASE phase = "rename" /\ order' = order
    <3>1. Walking'
      BY <2>1, <2>2 DEF RenameInv, Walking, Parent
    <3> QED BY <1>2, <2>2, <3>1 DEF RenameInv, Early
  <2>3. CASE phase = "patch"
    BY <1>2, <2>1, <2>3 DEF RenameInv, Early
  <2> QED BY <1>2, <2>2, <2>3, <1>1 DEF Early
<1>3. CASE phase' \in {"fault", "erase", "list", "done"}
  BY <1>3 DEF RenameInv, Early
<1> QED BY <1>1, <1>2, <1>3

-----------------------------------------------------------------------------
(* Uses, and the inputs of the phis.                                       *)
Inputs(n) == [p \in Preds(succs, n) |-> table[p]]

UsesInv ==
  /\ \A n \in Node : source[n] # Null => <<source[n], Op(n)>> \in uses
  /\ \A n \in Node : \A p \in DOMAIN inBound[n] : <<inBound[n][p], Phi(n)>> \in uses
  /\ \A u \in uses : u \in Value \X Value /\ \A m \in Node : u[1] = Phi(m) => m \in phis

PatchInv ==
  /\ DOMAIN inBound = Node
  /\ Early \/ phase \in {"place", "rename"} => \A n \in Node : DOMAIN inBound[n] = {}
  /\ phase = "patch" =>
       /\ left \subseteq phis
       /\ \A n \in phis \ left : inBound[n] = Inputs(n)
       /\ \A n \in Node \ (phis \ left) : DOMAIN inBound[n] = {}

LEMMA TablePhi ==
  ASSUME NEW x, Tabled(x), NEW m \in Node, table[x] = Phi(m)
  PROVE  m \in phis
BY DEF Tabled, Makers, Made, Phi, Op, Null

LEMMA RenameUses ==
  ASSUME Given, PlaceInv, RenameInv, UsesInv, PatchInv, NEW n \in Node, Rename(n)
  PROVE  UsesInv' /\ PatchInv'
<1> USE DEF Rename
<1>1. /\ phase = "rename" /\ phase' = phase /\ Walking /\ Visits(Walk, order, n)
      /\ inBound' = inBound /\ phis' = phis
  BY RenameWalks DEF RenameInv, placing
<1>2. /\ Start(n) \in Value \cup {Null}
      /\ Reads(n) => Start(n) # Null
  BY <1>1, StartNonNull
<1>3. /\ source' = [source EXCEPT ![n] = IF Reads(n) THEN Start(n) ELSE Null]
      /\ uses' = uses \cup (IF Reads(n) THEN {<<Start(n), Op(n)>>} ELSE {})
  BY <1>2
<1>4. n \in Node \ {Entry} /\ Parent(n) \in Visited(order)
  BY <1>1, VisitFacts
<1>5. \A m \in Node : Start(n) = Phi(m) => m \in phis
  BY <1>1, <1>4, TablePhi DEF Start, Passed, Phi, Walking
<1>6. \A x \in Node : source'[x] # Null => <<source'[x], Op(x)>> \in uses'
  BY <1>3 DEF UsesInv, RenameInv
<1>7. ASSUME NEW u \in uses' PROVE u \in Value \X Value /\ \A m \in Node : u[1] = Phi(m) => m \in phis
  <2>1. CASE u \in uses
    BY <2>1 DEF UsesInv
  <2>2. CASE u = <<Start(n), Op(n)>> /\ Reads(n)
    <3>1. Op(n) \in Value
      BY DEF Op, Value
    <3> QED BY <1>2, <1>5, <2>2, <3>1
  <2> QED BY <1>3, <2>1, <2>2
<1>8. \A x \in Node : \A p \in DOMAIN inBound'[x] : <<inBound'[x][p], Phi(x)>> \in uses'
  BY <1>1, <1>3 DEF UsesInv
<1> QED BY <1>1, <1>6, <1>7, <1>8 DEF UsesInv, PatchInv, Early

(* A phi gets an input from every predecessor.                             *)
LEMMA PatchPatches ==
  ASSUME Given, PlaceInv, RenameInv, UsesInv, PatchInv, NEW n \in Node, Patch(n)
  PROVE  UsesInv' /\ PatchInv' /\ phase' = phase
<1> USE DEF Patch
<1>1. /\ phase = "patch" /\ n \in left /\ n \in phis /\ left' = left \ {n}
      /\ left \subseteq phis
      /\ UNCHANGED <<succs, phis, table, source>>
      /\ \A x \in Node : Tabled(x)
  BY DEF RenameInv, PatchInv, program, placing, renaming
<1>2. EntryOp
  BY <1>1 DEF PlaceInv, Placing, EntryOp
<1>3. \A p \in Node : table[p] \in Value
  BY <1>1, <1>2, MadeValue, MakersAreBlocks DEF Tabled
<1>4. Preds(succs, n) \subseteq Node
  BY DEF Preds
<1>5. /\ phase' = phase /\ uses' = uses \cup NewUses(n)
      /\ inBound' = [inBound EXCEPT ![n] = Inputs(n)]
  BY <1>3, <1>4, NullIsNone DEF Inputs
<1>6. ASSUME NEW u \in uses' PROVE u \in Value \X Value /\ \A m \in Node : u[1] = Phi(m) => m \in phis
  <2>1. CASE u \in uses
    BY <2>1 DEF UsesInv
  <2>2. CASE u \in NewUses(n)
    <3>1. PICK p \in Preds(succs, n) : u = <<table[p], Phi(n)>>
      BY <2>2 DEF NewUses
    <3>2. Phi(n) \in Value
      BY DEF Phi, Value
    <3>3. \A m \in Node : table[p] = Phi(m) => m \in phis
      BY <1>1, <1>4, TablePhi
    <3> QED BY <1>3, <1>4, <3>1, <3>2, <3>3
  <2> QED BY <1>5, <2>1, <2>2
<1>7. DOMAIN inBound' = Node /\ inBound'[n] = Inputs(n)
      /\ \A x \in Node \ {n} : inBound'[x] = inBound[x]
  BY <1>5 DEF PatchInv
<1>8. ASSUME NEW x \in Node, NEW p \in DOMAIN inBound'[x]
      PROVE  <<inBound'[x][p], Phi(x)>> \in uses'
  <2>1. CASE x = n
    BY <1>5, <1>7, <2>1 DEF Inputs, NewUses
  <2>2. CASE x # n
    BY <1>5, <1>7, <2>2 DEF UsesInv
  <2> QED BY <2>1, <2>2
<1>9. UsesInv'
  <2>1. \A x \in Node : source'[x] # Null => <<source'[x], Op(x)>> \in uses'
    BY <1>1, <1>5 DEF UsesInv
  <2> QED BY <1>1, <1>6, <1>8, <2>1 DEF UsesInv
<1>10. PatchInv'
  <2>1. \A x : Inputs(x)' = Inputs(x)
    BY <1>1 DEF Inputs
  <2>2. \A x \in phis \ left' : x \in Node /\ (x = n \/ x \in phis \ left)
    BY <1>1 DEF PlaceInv, Placing
  <2>3. \A x \in phis \ left' : inBound'[x] = Inputs(x)
    BY <1>1, <1>7, <2>2 DEF PatchInv
  <2>4. \A x \in Node \ (phis \ left') : DOMAIN inBound'[x] = {}
    BY <1>1, <1>7 DEF PatchInv
  <2> QED BY <1>1, <1>5, <1>7, <2>1, <2>3, <2>4 DEF PatchInv, Early
<1> QED BY <1>5, <1>9, <1>10

(* Only what nothing refers to is erased.                                  *)
LEMMA EraseUses ==
  ASSUME UsesInv, PatchInv, NEW n \in Node, Erase(n)
  PROVE  UsesInv' /\ PatchInv'
<1> USE DEF Erase
<1>1. /\ phase = "erase" /\ UNCHANGED <<phase, source, inBound, uses>>
      /\ phis' = IF NoUses(Phi(n)) THEN phis \ {n} ELSE phis
  BY DEF renaming
<1>2. ASSUME NEW u \in uses, NEW m \in Node, u[1] = Phi(m) PROVE m \in phis'
  <2>1. u \in Value \X Value /\ m \in phis
    BY <1>2 DEF UsesInv
  <2>2. u = <<Phi(m), u[2]>> /\ u[2] \in Value
    BY <1>2, <2>1
  <2> QED BY <1>1, <2>1, <2>2 DEF NoUses
<1>3. UsesInv'
  BY <1>1, <1>2 DEF UsesInv
<1> QED BY <1>1, <1>3 DEF PatchInv, Early

LEMMA UsesStay ==
  ASSUME UsesInv, PatchInv, UNCHANGED <<source, inBound, uses>>,
         \/ UNCHANGED <<succs, table, phis, left, phase>>
         \/ phis \subseteq phis' /\ (Early \/ phase \in {"place", "rename"})
                             /\ (Early \/ phase \in {"place", "rename"})'
         \/ UNCHANGED phis /\ phase = "rename" /\ phase' = "patch" /\ left' = phis
         \/ UNCHANGED phis /\ phase' \in {"fault", "erase", "list", "done"}
  PROVE  UsesInv' /\ PatchInv'
<1>1. phis \subseteq phis'
  OBVIOUS
<1>2. UsesInv'
  BY <1>1 DEF UsesInv
<1>3. PatchInv'
  <2>1. CASE UNCHANGED <<succs, table, phis, left, phase>>
    BY <2>1 DEF PatchInv, Inputs, Early
  <2>2. CASE (Early \/ phase \in {"place", "rename"})
             /\ (Early \/ phase \in {"place", "rename"})'
    BY <2>2 DEF PatchInv, Early
  <2>3. CASE UNCHANGED phis /\ phase = "rename" /\ phase' = "patch" /\ left' = phis
    BY <2>3 DEF PatchInv, Early
  <2>4. CASE phase' \in {"fault", "erase", "list", "done"}
    BY <2>4 DEF PatchInv, Early
  <2> QED BY <2>1, <2>2, <2>3, <2>4
<1> QED BY <1>2, <1>3

-----------------------------------------------------------------------------
(* Where the values of the predecessors differ. *)
LEMMA DomSelf == ASSUME NEW x PROVE Dom(x, x)
BY DEF Dom, Dominates

LEMMA OtherPred ==
  ASSUME Given, NEW n \in Node \ {Entry}, NEW b \in Node, b = n \/ ~Dom(b, n)
  PROVE  \E q \in Preds(succs, n) : ~Dom(n, q) /\ ~Dom(b, q)
<1> SUFFICES ASSUME \A q \in Preds(succs, n) : Dom(n, q) \/ Dom(b, q) PROVE FALSE
  OBVIOUS
<1> DEFINE S == {x \in Node : ~Dom(n, x) /\ ~Dom(b, x)}
<1>1. Entry \in S
  <2>1. ~Dom(n, Entry)
    BY EntryDominates, DominatesAntisym, NodeAssumption DEF Dom, Given
  <2>2. b # Entry => ~Dom(b, Entry)
    BY EntryDominates, DominatesAntisym, NodeAssumption DEF Dom, Given
  <2>3. b # Entry
    BY EntryDominates DEF Dom
  <2> QED BY <2>1, <2>2, <2>3, NodeAssumption
<1>2. n \notin S /\ b \notin S
  BY DomSelf
<1>3. ASSUME NEW m \in S, NEW x \in succs[m], x # b PROVE x \in S
  <2>1. x \in Node /\ m \in Node /\ m \in Preds(succs, x)
    BY GraphFacts DEF Given, Preds
  <2>2. x # n
    BY <2>1
  <2> QED BY <1>3, <2>1, <2>2, PredDominated DEF Dom
<1>4. CASE b = n
  <2>1. ASSUME NEW m \in S PROVE n \notin succs[m]
    BY <1>4 DEF Preds
  <2>2. \A m \in S : succs[m] \subseteq S
    BY <1>3, <1>4, <2>1
  <2>3. S \in SUBSET Node
    OBVIOUS
  <2>4. S = Node
    <3> HIDE DEF S
    <3> QED BY <1>1, <2>2, <2>3, GraphFacts DEF Given
  <2> QED BY <1>2, <2>4
<1>5. CASE ~Dom(b, n)
  <2>1. S \in SUBSET (Node \ {b, n}) /\ Entry \in S \cup {b}
        /\ \A m \in S : succs[m] \subseteq S \cup {b}
    BY <1>1, <1>2, <1>3
  <2> HIDE DEF S
  <2> QED BY <1>5, <2>1 DEF Dom, Dominates
<1> QED BY <1>4, <1>5

LEMMA MadeBy == \A d : Made(d)[2] = d /\ (Made(d) = Phi(d) => d # Entry /\ ~Writes(d))
BY DEF Made, Op, Phi, Null

LEMMA CheckedMake ==
  ASSUME Given, PlaceInv, phase \in {"place", "rename", "patch"}
  PROVE  /\ checkSet \subseteq Makers
         /\ \A n \in Node \ {Entry} : n \in defBlocks => Writes(n)
<1>1. Gathered /\ Placing
  BY DEF PlaceInv, Early
<1>2. ASSUME NEW n \in Node \ {Entry}, n \in defBlocks PROVE Writes(n)
  <2>1. n \in Defs
    BY <1>1, <1>2 DEF Gathered
  <2> QED BY <2>1 DEF Defs, Given, Sane, Writes
<1> QED BY <1>1, <1>2, NodeAssumption DEF Placing, Gathered, Makers, Defs

LEMMA TwoValues ==
  ASSUME Given, PlaceInv, RenameInv, phase = "patch", NEW n \in phis
  PROVE  \E p, q \in Preds(succs, n) :
           table[p] # table[q] /\ table[p] # Phi(n) /\ table[q] # Phi(n)
<1>1. n \in Node \ {Entry} /\ Placing
  BY DEF PlaceInv, Placing
<1>2. PICK b \in checkSet : n \in dfrontier[b] /\ (b # n \/ n \in defBlocks)
  BY <1>1 DEF Placing
<1>3. b \in Makers /\ Makers \subseteq Node
  BY CheckedMake, MakersAreBlocks
<1>4. PICK p \in Preds(succs, n) : Dom(b, p) /\ (b = n \/ ~Dom(b, n))
  BY <1>2, <1>3 DEF Given, DomFrontier, Dom
<1>5. PICK q \in Preds(succs, n) : ~Dom(n, q) /\ ~Dom(b, q)
  BY <1>1, <1>3, <1>4, OtherPred
<1>6. p \in Node /\ q \in Node
  BY DEF Preds
<1>7. PICK d \in Makers : Lowest(d, p) /\ table[p] = Made(d)
  BY <1>6 DEF RenameInv, Tabled
<1>8. PICK e \in Makers : Lowest(e, q) /\ table[q] = Made(e)
  BY <1>6 DEF RenameInv, Tabled
<1>9. Dom(b, d) /\ Dom(e, q)
  BY <1>3, <1>4, <1>7, <1>8 DEF Lowest
<1>10. Made(e) # Phi(n)
  BY <1>5, <1>9, MadeBy DEF Phi
<1>11. Made(d) # Phi(n)
  <2>1. SUFFICES ASSUME d = n PROVE Writes(n)
    BY MadeBy DEF Phi
  <2>2. b = n
    BY <1>4, <1>9, <2>1
  <2> QED BY <1>1, <1>2, <2>2, CheckedMake
<1>12. Made(d) # Made(e)
  <2>1. d # e
    BY <1>5, <1>9, DominatesTrans DEF Dom
  <2> QED BY <2>1, MadeBy
<1> QED BY <1>7, <1>8, <1>10, <1>11, <1>12

(* A read finds its block's phi, or a value made strictly above.           *)
Above(n) ==
  source[n] # Null =>
    /\ Reads(n) /\ source[n] \in Value
    /\ source[n] = Phi(n) \/ (source[n][2] # n /\ Dom(source[n][2], n))

LEMMA SourceAbove ==
  ASSUME Given, PlaceInv, RenameInv, phase = "patch", NEW n \in Node
  PROVE  Above(n)
<1> SUFFICES ASSUME source[n] # Null, n \notin phis PROVE Above(n)
  BY DEF Above, RenameInv, Sourced, Start, Phi, Value
<1>1. Reads(n) /\ n \in Node \ {Entry} /\ source[n] = table[Parent(n)] /\ source[n] \in Value
  BY DEF RenameInv, Sourced, Start, Passed, Reads
<1>2. /\ Parent(n) \in Node /\ ~Dom(n, Parent(n))
      /\ \A a \in Node : Dom(a, n) <=> a = n \/ Dom(a, Parent(n))
  BY <1>1, ParentFacts
<1>3. PICK d \in Makers : Lowest(d, Parent(n)) /\ table[Parent(n)] = Made(d)
  BY <1>2 DEF RenameInv, Tabled
<1>4. source[n][2] = d /\ d \in Node /\ Dom(d, Parent(n))
  BY <1>1, <1>3, MadeBy, MakersAreBlocks DEF Lowest
<1> QED BY <1>1, <1>2, <1>4 DEF Above

-----------------------------------------------------------------------------
(* Sets of blocks that spread from block to block in rounds: base[n] is    *)
(* what n contributes itself, and n gets what the blocks of nx[n] had.     *)
Layer(g, base, nx) == [n \in Node |-> base[n] \cup UNION {g[m] : m \in nx[n]}]
Spreads(f, base, nx, N) ==
  /\ f[0] = [n \in Node |-> {}]
  /\ \A k \in 1 .. N : f[k] = Layer(f[k - 1], base, nx)

LEMMA LayerType ==
  ASSUME NEW base \in [Node -> SUBSET Node], NEW nx \in [Node -> SUBSET Node],
         NEW g \in [Node -> SUBSET Node]
  PROVE  Layer(g, base, nx) \in [Node -> SUBSET Node]
BY DEF Layer

LEMMA SpreadExists ==
  ASSUME NEW base, NEW nx, NEW N \in Nat
  PROVE  \E f : Spreads(f, base, nx, N) /\ f = [k \in 0 .. N |-> f[k]]
<1> DEFINE Good(f, L) == Spreads(f, base, nx, L) /\ f = [k \in 0 .. L |-> f[k]]
           T == {L \in 0 .. N : ~(\E f : Good(f, L))}
<1>1. SUFFICES ASSUME T # {} PROVE FALSE
  OBVIOUS
<1>2. T \subseteq Nat
  OBVIOUS
<1>3. PICK m \in T : \A k \in T : m <= k
  <2> HIDE DEF T
  <2> QED BY <1>1, <1>2, Least
<1>4. CASE m = 0
  <2> DEFINE f == [k \in 0 .. 0 |-> [n \in Node |-> {}]]
  <2>1. Good(f, 0)
    BY DEF Spreads
  <2> QED BY <1>3, <1>4, <2>1
<1>5. CASE m # 0
  <2>1. m \in 0 .. N /\ m - 1 \in 0 .. N /\ m - 1 \notin T
    BY <1>3, <1>5
  <2>2. PICK f : Good(f, m - 1)
    BY <2>1
  <2> DEFINE g == [k \in 0 .. m |-> IF k = m THEN Layer(f[m - 1], base, nx) ELSE f[k]]
  <2>3. g[0] = [n \in Node |-> {}]
    <3>1. g[0] = f[0]
      BY <1>5, <2>1
    <3>2. f[0] = [n \in Node |-> {}]
      BY <2>2 DEF Spreads
    <3> QED BY <3>1, <3>2
  <2>4. ASSUME NEW k \in 1 .. m PROVE g[k] = Layer(g[k - 1], base, nx)
    <3>1. g[k - 1] = f[k - 1]
      BY <2>1
    <3>2. CASE k = m
      BY <3>1, <3>2, <2>1
    <3>3. CASE k # m
      <4>1. k \in 1 .. (m - 1) /\ g[k] = f[k]
        BY <2>1, <3>3
      <4> QED BY <2>2, <3>1, <4>1 DEF Spreads
    <3> QED BY <3>2, <3>3
  <2>5. g = [k \in 0 .. m |-> g[k]]
    OBVIOUS
  <2>6. Good(g, m)
    <3> HIDE DEF g
    <3> QED BY <2>3, <2>4, <2>5 DEF Spreads
  <2> QED BY <2>6, <1>3
<1> QED BY <1>4, <1>5

LEMMA SpreadType ==
  ASSUME NEW base \in [Node -> SUBSET Node], NEW nx \in [Node -> SUBSET Node],
         NEW N \in Nat, NEW f, Spreads(f, base, nx, N), NEW k \in 0 .. N
  PROVE  f[k] \in [Node -> SUBSET Node]
<1> DEFINE T == {j \in 0 .. N : ~(f[j] \in [Node -> SUBSET Node])}
<1>1. SUFFICES ASSUME T # {} PROVE FALSE
  OBVIOUS
<1>2. T \subseteq Nat
  OBVIOUS
<1>3. PICK m \in T : \A j \in T : m <= j
  <2> HIDE DEF T
  <2> QED BY <1>1, <1>2, Least
<1>4. m # 0
  BY <1>3 DEF Spreads
<1>5. m \in 1 .. N /\ m - 1 \in 0 .. N /\ m - 1 \notin T
  BY <1>3, <1>4
<1>6. f[m - 1] \in [Node -> SUBSET Node] /\ f[m] = Layer(f[m - 1], base, nx)
  BY <1>5 DEF Spreads
<1> QED BY <1>3, <1>6, LayerType

(* The sets that a monotone function makes from the empty one grow until   *)
(* they stay, and there is no more to add than there are blocks.           *)
Monotone(F) ==
  /\ F \in [SUBSET Node -> SUBSET Node]
  /\ \A S, T \in SUBSET Node : S \subseteq T => F[S] \subseteq F[T]
Iterates(a, F, N) ==
  /\ a \in [0 .. N -> SUBSET Node] /\ a[0] = {}
  /\ \A k \in 1 .. N : a[k] = F[a[k - 1]]

LEMMA IterationStops ==
  ASSUME NEW F, Monotone(F), NEW N \in Nat, N = Cardinality(Node),
         NEW a, Iterates(a, F, N)
  PROVE  F[a[N]] = a[N]
<1> USE DEF Monotone, Iterates
<1>1. \A k \in 0 .. N : a[k] \subseteq F[a[k]]
  <2> DEFINE T == {k \in 0 .. N : ~(a[k] \subseteq F[a[k]])}
  <2>1. SUFFICES ASSUME T # {} PROVE FALSE
    OBVIOUS
  <2>2. T \subseteq Nat
    OBVIOUS
  <2>3. PICK m \in T : \A k \in T : m <= k
    <3> HIDE DEF T
    <3> QED BY <2>1, <2>2, Least
  <2>4. m # 0
    BY <2>3
  <2>5. m \in 1 .. N /\ m - 1 \in 0 .. N /\ m - 1 \notin T
    BY <2>3, <2>4
  <2>6. a[m] = F[a[m - 1]] /\ a[m - 1] \subseteq a[m] /\ a[m] \in SUBSET Node /\ a[m - 1] \in SUBSET Node
    BY <2>5
  <2>7. F[a[m - 1]] \subseteq F[a[m]]
    BY <2>6
  <2> QED BY <2>3, <2>6, <2>7
<1>2. SUFFICES ASSUME F[a[N]] # a[N] PROVE FALSE
  OBVIOUS
<1>3. ASSUME NEW k \in 0 .. N, F[a[k]] = a[k] PROVE FALSE
  <2> DEFINE T == {j \in k .. N : a[j] # a[k]}
  <2>1. N \in T
    BY <1>2, <1>3
  <2>2. T \subseteq Nat
    OBVIOUS
  <2>3. PICK m \in T : \A j \in T : m <= j
    <3> HIDE DEF T
    <3> QED BY <2>1, <2>2, Least
  <2>4. m # k
    BY <2>3
  <2>5. m \in 1 .. N /\ m - 1 \in k .. N /\ m - 1 \notin T
    BY <2>3, <2>4
  <2> QED BY <1>3, <2>3, <2>5
<1>4. ASSUME NEW S \in SUBSET Node PROVE IsFiniteSet(S) /\ Cardinality(S) \in Nat /\ Cardinality(S) <= N
  BY FS_Subset, FS_CardinalityType, NodeAssumption
<1> DEFINE T == {k \in 0 .. N : ~(Cardinality(a[k]) >= k)}
<1>5. ASSUME T # {} PROVE FALSE
  <2>1. T \subseteq Nat
    OBVIOUS
  <2>2. PICK m \in T : \A k \in T : m <= k
    <3> HIDE DEF T
    <3> QED BY <1>5, <2>1, Least
  <2>3. m # 0
    <3>1. Cardinality(a[0]) \in Nat
      BY <1>4
    <3>2. ASSUME m = 0 PROVE FALSE
      <4>1. ~(Cardinality(a[0]) >= 0)
        BY <2>2, <3>2
      <4> QED BY <3>1, <4>1
    <3> QED BY <3>2
  <2>4. m \in 1 .. N /\ m - 1 \in 0 .. N /\ m - 1 \notin T
    BY <2>2, <2>3
  <2> DEFINE c == Cardinality(a[m - 1])
             n == Cardinality(a[m])
  <2>5. c >= m - 1
    BY <2>4
  <2>6. a[m - 1] \subseteq a[m] /\ a[m] # a[m - 1] /\ a[m] \in SUBSET Node /\ a[m - 1] \in SUBSET Node
    BY <1>1, <1>3, <2>4
  <2>7. IsFiniteSet(a[m]) /\ c \in Nat /\ n \in Nat
    BY <2>6, <1>4
  <2>8. c <= n /\ c # n
    BY <2>6, <2>7, FS_Subset
  <2>9. ~(n >= m)
    BY <2>2
  <2> HIDE DEF c, n
  <2> QED BY <2>4, <2>5, <2>7, <2>8, <2>9
<1>6. a[N] \in SUBSET Node /\ Cardinality(a[N]) >= N
  BY <1>5
<1>7. a[N] = Node
  <2> DEFINE c == Cardinality(a[N])
  <2>1. c \in Nat /\ c <= N /\ c >= N
    BY <1>4, <1>6
  <2>2. c = N
    <3> HIDE DEF c
    <3> QED BY <2>1
  <2> QED BY <1>6, <2>2, FS_Subset, NodeAssumption
<1>8. F[a[N]] \in SUBSET Node /\ a[N] \subseteq F[a[N]]
  BY <1>1, <1>6
<1> QED BY <1>2, <1>7, <1>8

(* The rounds end with the least solution.                                 *)
LEMMA SpreadSolves ==
  ASSUME NEW base \in [Node -> SUBSET Node], NEW nx \in [Node -> SUBSET Node],
         NEW N, N = Cardinality(Node), NEW f, Spreads(f, base, nx, N)
  PROVE  /\ f[N] \in [Node -> SUBSET Node]
         /\ \A n \in Node : f[N][n] = base[n] \cup UNION {f[N][m] : m \in nx[n]}
         /\ \A g \in [Node -> SUBSET Node] :
              (\A n \in Node : base[n] \cup UNION {g[m] : m \in nx[n]} \subseteq g[n])
                => \A n \in Node : f[N][n] \subseteq g[n]
<1>0. N \in Nat
  BY FS_CardinalityType, NodeAssumption
<1>1. \A k \in 0 .. N : f[k] \in [Node -> SUBSET Node]
  BY <1>0, SpreadType
<1>2. ASSUME NEW e \in Node, NEW n \in Node
      PROVE  e \in f[N][n] <=> e \in base[n] \/ \E m \in nx[n] : e \in f[N][m]
  <2> DEFINE F == [S \in SUBSET Node |-> {x \in Node : e \in base[x] \/ \E m \in nx[x] : m \in S}]
             a == [k \in 0 .. N |-> {x \in Node : e \in f[k][x]}]
  <2>1. F \in [SUBSET Node -> SUBSET Node]
        /\ \A S, T \in SUBSET Node : S \subseteq T => F[S] \subseteq F[T]
    OBVIOUS
  <2>2. a \in [0 .. N -> SUBSET Node]
    OBVIOUS
  <2>3. a[0] = {}
    BY <1>0 DEF Spreads
  <2>4. ASSUME NEW k \in 1 .. N PROVE a[k] = F[a[k - 1]]
    <3>1. k \in 0 .. N /\ k - 1 \in 0 .. N
      BY <1>0
    <3>2. f[k] = Layer(f[k - 1], base, nx)
      BY DEF Spreads
    <3>3. \A x \in Node : e \in f[k][x] <=> e \in base[x] \/ \E m \in nx[x] : e \in f[k - 1][m]
      BY <3>2 DEF Layer
    <3>4. a[k] = {x \in Node : e \in f[k][x]} /\ a[k - 1] = {x \in Node : e \in f[k - 1][x]}
      BY <3>1
    <3> QED BY <3>3, <3>4
  <2>5. F[a[N]] = a[N]
    <3> HIDE DEF F, a
    <3>1. Monotone(F)
      BY <2>1 DEF Monotone
    <3>2. Iterates(a, F, N)
      BY <2>2, <2>3, <2>4 DEF Iterates
    <3> QED BY <1>0, <3>1, <3>2, IterationStops
  <2>6. a[N] = {x \in Node : e \in f[N][x]} /\ a[N] \in SUBSET Node
    BY <1>0
  <2>7. a[N] = {x \in Node : e \in base[x] \/ \E m \in nx[x] : m \in a[N]}
    BY <2>5, <2>6
  <2> HIDE DEF a, F
  <2>8. nx[n] \subseteq Node
    OBVIOUS
  <2> QED BY <2>6, <2>7, <2>8
<1>3. f[N] \in [Node -> SUBSET Node]
  BY <1>0, <1>1
<1>4. ASSUME NEW n \in Node PROVE f[N][n] = base[n] \cup UNION {f[N][m] : m \in nx[n]}
  BY <1>2, <1>3
<1>5. ASSUME NEW g \in [Node -> SUBSET Node],
             \A n \in Node : base[n] \cup UNION {g[m] : m \in nx[n]} \subseteq g[n]
      PROVE  \A n \in Node : f[N][n] \subseteq g[n]
  <2> DEFINE T == {k \in 0 .. N : ~(\A n \in Node : f[k][n] \subseteq g[n])}
  <2>1. ASSUME T # {} PROVE FALSE
    <3>1. T \subseteq Nat
      OBVIOUS
    <3>2. PICK m \in T : \A k \in T : m <= k
      <4> HIDE DEF T
      <4> QED BY <2>1, <3>1, Least
    <3>3. m # 0
      BY <3>2 DEF Spreads
    <3>4. m \in 1 .. N /\ m - 1 \in 0 .. N /\ m - 1 \notin T
      BY <1>0, <3>2, <3>3
    <3>5. \A n \in Node : f[m - 1][n] \subseteq g[n]
      BY <3>4
    <3>6. f[m] = Layer(f[m - 1], base, nx)
      BY <3>4 DEF Spreads
    <3>7. \A n \in Node : f[m][n] \subseteq g[n]
      BY <1>5, <3>5, <3>6 DEF Layer
    <3> QED BY <3>2, <3>7
  <2> QED BY <1>0, <2>1
<1> QED BY <1>3, <1>4, <1>5

-----------------------------------------------------------------------------
(* The values that a table holds in the end, as sets of definitions.       *)
Walked ==
  /\ Given /\ PlaceInv /\ RenameInv /\ PatchInv
  /\ phase = "patch" /\ left = {} /\ ~zero /\ EntryOp

LEMMA WalkedFacts ==
  ASSUME Walked
  PROVE  /\ \A x \in Node : Tabled(x) /\ Sourced(x)
         /\ Makers \subseteq Node /\ Entry \in Makers
         /\ \A d \in Makers \ {Entry} : dfrontier[d] \subseteq phis
         /\ phis \subseteq Node \ {Entry}
         /\ \A x \in Node \ {Entry} : code[x].changes <=> Writes(x)
<1>1. Placing /\ Gathered /\ workList = {}
  BY DEF Walked, PlaceInv, Early
<1>2. ASSUME NEW d \in Makers \ {Entry} PROVE d \in checkSet
  <2>1. CASE d \in phis
    BY <1>1, <2>1 DEF Placing
  <2>2. CASE d \in Node \ {Entry} /\ Writes(d)
    <3>1. d \in Defs
      BY <2>2 DEF Writes, Defs, Walked, Given, Sane
    <3> QED BY <1>1, <3>1 DEF Placing, Gathered
  <2> QED BY <2>1, <2>2 DEF Makers
<1>3. Makers \subseteq Node /\ Entry \in Makers
  BY MakersAreBlocks DEF Walked, Makers
<1>4. \A x \in Node \ {Entry} : code[x].changes <=> Writes(x)
  BY DEF Walked, Given, Sane, Writes
<1> QED BY <1>1, <1>2, <1>3, <1>4 DEF Placing, Walked, RenameInv

LEMMA LowestOnly ==
  ASSUME Given, Makers \subseteq Node, NEW x, NEW d \in Makers, NEW e \in Makers,
         Lowest(d, x), Lowest(e, x)
  PROVE  d = e
BY DominatesAntisym DEF Lowest, Dom, Given

LEMMA LowestMaker ==
  ASSUME Given, Makers \subseteq Node, NEW x \in Makers, NEW d \in Makers, Lowest(d, x)
  PROVE  d = x
BY DomSelf, DominatesAntisym DEF Lowest, Dom, Given

LEMMA HasPred ==
  ASSUME Given, NEW n \in Node \ {Entry}
  PROVE  Preds(succs, n) # {}
<1> SUFFICES ASSUME Preds(succs, n) = {} PROVE FALSE
  OBVIOUS
<1>1. \A m \in Node : succs[m] \subseteq Node \ {n}
  BY GraphFacts DEF Given, Preds
<1>2. Node \ {n} = Node
  <2>1. Entry \in Node \ {n} /\ Node \ {n} \in SUBSET Node
    BY NodeAssumption
  <2> DEFINE S == Node \ {n}
  <2>2. Entry \in S /\ S \in SUBSET Node /\ \A m \in S : succs[m] \subseteq S
    BY <1>1, <2>1
  <2> HIDE DEF S
  <2>3. S = Node
    BY <2>2, GraphFacts DEF Given
  <2> QED BY <2>3 DEF S
<1> QED BY <1>2

(* A block without a phi is entered with one value.                        *)
LEMMA SameAbove ==
  ASSUME Walked, NEW n \in Node \ {Entry}, n \notin phis, NEW p \in Preds(succs, n),
         NEW e \in Makers, Lowest(e, p)
  PROVE  /\ e # n /\ Dom(e, n)
         /\ \A a \in Makers : a # n /\ Dom(a, n) => Dom(a, e)
<1>1. Given /\ p \in Node /\ n \in succs[p] /\ e \in Node /\ Makers \subseteq Node
  BY WalkedFacts DEF Walked, Preds
<1>2. Dom(e, p)
  BY DEF Lowest
<1>3. ASSUME e = n \/ ~Dom(e, n) PROVE FALSE
  <2>1. e # Entry
    BY <1>3, EntryDominates DEF Dom
  <2>2. n \in dfrontier[e]
    BY <1>1, <1>2, <1>3 DEF Given, DomFrontier, Dom
  <2> QED BY <2>1, <2>2, WalkedFacts
<1>4. ASSUME NEW a \in Makers, a # n, Dom(a, n) PROVE Dom(a, e)
  <2>1. Dom(a, p)
    BY <1>1, <1>4, PredDominated DEF Dom
  <2> QED BY <2>1 DEF Lowest
<1> QED BY <1>3, <1>4

LEMMA SameTable ==
  ASSUME Walked, NEW n \in Node \ {Entry}, n \notin phis, NEW p \in Preds(succs, n)
  PROVE  /\ table[p] = table[Parent(n)]
         /\ n \notin Makers => table[p] = table[n]
<1>1. Given /\ p \in Node /\ Makers \subseteq Node
  BY WalkedFacts DEF Walked, Preds
<1>2. PICK e \in Makers : Lowest(e, p) /\ table[p] = Made(e)
  BY <1>1, WalkedFacts DEF Tabled
<1>3. /\ e # n /\ Dom(e, n)
      /\ \A a \in Makers : a # n /\ Dom(a, n) => Dom(a, e)
  BY <1>2, SameAbove
<1>4. /\ Parent(n) \in Node /\ ~Dom(n, Parent(n))
      /\ \A a \in Node : Dom(a, n) <=> a = n \/ Dom(a, Parent(n))
  BY <1>1, ParentFacts
<1>5. Lowest(e, Parent(n))
  <2>1. Dom(e, Parent(n))
    BY <1>1, <1>3, <1>4
  <2>2. \A a \in Makers : Dom(a, Parent(n)) => Dom(a, e)
    BY <1>1, <1>3, <1>4
  <2> QED BY <2>1, <2>2 DEF Lowest
<1>6. PICK d \in Makers : Lowest(d, Parent(n)) /\ table[Parent(n)] = Made(d)
  BY <1>4, WalkedFacts DEF Tabled
<1>7. d = e
  BY <1>1, <1>5, <1>6, LowestOnly
<1>8. ASSUME n \notin Makers PROVE table[p] = table[n]
  <2>1. Lowest(e, n)
    BY <1>3, <1>8 DEF Lowest
  <2>2. PICK c \in Makers : Lowest(c, n) /\ table[n] = Made(c)
    BY WalkedFacts DEF Tabled
  <2>3. c = e
    BY <1>1, <2>1, <2>2, LowestOnly
  <2> QED BY <1>2, <2>2, <2>3
<1> QED BY <1>2, <1>6, <1>7, <1>8

(* Origins and ReachingDefs are least solutions.                           *)
InputsOf(n) == {inBound[n][p] : p \in DOMAIN inBound[n]}
OriginSteps(n) == {v[2] : v \in {w \in InputsOf(n) : w[1] = "op"}}
OriginPhis(n) == {v[2] : v \in {w \in InputsOf(n) : w[1] # "op"}}
Merged(g, n) == OriginSteps(n) \cup UNION {g[m] : m \in OriginPhis(n)}
Changes(n) == n = Entry \/ code[n].changes

LEMMA OriginsLeast ==
  ASSUME \A n \in Node : InputsOf(n) \subseteq Value
  PROVE  /\ Origins \in [Node -> SUBSET Node]
         /\ \A n \in Node : Origins[n] = Merged(Origins, n)
         /\ \A g \in [Node -> SUBSET Node] :
              (\A n \in Node : Merged(g, n) \subseteq g[n])
                => \A n \in Node : Origins[n] \subseteq g[n]
<1> DEFINE N == Cardinality(Node)
           base == [n \in Node |-> OriginSteps(n)]
           nx == [n \in Node |-> OriginPhis(n)]
           Round(g) == [n \in Node |-> UNION {IF v[1] = "op" THEN {v[2]} ELSE g[v[2]] :
                                               v \in {inBound[n][p] : p \in DOMAIN inBound[n]}}]
           Solves(f) == f = [k \in 0 .. N |-> IF k = 0 THEN [n \in Node |-> {}]
                                              ELSE Round(f[k - 1])]
           h == CHOOSE f : Solves(f)
<1>0. N \in Nat
  BY FS_CardinalityType, NodeAssumption
<1>1. Origins = h[N]
  BY Zenon DEF Origins
<1>2. ASSUME NEW g PROVE Round(g) = Layer(g, base, nx)
  <2>1. ASSUME NEW n \in Node
        PROVE  UNION {IF v[1] = "op" THEN {v[2]} ELSE g[v[2]] :
                        v \in {inBound[n][p] : p \in DOMAIN inBound[n]}}
                 = base[n] \cup UNION {g[m] : m \in nx[n]}
    <3> DEFINE I == InputsOf(n)
    <3>1. base[n] = {v[2] : v \in {w \in I : w[1] = "op"}}
          /\ nx[n] = {v[2] : v \in {w \in I : w[1] # "op"}}
      BY DEF OriginSteps, OriginPhis
    <3>2. I = {inBound[n][p] : p \in DOMAIN inBound[n]}
      BY DEF InputsOf
    <3> HIDE DEF base, nx, I
    <3>3. UNION {IF v[1] = "op" THEN {v[2]} ELSE g[v[2]] : v \in I}
            = base[n] \cup UNION {g[m] : m \in nx[n]}
      BY <3>1
    <3> QED BY <3>2, <3>3
  <2> HIDE DEF base, nx
  <2> QED BY <2>1 DEF Layer
<1>3. base \in [Node -> SUBSET Node] /\ nx \in [Node -> SUBSET Node]
  BY DEF OriginSteps, OriginPhis, Value
<1> HIDE DEF N, base, nx, Round
<1>4. PICK f : Spreads(f, base, nx, N) /\ f = [k \in 0 .. N |-> f[k]]
  BY ZenonT(30), <1>0, SpreadExists
<1>5. Solves(f)
  <2>1. ASSUME NEW k \in 0 .. N
        PROVE  f[k] = IF k = 0 THEN [n \in Node |-> {}] ELSE Round(f[k - 1])
    <3>1. k # 0 => k \in 1 .. N
      BY <1>0
    <3>2. k # 0 => f[k] = Layer(f[k - 1], base, nx)
      BY <1>4, <3>1 DEF Spreads
    <3> QED BY <1>2, <1>4, <3>2 DEF Spreads
  <2> QED BY <1>4, <2>1, Zenon
<1>6. Solves(h)
  <2> HIDE DEF Solves
  <2> QED BY <1>5, Zenon
<1>7. Spreads(h, base, nx, N)
  <2>1. ASSUME NEW k \in 0 .. N
        PROVE  h[k] = IF k = 0 THEN [n \in Node |-> {}] ELSE Round(h[k - 1])
    <3> HIDE DEF h
    <3> QED BY <1>6, Zenon
  <2> HIDE DEF h, Solves
  <2> QED BY <1>0, <1>2, <2>1 DEF Spreads
<1> HIDE DEF h
<1>8. N = Cardinality(Node)
  BY DEF N
<1> DEFINE Lay(g, n) == base[n] \cup UNION {g[m] : m \in nx[n]}
<1>9. /\ h[N] \in [Node -> SUBSET Node]
      /\ \A n \in Node : h[N][n] = Lay(h[N], n)
      /\ \A g \in [Node -> SUBSET Node] :
           (\A n \in Node : Lay(g, n) \subseteq g[n]) => \A n \in Node : h[N][n] \subseteq g[n]
  BY <1>3, <1>7, <1>8, SpreadSolves
<1>10. ASSUME NEW g, NEW n \in Node PROVE Lay(g, n) = Merged(g, n)
  BY DEF base, nx, Merged
<1> HIDE DEF Lay
<1> QED BY <1>1, <1>9, <1>10

Ends(g, n) == IF Changes(n) THEN {n} ELSE UNION {g[p] : p \in Preds(succs, n)}

LEMMA ReachingLeast ==
  /\ ReachingDefs \in [Node -> SUBSET Node]
  /\ \A n \in Node : ReachingDefs[n] = Ends(ReachingDefs, n)
  /\ \A g \in [Node -> SUBSET Node] :
       (\A n \in Node : Ends(g, n) \subseteq g[n])
         => \A n \in Node : ReachingDefs[n] \subseteq g[n]
<1> DEFINE N == Cardinality(Node)
           base == [n \in Node |-> IF Changes(n) THEN {n} ELSE {}]
           nx == [n \in Node |-> IF Changes(n) THEN {} ELSE Preds(succs, n)]
           Round(g) == [n \in Node |-> IF n = Entry \/ code[n].changes THEN {n}
                                       ELSE UNION {g[p] : p \in Preds(succs, n)}]
           Solves(f) == f = [k \in 0 .. N |-> IF k = 0 THEN [n \in Node |-> {}]
                                              ELSE Round(f[k - 1])]
           h == CHOOSE f : Solves(f)
<1>0. N \in Nat
  BY FS_CardinalityType, NodeAssumption
<1>1. ReachingDefs = h[N]
  BY Zenon DEF ReachingDefs
<1>2. ASSUME NEW g PROVE Round(g) = Layer(g, base, nx)
  <2>1. ASSUME NEW n \in Node
        PROVE  (IF n = Entry \/ code[n].changes THEN {n} ELSE UNION {g[p] : p \in Preds(succs, n)})
                 = base[n] \cup UNION {g[m] : m \in nx[n]}
    BY DEF Changes
  <2> HIDE DEF base, nx
  <2> QED BY <2>1 DEF Layer
<1>3. base \in [Node -> SUBSET Node] /\ nx \in [Node -> SUBSET Node]
  BY DEF Preds
<1> HIDE DEF N, base, nx, Round
<1>4. PICK f : Spreads(f, base, nx, N) /\ f = [k \in 0 .. N |-> f[k]]
  BY ZenonT(30), <1>0, SpreadExists
<1>5. Solves(f)
  <2>1. ASSUME NEW k \in 0 .. N
        PROVE  f[k] = IF k = 0 THEN [n \in Node |-> {}] ELSE Round(f[k - 1])
    <3>1. k # 0 => k \in 1 .. N
      BY <1>0
    <3>2. k # 0 => f[k] = Layer(f[k - 1], base, nx)
      BY <1>4, <3>1 DEF Spreads
    <3> QED BY <1>2, <1>4, <3>2 DEF Spreads
  <2> QED BY <1>4, <2>1, Zenon
<1>6. Solves(h)
  <2> HIDE DEF Solves
  <2> QED BY <1>5, Zenon
<1>7. Spreads(h, base, nx, N)
  <2>1. ASSUME NEW k \in 0 .. N
        PROVE  h[k] = IF k = 0 THEN [n \in Node |-> {}] ELSE Round(h[k - 1])
    <3> HIDE DEF h
    <3> QED BY <1>6, Zenon
  <2> HIDE DEF h, Solves
  <2> QED BY <1>0, <1>2, <2>1 DEF Spreads
<1> HIDE DEF h
<1>8. N = Cardinality(Node)
  BY DEF N
<1> DEFINE Lay(g, n) == base[n] \cup UNION {g[m] : m \in nx[n]}
<1>9. /\ h[N] \in [Node -> SUBSET Node]
      /\ \A n \in Node : h[N][n] = Lay(h[N], n)
      /\ \A g \in [Node -> SUBSET Node] :
           (\A n \in Node : Lay(g, n) \subseteq g[n]) => \A n \in Node : h[N][n] \subseteq g[n]
  BY SMTT(30), <1>3, <1>7, <1>8, SpreadSolves
<1>10. ASSUME NEW g, NEW n \in Node PROVE Lay(g, n) = Ends(g, n)
  BY DEF base, nx, Ends
<1> HIDE DEF Lay
<1> QED BY <1>1, <1>9, <1>10

(* The definitions that the values of a table entry stand for.             *)
Val(g, v) == IF v[1] = "op" THEN {v[2]} ELSE g[v[2]]
Found(g, n) == UNION {Val(g, v) : v \in InputsOf(n)}
Entering(n) == UNION {ReachingDefs[p] : p \in Preds(succs, n)}

LEMMA InputFacts ==
  ASSUME Walked
  PROVE  /\ \A x \in Node : table[x] \in Value
         /\ \A n \in Node : InputsOf(n) \subseteq Value
         /\ \A n \in phis : InputsOf(n) = {table[p] : p \in Preds(succs, n)}
         /\ \A n \in Node \ phis : InputsOf(n) = {}
<1>1. \A x \in Node : table[x] \in Value
  <2> TAKE x \in Node
  <2>1. PICK d \in Makers : table[x] = Made(d)
    BY WalkedFacts DEF Tabled
  <2> QED BY <2>1, WalkedFacts, MadeValue DEF Walked
<1>2. \A n \in phis : InputsOf(n) = {table[p] : p \in Preds(succs, n)}
  <2> TAKE n \in phis
  <2>1. inBound[n] = Inputs(n)
    BY DEF Walked, PatchInv
  <2>2. DOMAIN Inputs(n) = Preds(succs, n) /\ \A p \in Preds(succs, n) : Inputs(n)[p] = table[p]
    BY DEF Inputs
  <2> HIDE DEF Walked
  <2> QED BY <2>1, <2>2 DEF InputsOf
<1>3. \A n \in Node \ phis : InputsOf(n) = {}
  BY DEF Walked, PatchInv, InputsOf
<1> QED BY <1>1, <1>2, <1>3 DEF Preds

LEMMA OriginVals == ASSUME NEW g, NEW n PROVE Merged(g, n) = Found(g, n)
BY DEF Merged, Found, OriginSteps, OriginPhis, Val

(* The blocks that make a value: what leaves them.                         *)
LEMMA MakerEntry ==
  ASSUME Walked, NEW x \in Makers, NEW g
  PROVE  /\ table[x] = Made(x)
         /\ Changes(x) <=> Made(x) = Op(x)
         /\ ~Changes(x) => Made(x) = Phi(x) /\ x \in phis
         /\ Val(g, Made(x)) = IF Changes(x) THEN {x} ELSE g[x]
<1>1. x \in Node /\ Makers \subseteq Node
  BY WalkedFacts
<1>2. PICK d \in Makers : Lowest(d, x) /\ table[x] = Made(d)
  BY <1>1, WalkedFacts DEF Tabled
<1>3. d = x
  BY <1>1, <1>2, LowestMaker DEF Walked
<1>4. Changes(x) <=> x = Entry \/ Writes(x)
  BY <1>1, WalkedFacts DEF Changes
<1>5. /\ Changes(x) => Made(x) = Op(x)
      /\ ~Changes(x) => Made(x) = Phi(x) /\ x \in phis
  BY <1>1, <1>4 DEF Made, Walked, Makers
<1>6. Op(x) # Phi(x)
  BY DEF Op, Phi
<1> QED BY <1>2, <1>3, <1>5, <1>6 DEF Val, Op, Phi

LEMMA OriginsReach ==
  ASSUME Walked, NEW x \in Node
  PROVE  ReachingDefs[x] \subseteq Val(Origins, table[x])
<1> DEFINE V == [y \in Node |-> Val(Origins, table[y])]
<1>1. \A y \in Node : V[y] \in SUBSET Node
  BY InputFacts, OriginsLeast DEF Val, Value
<1>2. ASSUME NEW y \in Node PROVE Ends(V, y) \subseteq V[y]
  <2>1. CASE Changes(y)
    <3>1. y \in Makers
      BY <2>1, WalkedFacts DEF Changes, Makers
    <3> QED BY <2>1, <3>1, MakerEntry DEF Ends
  <2>2. CASE ~Changes(y) /\ y \in phis
    <3>1. y \in Makers
      BY <2>2 DEF Makers
    <3>2. V[y] = Origins[y]
      BY <2>2, <3>1, MakerEntry
    <3>3. Origins[y] = Found(Origins, y)
      BY InputFacts, OriginsLeast, OriginVals
    <3>4. InputsOf(y) = {table[p] : p \in Preds(succs, y)}
      BY <2>2, InputFacts
    <3>5. \A p \in Preds(succs, y) : V[p] = Val(Origins, table[p])
      BY DEF Preds
    <3> HIDE DEF V
    <3> QED BY <2>2, <3>2, <3>3, <3>4, <3>5 DEF Ends, Found
  <2>3. CASE ~Changes(y) /\ y \notin phis
    <3>1. y \notin Makers /\ y # Entry
      BY <2>3, WalkedFacts DEF Changes, Makers
    <3>2. \A p \in Preds(succs, y) : p \in Node /\ table[p] = table[y]
      BY <2>3, <3>1, SameTable DEF Preds
    <3>3. \A p \in Preds(succs, y) : V[p] = V[y]
      BY <3>2
    <3> HIDE DEF V
    <3> QED BY <2>3, <3>3 DEF Ends
  <2> QED BY <2>1, <2>2, <2>3
<1>3. V \in [Node -> SUBSET Node]
  BY <1>1
<1>4. ReachingDefs[x] \subseteq V[x]
  <2> HIDE DEF V
  <2> QED BY <1>2, <1>3, ReachingLeast
<1> QED BY <1>4

LEMMA ReachOrigins ==
  ASSUME Walked, NEW x \in Node
  PROVE  Val(Origins, table[x]) \subseteq ReachingDefs[x]
<1> DEFINE B == [n \in Node |-> Entering(n)]
<1>1. \A n \in Node : ReachingDefs[n] = IF Changes(n) THEN {n} ELSE B[n]
  BY ReachingLeast DEF Ends, Entering
<1>2. B \in [Node -> SUBSET Node]
  BY ReachingLeast DEF Entering, Preds
<1>3. ASSUME NEW y \in Node PROVE Val(B, table[y]) \subseteq ReachingDefs[y]
  <2>1. PICK d \in Makers : Lowest(d, y) /\ table[y] = Made(d)
    BY WalkedFacts DEF Tabled
  <2>2. d \in Node /\ Val(B, table[y]) = ReachingDefs[d]
    <3>1. d \in Node
      BY WalkedFacts
    <3>2. Val(B, Made(d)) = IF Changes(d) THEN {d} ELSE B[d]
      <4> HIDE DEF B
      <4> QED BY MakerEntry
    <3> QED BY <1>1, <2>1, <3>1, <3>2
  <2> DEFINE S == {z \in Node : Lowest(d, z) => ReachingDefs[d] \subseteq ReachingDefs[z]}
  <2>3. Entry \in S
    <3>1. Entry \in Makers /\ Makers \subseteq Node
      BY WalkedFacts
    <3> QED BY <3>1, LowestMaker DEF Walked
  <2>4. ASSUME NEW m \in S, NEW z \in succs[m] PROVE z \in S
    <3>1. z \in Node \ {Entry} /\ m \in Preds(succs, z) /\ m \in Node
      BY GraphFacts DEF Walked, Given, Preds
    <3>2. SUFFICES ASSUME Lowest(d, z), d # z PROVE ReachingDefs[d] \subseteq ReachingDefs[z]
      BY <3>1
    <3>3. z \notin Makers /\ z \notin phis
      BY <3>2, LowestMaker, WalkedFacts DEF Walked, Makers
    <3>4. PICK e \in Makers : Lowest(e, m) /\ table[m] = Made(e)
      BY <3>1, WalkedFacts DEF Tabled
    <3>5. /\ e # z /\ Dom(e, z)
          /\ \A a \in Makers : a # z /\ Dom(a, z) => Dom(a, e)
      BY <3>1, <3>3, <3>4, SameAbove
    <3>6. Lowest(e, z)
      BY <3>3, <3>5 DEF Lowest
    <3>7. e = d
      BY <3>2, <3>6, LowestOnly, WalkedFacts DEF Walked
    <3>8. ReachingDefs[d] \subseteq ReachingDefs[m]
      BY <3>4, <3>7
    <3>9. ~Changes(z)
      BY <3>1, <3>3, WalkedFacts DEF Changes, Makers
    <3>10. ReachingDefs[m] \subseteq ReachingDefs[z]
      <4>1. ReachingDefs[z] = Entering(z)
        BY <1>1, <3>1, <3>9
      <4> QED BY <3>1, <4>1 DEF Entering
    <3> QED BY <3>8, <3>10
  <2>5. S = Node
    <3>1. S \in SUBSET Node
      OBVIOUS
    <3>2. \A m \in S : succs[m] \subseteq S
      BY <2>4
    <3> HIDE DEF S
    <3> QED BY <2>3, <3>1, <3>2, GraphFacts DEF Walked, Given
  <2>6. ReachingDefs[d] \subseteq ReachingDefs[y]
    BY <2>1, <2>5
  <2> QED BY <2>2, <2>6
<1> HIDE DEF B
<1>4. ASSUME NEW n \in Node
      PROVE  Merged(B, n) \subseteq B[n]
  <2>1. CASE n \in phis
    <3>1. \A p \in Preds(succs, n) : Val(B, table[p]) \subseteq B[n]
      BY <1>3 DEF B, Entering, Preds
    <3>2. InputsOf(n) = {table[p] : p \in Preds(succs, n)}
      BY <2>1, InputFacts
    <3> QED BY <3>1, <3>2, OriginVals DEF Found
  <2>2. CASE n \notin phis
    <3>1. InputsOf(n) = {}
      BY <2>2, InputFacts
    <3> QED BY <3>1, OriginVals DEF Found
  <2> QED BY <2>1, <2>2
<1>5. \A n \in Node : Origins[n] \subseteq B[n]
  BY <1>2, <1>4, InputFacts, OriginsLeast
<1>6. Val(Origins, table[x]) \subseteq Val(B, table[x])
  <2>1. table[x] \in Value
    BY InputFacts
  <2> QED BY <1>5, <2>1 DEF Val, Value
<1> QED BY <1>3, <1>6

(* What a read finds is what enters its block. *)
LEMMA ReadsRight ==
  ASSUME Walked, NEW n \in Node, Reads(n)
  PROVE  (IF source[n][1] = "op" THEN {source[n][2]} ELSE Origins[source[n][2]])
           = Entering(n)
<1>1. n \in Node \ {Entry} /\ source[n] = Start(n)
  BY WalkedFacts DEF Reads, Sourced
<1>2. \A y \in Node : Val(Origins, table[y]) = ReachingDefs[y]
  BY OriginsReach, ReachOrigins
<1>3. \A p \in Preds(succs, n) : p \in Node
  BY DEF Preds
<1>4. CASE n \in phis
  <2>1. Origins[n] = Found(Origins, n)
    BY InputFacts, OriginsLeast, OriginVals
  <2>2. InputsOf(n) = {table[p] : p \in Preds(succs, n)}
    BY <1>4, InputFacts
  <2>3. Origins[n] = Entering(n)
    BY <1>2, <1>3, <2>1, <2>2 DEF Entering, Found
  <2> QED BY <1>1, <1>4, <2>3 DEF Start, Phi
<1>5. CASE n \notin phis
  <2>1. Preds(succs, n) # {}
    BY <1>1, HasPred DEF Walked
  <2>2. \A p \in Preds(succs, n) : table[p] = source[n]
    BY <1>1, <1>5, SameTable DEF Start, Passed
  <2>3. Val(Origins, source[n]) = Entering(n)
    BY <1>2, <1>3, <2>1, <2>2 DEF Entering
  <2> QED BY <2>3 DEF Val
<1> QED BY <1>4, <1>5

-----------------------------------------------------------------------------
(* The end of the renaming: what holds while the phis are erased, and from *)
(* then on.                                                                *)
Needed(n) ==
  \E p, q \in Preds(succs, n) :
    inBound[n][p] # inBound[n][q] /\ inBound[n][p] # Phi(n) /\ inBound[n][q] # Phi(n)

ReadsOrigins(n) ==
  (IF source[n][1] = "op" THEN {source[n][2]} ELSE Origins[source[n][2]]) = Entering(n)

Renamed ==
  /\ phis \subseteq Node
  /\ \A n \in phis : Needed(n)
  /\ \A n \in Node : Above(n)
  /\ ~zero => \A n \in Node : Reads(n) => ReadsOrigins(n)

EndInv == phase \in {"erase", "list", "done"} => Renamed

OriginsOf(ib) ==
  LET from[k \in 0 .. Cardinality(Node)] ==
        IF k = 0 THEN [n \in Node |-> {}]
        ELSE LET last == from[k - 1]
             IN  [n \in Node |-> UNION {IF v[1] = "op" THEN {v[2]} ELSE last[v[2]] :
                                          v \in {ib[n][p] : p \in DOMAIN ib[n]}}]
  IN  from[Cardinality(Node)]

ReachingIn(s, c) ==
  LET out[k \in 0 .. Cardinality(Node)] ==
        IF k = 0 THEN [n \in Node |-> {}]
        ELSE LET last == out[k - 1]
             IN  [n \in Node |-> IF n = Entry \/ c[n].changes THEN {n}
                                ELSE UNION {last[p] : p \in Preds(s, n)}]
  IN  out[Cardinality(Node)]

LEMMA SameOrigins == UNCHANGED inBound => Origins' = Origins
<1>1. Origins = OriginsOf(inBound)
  BY Zenon DEF Origins, OriginsOf
<1>2. Origins' = OriginsOf(inBound')
  BY Zenon DEF Origins, OriginsOf
<1> QED BY <1>1, <1>2

LEMMA SameReaching == UNCHANGED <<succs, code>> => ReachingDefs' = ReachingDefs
<1>1. ReachingDefs = ReachingIn(succs, code)
  BY Zenon DEF ReachingDefs, ReachingIn
<1>2. ReachingDefs' = ReachingIn(succs', code')
  BY Zenon DEF ReachingDefs, ReachingIn
<1> QED BY <1>1, <1>2

LEMMA RenamedStays ==
  ASSUME Renamed, UNCHANGED <<program, source, inBound>>, phis' \subseteq phis
  PROVE  Renamed'
<1>1. UNCHANGED <<succs, code, zero, source, inBound>>
  BY DEF program
<1>2. \A n \in Node : Needed(n) => Needed(n)'
  BY <1>1 DEF Needed, Preds
<1>3. \A n \in Node : Above(n) => Above(n)'
  BY <1>1 DEF Above, Reads, Dom
<1>4. \A n \in Node : Reads(n)' <=> Reads(n)
  BY <1>1 DEF Reads
<1>5. Origins' = Origins /\ ReachingDefs' = ReachingDefs
  BY <1>1, SameOrigins, SameReaching
<1>6. \A n \in Node : ReadsOrigins(n)' <=> ReadsOrigins(n)
  BY <1>1, <1>5 DEF ReadsOrigins, Entering, Preds
<1> QED BY <1>1, <1>2, <1>3, <1>4, <1>6 DEF Renamed

LEMMA EndPatchEnds ==
  ASSUME Given, PlaceInv, RenameInv, PatchInv, EndPatch
  PROVE  Renamed
<1>1. phase = "patch" /\ left = {}
  BY DEF EndPatch
<1>2. phis \subseteq Node
  BY <1>1 DEF PlaceInv, Placing
<1>3. ASSUME NEW n \in phis PROVE Needed(n)
  <2>1. inBound[n] = Inputs(n)
    BY <1>1 DEF PatchInv
  <2>2. PICK p, q \in Preds(succs, n) :
          table[p] # table[q] /\ table[p] # Phi(n) /\ table[q] # Phi(n)
    BY <1>1, TwoValues
  <2>3. inBound[n][p] = table[p] /\ inBound[n][q] = table[q]
    BY <2>1 DEF Inputs
  <2> QED BY <2>2, <2>3 DEF Needed
<1>4. \A n \in Node : Above(n)
  BY <1>1, SourceAbove
<1>5. ASSUME ~zero, NEW n \in Node, Reads(n) PROVE ReadsOrigins(n)
  <2>1. Gathered
    BY <1>1 DEF PlaceInv, Early
  <2>2. EntryOp
    BY <1>5, <2>1 DEF Gathered, EntryOp, Reads, Given, Sane
  <2>3. Walked
    BY <1>1, <1>5, <2>2 DEF Walked
  <2> QED BY <1>5, <2>3, ReadsRight DEF ReadsOrigins
<1> QED BY <1>2, <1>3, <1>4, <1>5 DEF Renamed

-----------------------------------------------------------------------------
(* The listing.  All that dominates a block of calls was called before it, *)
(* and what dominates a listed block is listed above it or still called.   *)
Once(s) == \A i, j \in 1 .. Len(s) : s[i] = s[j] => i = j

Searching ==
  /\ calls \in Seq(Node) /\ topo \in Seq(Node) /\ Once(calls) /\ Once(topo)
  /\ Visited(calls) \cap Visited(topo) = {}
  /\ Entry \in Visited(calls) \cup Visited(topo)
  /\ \A n \in Visited(topo) : succs[n] \subseteq Visited(calls) \cup Visited(topo)
  /\ \A k \in 1 .. Len(calls), d \in Node :
       Dom(d, calls[k]) => \E j \in 1 .. k : calls[j] = d
  /\ \A i \in 1 .. Len(topo), d \in Node :
       Dom(d, topo[i]) => d \in Visited(calls) \/ \E j \in 1 .. i : topo[j] = d

ListInv ==
  /\ phase \notin {"list", "done"} => calls = <<>> /\ topo = <<>>
  /\ phase \in {"list", "done"} => Searching
  /\ phase = "done" => calls = <<>>

LEMMA EndEraseLists ==
  ASSUME Given, ListInv, EndErase
  PROVE  ListInv'
<1>1. phase' = "list" /\ calls' = <<Entry>> /\ topo' = <<>> /\ succs' = succs
  BY DEF EndErase, ListInv, program
<1>2. /\ calls' \in Seq(Node) /\ Len(calls') = 1 /\ calls'[1] = Entry
      /\ topo' \in Seq(Node) /\ Len(topo') = 0
  BY <1>1, NodeAssumption
<1>3. Visited(calls') = {Entry} /\ Visited(topo') = {}
  BY <1>2 DEF Visited
<1>4. \A d \in Node : Dom(d, Entry) => d = Entry
  BY EntryDominates, DominatesAntisym, NodeAssumption DEF Dom, Given
<1>5. \A k \in 1 .. Len(calls'), d \in Node :
        Dom(d, calls'[k]) => \E j \in 1 .. k : calls'[j] = d
  <2> TAKE k \in 1 .. Len(calls'), d \in Node
  <2>1. k = 1
    BY <1>2
  <2> QED BY <1>2, <1>4, <2>1
<1>6. Once(calls') /\ Once(topo')
  BY <1>2 DEF Once
<1>7. Searching'
  <2>1. \A x, y : Dom(x, y)' <=> Dom(x, y)
    BY <1>1 DEF Dom
  <2> QED BY <1>1, <1>2, <1>3, <1>5, <1>6, <2>1 DEF Searching
<1> QED BY <1>1, <1>7 DEF ListInv

LEMMA DescendLists ==
  ASSUME Given, ListInv, NEW n \in Node, Descend(n)
  PROVE  ListInv'
<1>1. /\ phase = "list" /\ phase' = "list" /\ calls # <<>> /\ n \in Unlisted
      /\ calls' = Append(calls, n) /\ topo' = topo /\ succs' = succs
      /\ Searching
  BY DEF Descend, ListInv, program
<1> DEFINE l == Len(calls)
<1>2. calls \in Seq(Node) /\ l \in Nat
  BY <1>1 DEF Searching
<1>3. l \in 1 .. l /\ n \in succs[calls[l]] /\ n \notin Visited(calls) /\ n \notin Visited(topo)
  <2>1. l # 0
    BY <1>1, <1>2
  <2> QED BY <1>1, <1>2, <2>1 DEF Unlisted, Last
<1>4. calls' \in Seq(Node) /\ Len(calls') = l + 1 /\ calls'[l + 1] = n
      /\ \A k \in 1 .. l : calls'[k] = calls[k]
  BY <1>1, <1>2
<1>5. Visited(calls') = Visited(calls) \cup {n}
  BY <1>1, <1>2, VisitedAppend
<1>6. \A k \in 1 .. l : calls[k] \in Visited(calls) /\ calls[k] \in Node
  BY <1>2 DEF Visited
<1>7. \A k \in 1 .. l, d \in Node : Dom(d, calls[k]) => \E j \in 1 .. k : calls[j] = d
  BY <1>1 DEF Searching
<1>8. Once(calls)
  BY <1>1 DEF Searching
<1> HIDE DEF l
<1>9. Once(calls')
  <2> SUFFICES ASSUME NEW i \in 1 .. l + 1, NEW j \in 1 .. l + 1, calls'[i] = calls'[j]
               PROVE  i = j
    BY <1>4 DEF Once
  <2>1. (i \in 1 .. l \/ i = l + 1) /\ (j \in 1 .. l \/ j = l + 1)
    BY <1>2
  <2>2. \A x, y \in 1 .. l : calls[x] = calls[y] => x = y
    BY <1>8 DEF Once, l
  <2> QED BY <1>3, <1>4, <1>6, <2>1, <2>2
<1>10. ASSUME NEW k \in 1 .. l + 1, NEW d \in Node, Dom(d, calls'[k])
       PROVE  \E j \in 1 .. k : calls'[j] = d
  <2>1. CASE k \in 1 .. l
    <3>1. PICK j \in 1 .. k : calls[j] = d
      BY <1>4, <1>7, <1>10, <2>1
    <3>2. j \in 1 .. l
      BY <1>2, <2>1
    <3> QED BY <1>4, <3>1, <3>2
  <2>2. CASE k = l + 1 /\ d = n
    BY <1>2, <1>4, <2>2
  <2>3. CASE k = l + 1 /\ d # n
    <3>1. Dom(d, calls[l])
      BY <1>3, <1>4, <1>6, <1>10, <2>3, PredDominated DEF Dom
    <3>2. PICK j \in 1 .. l : calls[j] = d
      BY <1>3, <1>7, <3>1
    <3>3. j \in 1 .. k
      BY <1>2, <2>3
    <3> QED BY <1>4, <3>2, <3>3
  <2>4. k \in 1 .. l \/ k = l + 1
    BY <1>2
  <2> QED BY <2>1, <2>2, <2>3, <2>4
<1>11. Searching'
  <2>1. \A x, y : Dom(x, y)' <=> Dom(x, y)
    BY <1>1 DEF Dom
  <2>2. Visited(calls') \cap Visited(topo') = {}
    BY <1>1, <1>3, <1>5 DEF Searching
  <2>3. \A m \in Visited(topo') : succs[m] \subseteq Visited(calls') \cup Visited(topo')
    BY <1>1, <1>5 DEF Searching
  <2>4. \A k \in 1 .. Len(calls'), d \in Node :
          Dom(d, calls'[k]) => \E j \in 1 .. k : calls'[j] = d
    BY <1>4, <1>10
  <2>5. \A i \in 1 .. Len(topo'), d \in Node :
          Dom(d, topo'[i]) => d \in Visited(calls') \/ \E j \in 1 .. i : topo'[j] = d
    BY <1>1, <1>5 DEF Searching
  <2>6. /\ topo' \in Seq(Node) /\ Once(topo')
        /\ Entry \in Visited(calls') \cup Visited(topo')
    BY <1>1, <1>5 DEF Searching
  <2> QED BY SMTT(30), <1>1, <1>4, <1>9, <2>1, <2>2, <2>3, <2>4, <2>5, <2>6 DEF Searching
<1> QED BY <1>1, <1>11 DEF ListInv


LEMMA ReturnLists ==
  ASSUME Given, ListInv, Return
  PROVE  ListInv'
<1> DEFINE l == Len(calls)
           n == calls[l]
           t == Len(topo)
<1>1. /\ phase = "list" /\ phase' = "list" /\ calls # <<>> /\ Unlisted = {}
      /\ topo' = <<n>> \o topo /\ calls' = SubSeq(calls, 1, l - 1) /\ succs' = succs
      /\ Searching
  BY DEF Return, ListInv, program, Listed, Last, Front
<1>2. calls \in Seq(Node) /\ l \in Nat /\ topo \in Seq(Node) /\ t \in Nat
  BY <1>1 DEF Searching
<1>3. l \in 1 .. l /\ n \in Node /\ n \in Visited(calls)
      /\ succs[n] \subseteq Visited(calls) \cup Visited(topo)
  <2>1. l # 0
    BY <1>1, <1>2
  <2>2. Unlisted = succs[n] \ (Visited(calls) \cup Visited(topo))
    BY DEF Unlisted, Last
  <2>3. l \in 1 .. l
    <3> HIDE DEF l
    <3> QED BY <1>2, <2>1
  <2>4. n \in Node /\ n \in Visited(calls)
    BY <1>2, <2>3 DEF Visited
  <2> HIDE DEF n
  <2> QED BY <1>1, <2>2, <2>3, <2>4
<1>4. calls' \in Seq(Node) /\ Len(calls') = l - 1 /\ \A k \in 1 .. (l - 1) : calls'[k] = calls[k]
  BY <1>1, <1>2, <1>3
<1>5. /\ topo' \in Seq(Node) /\ Len(topo') = t + 1 /\ topo'[1] = n
      /\ \A i \in 1 .. t : topo'[i + 1] = topo[i]
  <2>1. <<n>> \in Seq(Node) /\ Len(<<n>>) = 1 /\ <<n>>[1] = n
    BY <1>3
  <2> QED BY <1>1, <1>2, <2>1
<1>6. /\ Once(calls) /\ Once(topo) /\ Visited(calls) \cap Visited(topo) = {}
      /\ \A k \in 1 .. l, d \in Node : Dom(d, calls[k]) => \E j \in 1 .. k : calls[j] = d
      /\ \A i \in 1 .. t, d \in Node :
           Dom(d, topo[i]) => d \in Visited(calls) \/ \E j \in 1 .. i : topo[j] = d
      /\ \A m \in Visited(topo) : succs[m] \subseteq Visited(calls) \cup Visited(topo)
      /\ Entry \in Visited(calls) \cup Visited(topo)
  BY <1>1 DEF Searching
<1>7. \A i \in 1 .. t + 1 : i = 1 \/ (i - 1 \in 1 .. t /\ topo'[i] = topo[i - 1])
  <2> TAKE i \in 1 .. t + 1
  <2> HIDE DEF t
  <2>1. i # 1 => i - 1 \in 1 .. t /\ (i - 1) + 1 = i
    BY <1>2
  <2> QED BY <1>5, <2>1
<1>8. \A i, j \in 1 .. l : calls[i] = calls[j] => i = j
  BY <1>6 DEF Once
<1>9. Visited(calls') = Visited(calls) \ {n}
  <2>1. \A k \in 1 .. l : k = l \/ k \in 1 .. (l - 1)
    <3> HIDE DEF l
    <3> QED BY <1>2
  <2>2. \A k \in 1 .. (l - 1) : k \in 1 .. l /\ k # l
    <3> HIDE DEF l
    <3> QED BY <1>2
  <2>3. Visited(calls) = {calls[k] : k \in 1 .. l}
    BY DEF Visited
  <2>4. Visited(calls') = {calls[k] : k \in 1 .. (l - 1)}
    BY <1>4 DEF Visited
  <2> HIDE DEF l
  <2> QED BY <1>3, <1>8, <2>1, <2>2, <2>3, <2>4
<1>10. Visited(topo') = Visited(topo) \cup {n}
  <2>1. 1 \in 1 .. t + 1 /\ \A i \in 1 .. t : i + 1 \in 1 .. t + 1
    <3> HIDE DEF t
    <3> QED BY <1>2
  <2>2. Visited(topo) = {topo[k] : k \in 1 .. t}
    BY DEF Visited
  <2>3. Visited(topo') = {topo'[k] : k \in 1 .. t + 1}
    BY <1>5 DEF Visited
  <2> HIDE DEF t
  <2> QED BY <1>5, <1>7, <2>1, <2>2, <2>3
<1>11. Once(calls') /\ Once(topo')
  <2>1. Once(calls')
    <3>1. \A k \in 1 .. (l - 1) : k \in 1 .. l
      <4> HIDE DEF l
      <4> QED BY <1>2
    <3> QED BY <1>4, <1>8, <3>1 DEF Once
  <2>2. \A i \in 1 .. t : topo[i] # n
    BY <1>3, <1>6 DEF Visited
  <2>3. \A i, j \in 1 .. t : topo[i] = topo[j] => i = j
    BY <1>6 DEF Once
  <2> HIDE DEF t, n
  <2>4. ASSUME NEW i \in 1 .. t + 1, NEW j \in 1 .. t + 1, topo'[i] = topo'[j] PROVE i = j
    <3>1. i = 1 \/ (i - 1 \in 1 .. t /\ topo'[i] = topo[i - 1])
      BY <1>7
    <3>2. j = 1 \/ (j - 1 \in 1 .. t /\ topo'[j] = topo[j - 1])
      BY <1>7
    <3>3. i # 1 /\ j # 1 => i - 1 = j - 1
      BY <2>3, <2>4, <3>1, <3>2
    <3>4. i = 1 <=> j = 1
      BY <1>5, <2>2, <2>4, <3>1, <3>2
    <3> QED BY <1>2, <3>3, <3>4
  <2> QED BY <1>5, <2>1, <2>4 DEF Once
<1>12. ASSUME NEW k \in 1 .. (l - 1), NEW d \in Node, Dom(d, calls'[k])
       PROVE  \E j \in 1 .. k : calls'[j] = d
  <2>1. k \in 1 .. l /\ \A j \in 1 .. k : j \in 1 .. (l - 1)
    <3> HIDE DEF l
    <3> QED BY <1>2
  <2>2. PICK j \in 1 .. k : calls[j] = d
    BY <1>4, <1>6, <1>12, <2>1
  <2> QED BY <1>4, <2>1, <2>2
<1>13. ASSUME NEW i \in 1 .. t + 1, NEW d \in Node, Dom(d, topo'[i])
       PROVE  d \in Visited(calls') \/ \E j \in 1 .. i : topo'[j] = d
  <2>1. 1 \in 1 .. i
    <3> HIDE DEF t
    <3> QED BY <1>2
  <2>2. CASE d = n
    BY <1>5, <2>1, <2>2
  <2>3. CASE d \in Visited(calls) /\ d # n
    BY <1>9, <2>3
  <2>4. CASE i = 1
    <3>1. Dom(d, calls[l])
      BY <1>5, <1>13, <2>4
    <3>2. \E j \in 1 .. l : calls[j] = d
      BY <1>3, <1>6, <3>1
    <3>3. d \in Visited(calls)
      BY <3>2 DEF Visited
    <3> QED BY <2>2, <2>3, <3>3
  <2>5. CASE i # 1
    <3>1. i - 1 \in 1 .. t /\ topo'[i] = topo[i - 1]
      BY <1>7, <2>5
    <3>2. d \in Visited(calls) \/ \E j \in 1 .. (i - 1) : topo[j] = d
      BY <1>6, <1>13, <3>1
    <3>3. CASE \E j \in 1 .. (i - 1) : topo[j] = d
      <4>1. PICK j \in 1 .. (i - 1) : topo[j] = d
        BY <3>3
      <4>2. j \in 1 .. t /\ j + 1 \in 1 .. i
        <5> HIDE DEF t
        <5> QED BY <1>2, <3>1
      <4> QED BY <1>5, <4>1, <4>2
    <3> QED BY <2>2, <2>3, <3>2, <3>3
  <2> QED BY <2>4, <2>5
<1>14. Searching'
  <2>1. \A x, y : Dom(x, y)' <=> Dom(x, y)
    BY <1>1 DEF Dom
  <2>2. /\ Visited(calls') \cap Visited(topo') = {}
        /\ Entry \in Visited(calls') \cup Visited(topo')
        /\ Visited(calls') \cup Visited(topo') = Visited(calls) \cup Visited(topo)
    <3> HIDE DEF n
    <3> QED BY <1>3, <1>6, <1>9, <1>10
  <2>3. \A m \in Visited(topo') : succs[m] \subseteq Visited(calls') \cup Visited(topo')
    <3> HIDE DEF n
    <3> QED BY <1>3, <1>6, <1>10, <2>2
  <2>4. \A k \in 1 .. Len(calls'), d \in Node :
          Dom(d, calls'[k]) => \E j \in 1 .. k : calls'[j] = d
    BY <1>4, <1>12
  <2>5. \A i \in 1 .. Len(topo'), d \in Node :
          Dom(d, topo'[i]) => d \in Visited(calls') \/ \E j \in 1 .. i : topo'[j] = d
    BY <1>5, <1>13
  <2>6. calls' \in Seq(Node) /\ topo' \in Seq(Node) /\ succs' = succs
    BY <1>1, <1>4, <1>5
  <2> HIDE DEF l, n, t
  <2> QED BY <1>11, <2>1, <2>2, <2>3, <2>4, <2>5, <2>6 DEF Searching
<1> QED BY <1>1, <1>14 DEF ListInv

LEMMA ListsStay ==
  ASSUME ListInv, UNCHANGED <<succs, listing>>,
         \/ phase' = phase
         \/ phase \notin {"list", "done"} /\ phase' \notin {"list", "done"}
         \/ phase = "list" /\ phase' = "done" /\ calls = <<>>
  PROVE  ListInv'
<1>1. calls' = calls /\ topo' = topo
  BY DEF listing
<1>2. Searching => Searching'
  BY <1>1 DEF Searching, Dom
<1> QED BY <1>1, <1>2 DEF ListInv

LEMMA ListingOrdered ==
  ASSUME Given, ListInv, UsesInv, EndInv
  PROVE  ListedBeforeUse
<1> SUFFICES ASSUME phase = "done" PROVE ListedBeforeUse
  BY DEF ListedBeforeUse
<1>1. Searching /\ calls = <<>> /\ Renamed
  BY DEF ListInv, EndInv
<1>2. Visited(calls) = {}
  BY <1>1 DEF Visited
<1> DEFINE t == Len(topo)
<1>3. topo \in Seq(Node) /\ t \in Nat /\ Once(topo)
  BY <1>1 DEF Searching
<1>4. Visited(topo) \in SUBSET Node
  BY <1>3 DEF Visited
<1>5. Visited(topo) = Node
  <2>1. Entry \in Visited(topo) /\ \A m \in Visited(topo) : succs[m] \subseteq Visited(topo)
    BY <1>1, <1>2 DEF Searching
  <2> QED BY <1>4, <2>1, GraphFacts DEF Given
<1>6. t = Cardinality(Node)
  BY <1>3, <1>5, AllCounted DEF Once
<1>7. ASSUME NEW n \in Node, NEW i \in 1 .. t, topo[i] = n PROVE Number(topo, n) = i
  <2>1. \A j \in 1 .. t : topo[j] = n <=> j = i
    BY <1>3, <1>7 DEF Once
  <2> QED BY <2>1 DEF Number
<1>8. ASSUME NEW n \in Node, source[n] # Null
      PROVE  IF source[n] = Phi(n) THEN n \in phis
             ELSE Number(topo, source[n][2]) < Number(topo, n)
  <2>1. CASE source[n] = Phi(n)
    <3>1. <<source[n], Op(n)>> \in uses
      BY <1>8 DEF UsesInv
    <3> QED BY <2>1, <3>1 DEF UsesInv
  <2>2. CASE source[n] # Phi(n)
    <3> DEFINE d == source[n][2]
    <3>1. d \in Node /\ d # n /\ Dom(d, n)
      BY <1>1, <1>8, <2>2 DEF Renamed, Above, Value
    <3>2. PICK i \in 1 .. t : topo[i] = n
      BY <1>5 DEF Visited
    <3>3. PICK j \in 1 .. i : topo[j] = d
      BY <1>1, <1>2, <3>1, <3>2 DEF Searching
    <3>4. j \in 1 .. t /\ j # i
      <4> HIDE DEF t
      <4> QED BY <1>3, <3>1, <3>2, <3>3
    <3>5. Number(topo, n) = i /\ Number(topo, d) = j
      BY <1>7, <3>1, <3>2, <3>3, <3>4
    <3>6. j < i
      <4> HIDE DEF t
      <4> QED BY <1>3, <3>4
    <3> QED BY <2>2, <3>5, <3>6
  <2> QED BY <2>1, <2>2
<1> QED BY <1>5, <1>6, <1>8 DEF ListedBeforeUse


-----------------------------------------------------------------------------
IInv ==
  /\ Given /\ PlaceInv /\ RenameInv /\ UsesInv /\ PatchInv /\ EndInv /\ ListInv
  /\ NeverNull

LEMMA InitIInv == Init => IInv
<1> SUFFICES ASSUME Init PROVE IInv
  OBVIOUS
<1>1. Given
  BY InitGiven
<1>2. PlaceInv /\ EndInv /\ ListInv /\ NeverNull
  BY DEF Init, PlaceInv, Early, EndInv, ListInv, NeverNull
<1>3. RenameInv
  BY DEF Init, RenameInv, Early
<1>4. UsesInv /\ PatchInv
  BY DEF Init, UsesInv, PatchInv, Early
<1> QED BY <1>1, <1>2, <1>3, <1>4 DEF IInv

LEMMA BuildIInv ==
  ASSUME IInv, Bind \/ Collect \/ RenameEntry \/ EndRename \/ EndPatch
  PROVE  IInv'
<1> USE DEF IInv
<1>1. UNCHANGED program
  BY DEF Bind, Collect, RenameEntry, EndRename, EndPatch
<1>2. Given'
  BY <1>1 DEF Given, program
<1>3. CASE Bind
  <2>1. /\ phase = "bind" /\ phase' \in {"dead", "collect"}
        /\ UNCHANGED <<program, collected, placing, table, source, inBound, uses, phis, listing>>
    BY <1>3 DEF Bind, placing, renaming
  <2>2. PlaceInv'
    BY <2>1, PlacesStay
  <2>3. RenameInv'
    BY <2>1, TablesStay DEF Early
  <2>4. UsesInv' /\ PatchInv'
    BY <2>1, UsesStay DEF Early
  <2>5. ListInv'
    BY <2>1, ListsStay DEF program
  <2> QED BY <1>2, <2>1, <2>2, <2>3, <2>4, <2>5 DEF EndInv, NeverNull
<1>4. CASE Collect
  <2>1. /\ phase = "collect" /\ phase' = "place"
        /\ UNCHANGED <<program, table, source, inBound, uses, phis, listing>>
    BY <1>4 DEF Collect, renaming
  <2>2. PlaceInv'
    BY <1>4, CollectPlaces
  <2>3. RenameInv'
    BY <2>1, TablesStay DEF Early
  <2>4. UsesInv' /\ PatchInv'
    BY <2>1, UsesStay DEF Early
  <2>5. ListInv'
    BY <2>1, ListsStay DEF program
  <2> QED BY <1>2, <2>1, <2>2, <2>3, <2>4, <2>5 DEF EndInv, NeverNull
<1>5. CASE RenameEntry
  <2>1. /\ phase = "place" /\ workList = {} /\ phase' = "rename"
        /\ UNCHANGED <<program, collected, placing, source, inBound, uses, phis, listing>>
    BY <1>5 DEF RenameEntry, placing
  <2>2. PlaceInv'
    BY <2>1, PlacesStay
  <2>3. RenameInv'
    BY <1>5, RenameEntryWalks
  <2>4. UsesInv' /\ PatchInv'
    BY <2>1, UsesStay DEF Early
  <2>5. ListInv'
    BY <2>1, ListsStay DEF program
  <2> QED BY <1>2, <2>1, <2>2, <2>3, <2>4, <2>5 DEF EndInv, NeverNull
<1>6. CASE EndRename
  <2>1. /\ phase = "rename" /\ phase' = "patch" /\ left' = phis
        /\ UNCHANGED <<program, collected, placing, source, inBound, uses, phis, listing>>
    BY <1>6 DEF EndRename, placing
  <2>2. PlaceInv'
    BY <2>1, PlacesStay
  <2>3. RenameInv'
    BY <1>6, EndRenameTables
  <2>4. UsesInv' /\ PatchInv'
    BY <2>1, UsesStay
  <2>5. ListInv'
    BY <2>1, ListsStay DEF program
  <2> QED BY <1>2, <2>1, <2>2, <2>3, <2>4, <2>5 DEF EndInv, NeverNull
<1>7. CASE EndPatch
  <2>1. /\ phase = "patch" /\ phase' = "erase"
        /\ UNCHANGED <<program, collected, placing, table, source, inBound, uses, phis, listing>>
    BY <1>7 DEF EndPatch, placing, renaming
  <2>2. PlaceInv'
    BY <2>1, PlacesStay DEF Early
  <2>3. RenameInv'
    BY <2>1, TablesStay
  <2>4. UsesInv' /\ PatchInv'
    BY <2>1, UsesStay
  <2>5. ListInv'
    BY <2>1, ListsStay DEF program
  <2>6. Renamed'
    BY <1>7, <2>1, EndPatchEnds, RenamedStays
  <2> QED BY <1>2, <2>1, <2>2, <2>3, <2>4, <2>5, <2>6 DEF EndInv, NeverNull
<1> QED BY <1>3, <1>4, <1>5, <1>6, <1>7

LEMMA BlockIInv ==
  ASSUME IInv, NEW n \in Node, Place(n) \/ Rename(n) \/ Patch(n) \/ Erase(n)
  PROVE  IInv'
<1> USE DEF IInv
<1>1. UNCHANGED program
  BY DEF Place, Rename, Patch, Erase
<1>2. Given'
  BY <1>1 DEF Given, program
<1>3. CASE Place(n)
  <2>1. /\ phase = "place" /\ phase' = phase /\ phis \subseteq phis'
        /\ UNCHANGED <<program, table, source, inBound, uses, listing>>
    BY <1>3 DEF Place, renaming
  <2>2. PlaceInv'
    BY <1>3, PlacePlaces
  <2>3. RenameInv'
    BY <2>1, TablesStay DEF Early
  <2>4. UsesInv' /\ PatchInv'
    BY <2>1, UsesStay DEF Early
  <2>5. ListInv'
    BY <2>1, ListsStay DEF program
  <2> QED BY <1>2, <2>1, <2>2, <2>3, <2>4, <2>5 DEF EndInv, NeverNull
<1>4. CASE Rename(n)
  <2>1. /\ phase = "rename" /\ phase' = phase
        /\ UNCHANGED <<program, collected, placing, inBound, listing>>
    BY <1>4, RenameWalks DEF Rename
  <2>2. PlaceInv'
    BY <2>1, PlacesStay
  <2>3. RenameInv'
    BY <1>4, RenameWalks
  <2>4. UsesInv' /\ PatchInv'
    BY <1>4, RenameUses
  <2>5. ListInv'
    BY <2>1, ListsStay DEF program
  <2> QED BY <1>2, <2>1, <2>2, <2>3, <2>4, <2>5 DEF EndInv, NeverNull
<1>5. CASE Patch(n)
  <2>1. /\ phase = "patch" /\ phase' = phase
        /\ UNCHANGED <<program, collected, placing, table, source, phis, defBlocks, read, listing>>
    BY <1>5, PatchPatches DEF Patch, collected, placing, renaming
  <2>2. PlaceInv'
    BY <2>1, PlacesStay
  <2>3. RenameInv'
    BY <2>1, TablesStay
  <2>4. UsesInv' /\ PatchInv'
    BY <1>5, PatchPatches
  <2>5. ListInv'
    BY <2>1, ListsStay DEF program
  <2> QED BY <1>2, <2>1, <2>2, <2>3, <2>4, <2>5 DEF EndInv, NeverNull
<1>6. CASE Erase(n)
  <2>1. /\ phase = "erase" /\ phase' = phase /\ phis' \subseteq phis
        /\ UNCHANGED <<program, collected, table, source, inBound, listing>>
    BY <1>6 DEF Erase, renaming
  <2>2. PlaceInv'
    BY <2>1, PlacesStay DEF Early
  <2>3. RenameInv'
    BY <2>1, TablesStay
  <2>4. UsesInv' /\ PatchInv'
    BY <1>6, EraseUses
  <2>5. ListInv'
    BY <2>1, ListsStay DEF program
  <2>6. Renamed'
    BY <2>1, RenamedStays DEF EndInv
  <2> QED BY <1>2, <2>1, <2>2, <2>3, <2>4, <2>5, <2>6 DEF EndInv, NeverNull
<1> QED BY <1>3, <1>4, <1>5, <1>6

LEMMA ListIInv ==
  ASSUME IInv, EndErase \/ (\E n \in Node : Descend(n)) \/ Return \/ EndList
  PROVE  IInv'
<1> USE DEF IInv
<1>1. /\ phase \in {"erase", "list"} /\ phase' \in {"list", "done"}
      /\ UNCHANGED <<program, collected, placing, renaming, inBound, uses>>
  BY DEF EndErase, Descend, Return, EndList
<1>2. UNCHANGED <<succs, phis, table, source>>
  BY <1>1 DEF program, placing, renaming
<1>3. Given'
  BY <1>1 DEF Given, program
<1>4. PlaceInv'
  BY <1>1, PlacesStay DEF Early
<1>5. RenameInv'
  BY <1>1, <1>2, TablesStay
<1>6. UsesInv' /\ PatchInv'
  BY <1>1, <1>2, UsesStay
<1>7. Renamed'
  BY <1>1, <1>2, RenamedStays DEF EndInv
<1>8. ListInv'
  <2>1. CASE EndErase
    BY <2>1, EndEraseLists
  <2>2. CASE \E n \in Node : Descend(n)
    BY <2>2, DescendLists
  <2>3. CASE Return
    BY <2>3, ReturnLists
  <2>4. CASE EndList
    BY <1>2, <2>4, ListsStay DEF EndList
  <2> QED BY <2>1, <2>2, <2>3, <2>4
<1> QED BY <1>1, <1>3, <1>4, <1>5, <1>6, <1>7, <1>8 DEF EndInv, NeverNull

LEMMA StutterIInv ==
  ASSUME IInv, UNCHANGED vars
  PROVE  IInv'
<1> USE DEF IInv
<1>1. /\ UNCHANGED <<program, collected, placing, renaming, inBound, uses, left, listing, phase>>
      /\ UNCHANGED <<succs, phis, table, source, order, defBlocks, read>>
  BY DEF vars, program, collected, placing, renaming
<1>2. Given'
  BY <1>1 DEF Given, program
<1>3. PlaceInv' /\ UsesInv' /\ PatchInv' /\ ListInv'
  BY <1>1, PlacesStay, UsesStay, ListsStay
<1>4. RenameInv'
  <2>1. Early' <=> Early
    BY <1>1 DEF Early
  <2>2. CASE Early \/ phase \in {"place", "rename", "patch", "fault", "erase", "list", "done"}
    BY <1>1, <2>1, <2>2, TablesStay
  <2>3. CASE ~(Early \/ phase \in {"place", "rename", "patch"})
    BY <1>1, <2>1, <2>3 DEF RenameInv
  <2> QED BY <2>2, <2>3
<1>5. EndInv'
  BY <1>1, RenamedStays DEF EndInv
<1> QED BY <1>1, <1>2, <1>3, <1>4, <1>5 DEF NeverNull

LEMMA NextIInv == IInv /\ [Next]_vars => IInv'
BY BuildIInv, BlockIInv, ListIInv, StutterIInv DEF Next, Done

THEOREM Invariance == Spec => []IInv
BY InitIInv, NextIInv, PTL DEF Spec

(* No read finds the register without a value, and no phi misses an input: *)
(* neither assert of the renaming and of addIncomingEdge fires.            *)
THEOREM EveryReadHasValue == Spec => []NeverNull
<1>1. IInv => NeverNull
  BY DEF IInv
<1> QED BY <1>1, Invariance, PTL

(* In the SSA form every read finds exactly the definitions that reach it. *)
THEOREM ReadsFindTheirDefs == Spec => []ReadsReach
<1>1. IInv => ReadsReach
  BY DEF IInv, EndInv, Renamed, ReadsOrigins, Entering, ReadsReach
<1> QED BY <1>1, Invariance, PTL

(* Every phi merges two values other than itself. *)
THEOREM PhisMergeValues == Spec => []PhiNeeded
<1>1. ASSUME IInv, phase = "erase", NEW n \in phis
      PROVE  Cardinality({inBound[n][p] : p \in Preds(succs, n)} \ {Phi(n)}) > 1
  <2> DEFINE T == {inBound[n][p] : p \in Preds(succs, n)}
             M == T \ {Phi(n)}
             c == Cardinality(M)
             f == [p \in Preds(succs, n) |-> inBound[n][p]]
  <2>1. IsFiniteSet(Preds(succs, n))
    <3>1. Preds(succs, n) \in SUBSET Node
      BY DEF Preds
    <3> QED BY <3>1, FS_Subset, NodeAssumption
  <2>2. f \in Surjection(Preds(succs, n), T)
    BY DEF Surjection
  <2>3. IsFiniteSet(T)
    <3> HIDE DEF f, T
    <3> QED BY <2>1, <2>2, FS_Surjection
  <2>4. IsFiniteSet(M)
    BY <2>3, FS_Subset
  <2>5. PICK x, y \in M : x # y
    BY <1>1 DEF IInv, EndInv, Renamed, Needed
  <2> HIDE DEF M
  <2>6. c \in Nat /\ c # 0 /\ c # 1
    BY <2>4, <2>5, FS_CardinalityType, FS_EmptySet, FS_Singleton
  <2>7. c > 1
    <3> HIDE DEF c
    <3> QED BY <2>6
  <2> QED BY <2>7 DEF M
<1>2. IInv => PhiNeeded
  BY <1>1 DEF PhiNeeded
<1> QED BY <1>2, Invariance, PTL

(* A deleted phi is referred to by nothing that stays in the listing. *)
THEOREM ErasedPhisUnused == Spec => []ErasedUnused
<1>1. ASSUME IInv, phase \in {"erase", "list", "done"}, NEW n \in Node, NEW m \in Node
      PROVE  /\ source[n] = Phi(m) => m \in phis
             /\ \A p \in DOMAIN inBound[n] : inBound[n][p] = Phi(m) => m \in phis
  BY <1>1, NullIsNone DEF IInv, UsesInv
<1>2. IInv => ErasedUnused
  BY <1>1 DEF ErasedUnused
<1> QED BY <1>2, Invariance, PTL

(* The listing has every block once, and a value above every read of it. *)
THEOREM ListingIsOrdered == Spec => []ListedBeforeUse
<1>1. IInv => ListedBeforeUse
  BY ListingOrdered DEF IInv
<1> QED BY <1>1, Invariance, PTL
=============================================================================
