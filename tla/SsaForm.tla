------------------------------ MODULE SsaForm -------------------------------
(***************************************************************************)
(* SSA form as analyzeGraph builds it, for one register: getRegDefBlocks   *)
(* and insertPhis put phis on the iterated dominance frontier,             *)
(* traverseAndRename walks the dominator tree with a table of the current  *)
(* values, patchUpPhiNodes gives the phis their inputs, and the phis       *)
(* without uses are erased.  Finally dumpIR lists the blocks in the order  *)
(* of toposort.                                                            *)
(*                                                                         *)
(* Registers do not influence each other, so one is enough, and a block    *)
(* needs one instruction, which may read the register, write it, or both:  *)
(* any effect that an instruction of InsnClass has on one register.  The   *)
(* dominators are those DominanceInfo starts from and the frontiers those  *)
(* it is checked to compute.                                               *)
(***************************************************************************)
EXTENDS FlowGraph, SequencesExt

Classes == INSTANCE InsnClass

VARIABLES
  succs, dtree, dfrontier,
  code,        (* the instruction of every block                           *)
  zero,        (* is the register x0?                                      *)
  defBlocks,   (* gprDefinitionBlocks of the register                      *)
  read,        (* allGprRead of the register                               *)
  workList, checkSet,
  phis,        (* the blocks that hold a phi for the register              *)
  order,       (* the blocks renamed so far                                *)
  table,       (* the register's entry in ssaRegTbl of every block         *)
  source,      (* what the reading instruction of a block reads            *)
  inBound,     (* the inputs of the phi of a block, by predecessor         *)
  uses,        (* pairs: a value and one of its recorded uses              *)
  left,        (* the phis patchUpPhiNodes, then the eraser, has to see    *)
  calls,       (* the calls of toposort's dfs, the last one innermost      *)
  topo,        (* topo, reversed as it will be                             *)
  phase

program == <<succs, dtree, dfrontier, code, zero>>
collected == <<defBlocks, read>>
placing == <<workList, checkSet, phis>>
renaming == <<order, table, source>>
listing == <<calls, topo>>
vars == <<program, collected, placing, renaming, inBound, uses, left, listing, phase>>

Phi(n) == <<"phi", n>>
Op(n) == <<"op", n>>     (* the instruction of n that writes or reads      *)
Null == <<"null", Entry>>
Value == {"phi", "op"} \X Node

Init ==
  /\ succs \in FlowGraphs
  /\ dtree = DomTree(succs)
  /\ dfrontier = [n \in Node |-> DomFrontier(succs, n)]
  /\ zero \in BOOLEAN
  /\ code \in [Node \ {Entry} -> IF zero THEN Classes!EffectsOnX0
                                         ELSE Classes!EffectsOnOther]
  /\ defBlocks = {} /\ read = FALSE
  /\ workList = {} /\ checkSet = {} /\ phis = {}
  /\ order = <<>>
  /\ table = [n \in Node |-> Null]
  /\ source = [n \in Node |-> Null]
  /\ inBound = [n \in Node |-> [p \in {} |-> Null]]
  /\ uses = {}
  /\ left = {}
  /\ calls = <<>> /\ topo = <<>>
  /\ phase = "bind"

Reads(n) == n # Entry /\ code[n].reads
Writes(n) == n # Entry /\ code[n].writes

(* bindInsns: getInsn gives every instruction its class, and ends the      *)
(* program when it has none for it.                                        *)
Bind ==
  /\ phase = "bind"
  /\ phase' = IF \E n \in Node \ {Entry} : code[n].dies THEN "dead" ELSE "collect"
  /\ UNCHANGED <<program, collected, placing, renaming, inBound, uses, left, listing>>

(* getRegDefBlocks and the start of insertPhis: a register that is defined *)
(* is also defined at the entry.                                           *)
Collect ==
  /\ phase = "collect"
  /\ LET defs == {n \in Node \ {Entry} : code[n].defines}
     IN  defBlocks' = IF defs = {} THEN {} ELSE defs \cup {Entry}
  /\ read' = \E n \in Node \ {Entry} : code[n].uses
  /\ workList' = defBlocks' /\ checkSet' = defBlocks'
  /\ phase' = "place"
  /\ UNCHANGED <<program, phis, renaming, inBound, uses, left, listing>>

PhiSites_Succs(n) == succs[n]
PhiSites(n) == dfrontier[n]
(* The blocks that have to be looked at because they got n's phi.          *)
Requeued(n) == PhiSites(n) \ checkSet

(* inducePhis: the next block of the work list, whose order does not       *)
(* matter.  addPhiNode drops a second phi for the register.                *)
Place(n) ==
  /\ phase = "place"
  /\ n \in workList
  /\ phis' = phis \cup PhiSites(n)
  /\ workList' = (workList \ {n}) \cup Requeued(n)
  /\ checkSet' = checkSet \cup Requeued(n)
  /\ UNCHANGED <<program, collected, renaming, inBound, uses, left, phase, listing>>

(* The entry block makes a value for a register that is read or defined.   *)
EntryOp == read \/ defBlocks # {}

RenameEntry ==
  /\ phase = "place"
  /\ workList = {}
  /\ table' = [table EXCEPT ![Entry] = IF EntryOp THEN Op(Entry) ELSE Null]
  /\ order' = <<Entry>>
  /\ phase' = "rename"
  /\ UNCHANGED <<program, collected, placing, source, inBound, uses, left, listing>>

(* The tree that is walked: the loop in the entry block breaks after one   *)
(* child.                                                                  *)
Walk == [a \in Node |-> IF a = Entry /\ Len(order) > 1 THEN {} ELSE dtree[a]]

Parent(n) == CHOOSE a \in Node : n \in dtree[a]
(* The register's entry in the table n is called with, a copy of its       *)
(* parent's.                                                               *)
Passed(n) == table[Parent(n)]

(* What the register is when the instructions of n start. *)
Start(n) == IF n \in phis THEN Phi(n) ELSE Passed(n)

Rename(n) ==
  /\ phase = "rename"
  /\ Visits(Walk, order, n)
  /\ order' = Append(order, n)
  /\ IF Reads(n) /\ Start(n) = Null
     THEN phase' = "fault" /\ UNCHANGED <<table, source, uses>>
     ELSE /\ source' = [source EXCEPT ![n] = IF Reads(n) THEN Start(n) ELSE Null]
          /\ uses' = uses \cup (IF Reads(n) THEN {<<Start(n), Op(n)>>} ELSE {})
          /\ table' = [table EXCEPT ![n] = IF Writes(n) THEN Op(n) ELSE Start(n)]
          /\ UNCHANGED phase
  /\ UNCHANGED <<program, collected, placing, inBound, left, listing>>

EndRename ==
  /\ phase = "rename"
  /\ Frame(Walk, order) = NoNode
  /\ left' = phis
  /\ order' = <<>>
  /\ phase' = "patch"
  /\ UNCHANGED <<program, collected, placing, table, source, inBound, uses, listing>>

NewUses_None(n) == {}
(* addIncomingEdge makes the phi a use of every input. *)
NewUses(n) == {<<table[p], Phi(n)>> : p \in Preds(succs, n)}

(* patchUpPhiNodes for the phi of one block; addIncomingEdge asserts that  *)
(* there is an input.                                                      *)
Patch(n) ==
  /\ phase = "patch"
  /\ n \in left
  /\ left' = left \ {n}
  /\ IF \E p \in Preds(succs, n) : table[p] = Null
     THEN phase' = "fault" /\ UNCHANGED <<inBound, uses>>
     ELSE /\ inBound' = [inBound EXCEPT ![n] = [p \in Preds(succs, n) |-> table[p]]]
          /\ uses' = uses \cup NewUses(n)
          /\ UNCHANGED phase
  /\ UNCHANGED <<program, collected, placing, renaming, listing>>

EndPatch ==
  /\ phase = "patch"
  /\ left = {}
  /\ left' = phis
  /\ phase' = "erase"
  /\ UNCHANGED <<program, collected, placing, renaming, inBound, uses, listing>>

NoUses(v) == \A u \in Value : <<v, u>> \notin uses

(* A phi without uses is deleted; it stays a recorded use of its inputs.   *)
Erase(n) ==
  /\ phase = "erase"
  /\ n \in left
  /\ left' = left \ {n}
  /\ phis' = IF NoUses(Phi(n)) THEN phis \ {n} ELSE phis
  /\ UNCHANGED <<program, collected, workList, checkSet, renaming, inBound, uses, phase, listing>>

EndErase ==
  /\ phase = "erase"
  /\ left = {}
  /\ phase' = "list"
  /\ calls' = <<Entry>>
  /\ UNCHANGED <<program, collected, placing, renaming, inBound, uses, left, topo>>

Unlisted == succs[Last(calls)] \ (Visited(calls) \cup Visited(topo))

(* toposort, for dumpIR: the search goes on at a successor that is new.    *)
Descend(n) ==
  /\ phase = "list"
  /\ calls # <<>>
  /\ n \in Unlisted
  /\ calls' = Append(calls, n)
  /\ UNCHANGED <<program, collected, placing, renaming, inBound, uses, left, topo, phase>>

Listed_Unreversed(n) == Append(topo, n)
(* A block is listed before all that finished before it: the order of the  *)
(* calls' ends, reversed.                                                  *)
Listed(n) == <<n>> \o topo

Return ==
  /\ phase = "list"
  /\ calls # <<>>
  /\ Unlisted = {}
  /\ topo' = Listed(Last(calls))
  /\ calls' = Front(calls)
  /\ UNCHANGED <<program, collected, placing, renaming, inBound, uses, left, phase>>

EndList ==
  /\ phase = "list"
  /\ calls = <<>>
  /\ phase' = "done"
  /\ UNCHANGED <<program, collected, placing, renaming, inBound, uses, left, listing>>

Done == phase \in {"dead", "done", "fault"} /\ UNCHANGED vars

Next ==
  \/ \E n \in Node : Place(n) \/ Rename(n) \/ Patch(n) \/ Erase(n) \/ Descend(n)
  \/ Bind \/ Collect \/ RenameEntry \/ EndRename \/ EndPatch \/ EndErase
  \/ Return \/ EndList \/ Done

Spec == Init /\ [][Next]_vars /\ WF_vars(Next)
-----------------------------------------------------------------------------
(* No instruction reads an empty table entry and no phi misses an input,   *)
(* for x0 too.                                                             *)
NeverNull == phase # "fault"

(* The instructions that a value may come from: itself, or those its phi   *)
(* merges.                                                                 *)
Origins ==
  LET from[k \in 0 .. Cardinality(Node)] ==
        IF k = 0 THEN [n \in Node |-> {}]
        ELSE LET last == from[k - 1]
             IN  [n \in Node |-> UNION {IF v[1] = "op" THEN {v[2]} ELSE last[v[2]] :
                                          v \in {inBound[n][p] : p \in DOMAIN inBound[n]}}]
  IN  from[Cardinality(Node)]

(* The definitions that reach the end of a block, by their definition: the *)
(* processor changes the register there and not again on some path from    *)
(* there.  It has some value when the region is entered.                   *)
ReachingDefs ==
  LET out[k \in 0 .. Cardinality(Node)] ==
        IF k = 0 THEN [n \in Node |-> {}]
        ELSE LET last == out[k - 1]
             IN  [n \in Node |-> IF n = Entry \/ code[n].changes THEN {n}
                                ELSE UNION {last[p] : p \in Preds(succs, n)}]
  IN  out[Cardinality(Node)]

(* In the SSA form every read finds exactly the definitions that reach it: *)
(* none is missing, as it would be if a class forgot to record or to enter *)
(* what it writes, and no stale one is left.  For x0, which is no variable,*)
(* nothing is promised.                                                    *)
ReadsReach ==
  phase = "erase" /\ left = phis /\ ~zero =>
    LET origins == Origins
        reaching == ReachingDefs
    IN  \A n \in Node : Reads(n) =>
          (IF source[n][1] = "op" THEN {source[n][2]} ELSE origins[source[n][2]])
            = UNION {reaching[p] : p \in Preds(succs, n)}

(* A phi is only put where two different values meet. *)
PhiNeeded ==
  phase = "erase" /\ left = phis =>
    \A n \in phis :
      Cardinality({inBound[n][p] : p \in Preds(succs, n)} \ {Phi(n)}) > 1

(* Nothing that is still in the listing refers to a phi that was deleted.  *)
ErasedUnused ==
  phase \in {"erase", "list", "done"} =>
    \A n \in Node :
      LET refs == {source[n]} \cup
                  IF n \in phis THEN {inBound[n][p] : p \in DOMAIN inBound[n]} ELSE {}
      IN  \A m \in Node : Phi(m) \in refs => m \in phis

(* The listing of the SSA form, ssa_*.txt, holds every block once, and a   *)
(* value is listed before every instruction that reads it.  Only a phi may *)
(* name a value that is listed further down.                               *)
ListedBeforeUse ==
  phase = "done" =>
    /\ Len(topo) = Cardinality(Node) /\ Visited(topo) = Node
    /\ \A n \in Node : source[n] # Null =>
         IF source[n] = Phi(n) THEN n \in phis
         ELSE Number(topo, source[n][2]) < Number(topo, n)
=============================================================================
