--------------------------- MODULE RegionAnalysis ---------------------------
(***************************************************************************)
(* regionCFG::analyzeGraph between the dominator tree and SSA form: the    *)
(* numbering of the tree and the frontiers (DominanceInfo), then the       *)
(* search for natural loops (NaturalLoops), which asks the constant-time   *)
(* query for the dominance it is specified with.  asDot finally draws      *)
(* every loop as a cluster.                                                *)
(***************************************************************************)
EXTENDS FlowGraph

CONSTANTS
  MaxLoop,
  MaxJumpy   (* bound: how many blocks hold a jump                         *)
ASSUME MaxAssumption == MaxLoop \in Nat /\ MaxJumpy \in Nat

VARIABLES
  succs,
  idom, dtree, calls, cnt, dfn, maxDfn,                 (* DominanceInfo,  *)
  dfrontier, left, block, todo, runner, infoPhase,      (* calls: stack    *)
  jumpy, edges, edge, body, stack, loops,               (* NaturalLoops    *)
  nested, children, i, j, phase

info == <<idom, dtree, calls, cnt, dfn, maxDfn,
          dfrontier, left, block, todo, runner, infoPhase>>
ofLoops == <<jumpy, edges, edge, body, stack, loops, nested, children, i, j, phase>>
vars == <<succs, info, ofLoops>>

Info == INSTANCE DominanceInfo WITH stack <- calls, phase <- infoPhase
Loops == INSTANCE NaturalLoops

(* Which blocks hold a jump is fixed by the program; it is first looked at *)
(* by the loop search.                                                     *)
Init ==
  /\ Info!Init
  /\ jumpy = {} /\ edges = {}
  /\ edge = Loops!NoEdge /\ body = {} /\ stack = {} /\ loops = {}
  /\ nested = <<>> /\ children = [l \in {} |-> {}]
  /\ i = 1 /\ j = 1
  /\ phase = "wait"

InfoStep == phase = "wait" /\ Info!Next /\ UNCHANGED ofLoops

BackEdges_Swapped ==
  {e \in Loops!Edge : e[2] \in succs[e[1]] /\ Info!FastDominates(e[1], e[2])}
(* The edges to a block that dominates their source, as the numbers say.   *)
BackEdges ==
  {e \in Loops!Edge : e[2] \in succs[e[1]] /\ Info!FastDominates(e[2], e[1])}

FindNaturalLoops ==
  /\ phase = "wait" /\ infoPhase = "done"
  /\ jumpy' \in {S \in SUBSET (Node \ {Entry}) : Cardinality(S) <= MaxJumpy}
  /\ edges' = BackEdges
  /\ phase' = "search"
  /\ UNCHANGED <<succs, info, edge, body, stack, loops, nested, children, i, j>>

LoopStep == phase # "wait" /\ Loops!Next /\ UNCHANGED info

Next == InfoStep \/ FindNaturalLoops \/ LoopStep

(* Sequential code, which runs to its end. *)
Spec == Init /\ [][Next]_vars /\ WF_vars(Next)

(* naturalLoop::emitGraphviz, called by asDot for every loop at the top:   *)
(* the loops that are drawn.                                               *)
Drawn ==
  LET below[k \in 0 .. Cardinality(loops)] ==
        IF k = 0 THEN Loops!Members(nested)
        ELSE below[k - 1] \cup UNION {children[l] : l \in below[k - 1]}
  IN  below[Cardinality(loops)]
-----------------------------------------------------------------------------
(* The constant-time test is dominance, and so is the walk up the tree it  *)
(* replaces: the comparison that fastDominancePreComputation asserts when  *)
(* its self-check is compiled in.                                          *)
QueriesAgree == Info!QueriesAgree

(* The walk from a predecessor of a block stays strictly below the block's *)
(* idom until it meets it, so it never falls off the tree, and yields the  *)
(* blocks where dominance ends, no more, no fewer.                         *)
FrontierExact == Info!RunnerBelowIdom /\ Info!FrontierExact

(* From the numbers to the loops: what is found are the natural loops of   *)
(* the edges back to a dominator, all but those skipped on purpose.        *)
LoopsExact == phase # "wait" => Loops!LoopsExact

(* A loop is at the top or has one parent, the smallest loop around it.    *)
Forest == Loops!Forest

(* Only the loops of two back edges to the same head can be the same.      *)
AssertOnlyTwins == Loops!AssertOnlyTwins

(* Loops that share a block are nested, or loops of the same head.         *)
Laminar ==
  \A k, l \in loops : \/ k.body \cap l.body = {}
                      \/ k.body \subseteq l.body \/ l.body \subseteq k.body
                      \/ k.head = l.head

(* Every loop is drawn.  Two clusters that share a block are nested, which *)
(* a drawing can show, unless they are loops of the same head.             *)
ClustersNest == phase = "done" => Drawn = loops /\ Laminar

(* The numbering, the frontier walk, the search and the nesting loop end.  *)
Terminates == <>(phase \in {"done", "assert"})
=============================================================================
