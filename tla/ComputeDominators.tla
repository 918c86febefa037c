------------------------- MODULE ComputeDominators --------------------------
(***************************************************************************)
(* The first step of regionCFG::analyzeGraph, which runs Dominators or     *)
(* LengauerTarjan, by the number of blocks.  The limit of 512 blocks is    *)
(* out of reach of a small instance: either algorithm may be chosen for    *)
(* any graph, and both have to do.                                         *)
(***************************************************************************)
EXTENDS FlowGraph

VARIABLES
  large,                                                (* the choice      *)
  succs, idom, dtree, phase,                            (* of both         *)
  order, dom, bId, changed,                             (* of the sweeps   *)
  ndfs, sdno, parent, ancestor, label, buckets, i, todo (* of the other    *)

ofSweeps == <<order, dom, bId, changed>>
ofLT == <<ndfs, sdno, parent, ancestor, label, buckets, i, todo>>
vars == <<large, succs, idom, dtree, phase, ofSweeps, ofLT>>

Sweeps == INSTANCE Dominators
LT == INSTANCE LengauerTarjan

Start ==
  /\ large \in BOOLEAN
  /\ Sweeps!Start
  /\ LT!Start
Init == succs \in FlowGraphs /\ Start

Next ==
  \/ ~large /\ Sweeps!Next /\ UNCHANGED <<large, ofLT>>
  \/ large /\ LT!Next /\ UNCHANGED <<large, ofSweeps>>

(* Sequential code, which runs to its end.                                 *)
Spec == Init /\ [][Next]_vars /\ WF_vars(Next)
-----------------------------------------------------------------------------
(* However far the sweeps have come, no dominator has been lost, and the   *)
(* sweep that changes nothing leaves only dominators: so the extraction,   *)
(* reading sets it has already reduced, starts from the exact ones.        *)
SweepsSound == ~large => Sweeps!NoneLost /\ Sweeps!SweepsExact

(* A block that Lengauer-Tarjan has linked knows its semidominator, and    *)
(* path compression forgets nothing: the label found for a block is the    *)
(* one with the smallest semidominator on the whole path in the tree.      *)
LinksSound == large => LT!SemiExact /\ LT!CompressionSound

(* Whichever algorithm runs, it ends, and the immediate dominators and the *)
(* tree it leaves are those of DominatorTree.                              *)
Promise == INSTANCE DominatorTree
  WITH graph <- succs,
       idom  <- IF phase = "done" THEN idom ELSE [n \in Node |-> NoNode],
       dtree <- IF phase = "done" THEN dtree ELSE [n \in Node |-> {}]
DominatorTreeSpec == Promise!Spec
=============================================================================
