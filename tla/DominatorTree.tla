--------------------------- MODULE DominatorTree ----------------------------
(***************************************************************************)
(* What computeDominance and computeLengauerTarjanDominance both promise:  *)
(* every block is given its immediate dominator and its children in the    *)
(* dominator tree, once and for all.  analyzeGraph calls the first for     *)
(* fewer than 512 blocks and the second otherwise, and does not care.      *)
(***************************************************************************)
EXTENDS FlowGraph

VARIABLES
  graph,   (* the flow graph                                               *)
  idom,    (* the immediate dominator of every block                       *)
  dtree    (* the children of every block in the dominator tree            *)

NoIdom == [n \in Node |-> NoNode]
NoTree == [n \in Node |-> {}]

Init ==
  /\ graph \in FlowGraphs
  /\ idom = NoIdom
  /\ dtree = NoTree

ComputeTree ==
  /\ idom = NoIdom
  /\ idom' = [n \in Node |-> Idom(graph, n)]
  /\ dtree' = DomTree(graph)
  /\ UNCHANGED graph

(* There are at least the entry and the head, so the tree is never empty. *)
Spec == Init /\ [][ComputeTree]_<<graph, idom, dtree>> /\ <>(idom # NoIdom)
=============================================================================
