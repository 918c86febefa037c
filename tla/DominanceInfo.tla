--------------------------- MODULE DominanceInfo ----------------------------
(***************************************************************************)
(* What regionCFG computes from the dominator tree: the interval of        *)
(* depth-first numbers of every subtree (fastDominancePreComputation),     *)
(* which answers dominance queries in constant time, and the dominance     *)
(* frontiers (computeDominanceFrontiers).                                  *)
(*                                                                         *)
(* The tree is the one DominatorTree promises, which Dominators and        *)
(* LengauerTarjan are checked to implement.                                *)
(***************************************************************************)
EXTENDS FlowGraph

VARIABLES
  succs, idom, dtree,
  stack,       (* the calls of dfs, the last one innermost                 *)
  cnt,         (* the counter of fastDominancePreComputation               *)
  dfn,         (* dt_dfn                                                   *)
  maxDfn,      (* dt_max_ancestor_dfn                                      *)
  dfrontier,   (* dfrontier of every block                                 *)
  left,        (* the blocks the frontier loop has not come to             *)
  block,       (* the block it is at                                       *)
  todo,        (* the predecessors of it that it has not come to           *)
  runner,      (* nbb, walking up from a predecessor                       *)
  phase

tree == <<succs, idom, dtree>>
numbers == <<stack, cnt, dfn, maxDfn>>
frontiers == <<dfrontier, left, block, todo, runner>>
vars == <<tree, numbers, frontiers, phase>>

Init ==
  /\ succs \in FlowGraphs
  /\ idom = [n \in Node |-> Idom(succs, n)]
  /\ dtree = DomTree(succs)
  /\ stack = <<Entry>>
  /\ cnt = 1
  /\ dfn = [n \in Node |-> IF n = Entry THEN 1 ELSE -1]
  /\ maxDfn = [n \in Node |-> -1]
  /\ dfrontier = [n \in Node |-> {}]
  /\ left = Node
  /\ block = NoNode /\ todo = {} /\ runner = NoNode
  /\ phase = "number"

Innermost == stack[Len(stack)]
Unnumbered == {n \in dtree[Innermost] : dfn[n] = -1}

Enter(n) ==
  /\ phase = "number"
  /\ stack # <<>>
  /\ n \in Unnumbered
  /\ cnt' = cnt + 1
  /\ dfn' = [dfn EXCEPT ![n] = cnt']
  /\ stack' = Append(stack, n)
  /\ UNCHANGED <<tree, maxDfn, frontiers, phase>>

MaxBelow_Own == dfn[Innermost]
(* The counter when a call returns: the highest number in the subtree.     *)
MaxBelow == cnt

Return ==
  /\ phase = "number"
  /\ stack # <<>>
  /\ Unnumbered = {}
  /\ maxDfn' = [maxDfn EXCEPT ![Innermost] = MaxBelow]
  /\ stack' = SubSeq(stack, 1, Len(stack) - 1)
  /\ UNCHANGED <<tree, cnt, dfn, frontiers, phase>>

EndNumbers ==
  /\ phase = "number"
  /\ stack = <<>>
  /\ phase' = "frontier"
  /\ UNCHANGED <<tree, numbers, frontiers>>

JoinPoint_Three(n) == Cardinality(Preds(succs, n)) > 2
(* Only a block with more than one predecessor ends another's dominance.   *)
JoinPoint(n) == Cardinality(Preds(succs, n)) > 1

NextBlock(n) ==
  /\ phase = "frontier"
  /\ n \in left /\ todo = {} /\ runner = NoNode
  /\ left' = left \ {n}
  /\ block' = n
  /\ todo' = IF JoinPoint(n) THEN Preds(succs, n) ELSE {}
  /\ UNCHANGED <<tree, numbers, dfrontier, runner, phase>>

NextPred(p) ==
  /\ phase = "frontier"
  /\ p \in todo /\ runner = NoNode
  /\ todo' = todo \ {p}
  /\ runner' = p
  /\ UNCHANGED <<tree, numbers, dfrontier, left, block, phase>>

AtIdom_Root == runner = Entry
AtIdom == runner = idom[block]

Up == idom[runner]

(* One turn of the loop up the tree; it ends at block's own idom. *)
Walk ==
  /\ phase = "frontier"
  /\ runner # NoNode
  /\ IF AtIdom THEN runner' = NoNode /\ UNCHANGED dfrontier
     ELSE /\ dfrontier' = [dfrontier EXCEPT ![runner] = @ \cup {block}]
          /\ runner' = Up
  /\ UNCHANGED <<tree, numbers, left, block, todo, phase>>

EndFrontiers ==
  /\ phase = "frontier"
  /\ left = {} /\ todo = {} /\ runner = NoNode
  /\ phase' = "done"
  /\ UNCHANGED <<tree, numbers, frontiers>>

Done == phase = "done" /\ UNCHANGED vars

Next ==
  \/ \E n \in Node : Enter(n) \/ NextBlock(n) \/ NextPred(n)
  \/ Return \/ EndNumbers \/ Walk \/ EndFrontiers \/ Done

Spec == Init /\ [][Next]_vars
-----------------------------------------------------------------------------
(* cfgBasicBlock::fastDominates: b's number lies in the interval of a's    *)
(* subtree.                                                                *)
FastDominates(a, b) == a = b \/ (dfn[a] < dfn[b] /\ maxDfn[a] >= dfn[b])

(* cfgBasicBlock::dominates, which is asked while there are no numbers.    *)
DominatesByWalk(a, b) ==
  LET walk[p \in Node] == \/ p = a
                          \/ Preds(succs, p) # {} /\ walk[idom[p]]
  IN  \/ a = b
      \/ idom[b] = a
      \/ idom[a] # b /\ b # Entry /\ walk[idom[b]]

(* The constant-time test is dominance, and so is the walk up the tree it  *)
(* replaces: the comparison that fastDominancePreComputation asserts when  *)
(* its self-check is compiled in.                                          *)
QueriesAgree ==
  phase = "done" =>
    \A a, b \in Node : /\ FastDominates(a, b) <=> Dominates(succs, a, b)
                       /\ FastDominates(a, b) <=> DominatesByWalk(a, b)

(* The walk from a predecessor of a block meets the block's idom before it *)
(* falls off the tree: until then it is strictly below it.                 *)
RunnerBelowIdom ==
  runner # NoNode => Dominates(succs, idom[block], runner)

(* The frontiers are the blocks where dominance ends, no more, no fewer.   *)
FrontierExact ==
  phase = "done" => \A n \in Node : dfrontier[n] = DomFrontier(succs, n)
=============================================================================
