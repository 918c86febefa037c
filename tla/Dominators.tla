----------------------------- MODULE Dominators -----------------------------
(***************************************************************************)
(* regionCFG::computeDominance: a depth-first search numbers the blocks,   *)
(* sweeps in that order shrink every block's set of dominators until one   *)
(* sweep changes nothing, and the immediate dominators are then extracted, *)
(* in the same order, from sets that are reduced while they are read.      *)
(*                                                                         *)
(* The bitsets over visit numbers are sets of blocks here.                 *)
(***************************************************************************)
EXTENDS FlowGraph

VARIABLES
  succs,     (* the flow graph; preds is its converse                      *)
  order,     (* preOrderVisit, the part filled so far                      *)
  dom,       (* domMap                                                     *)
  bId,       (* the loop variable of the sweep, then of the extraction     *)
  changed,   (* did this sweep change a set?                               *)
  idom,      (* idombb of every block                                      *)
  dtree,     (* dtree_succs of every block                                 *)
  phase

vars == <<succs, order, dom, bId, changed, idom, dtree, phase>>

N == Cardinality(Node)

Start ==
  /\ order = <<Entry>>
  /\ dom = [n \in Node |-> Node]
  /\ bId = 0
  /\ changed = TRUE
  /\ idom = [n \in Node |-> NoNode]
  /\ dtree = [n \in Node |-> {}]
  /\ phase = "dfs"
Init == succs \in FlowGraphs /\ Start

Visit(n) ==
  /\ phase = "dfs"
  /\ Visits(succs, order, n)
  /\ order' = Append(order, n)
  /\ UNCHANGED <<succs, dom, bId, changed, idom, dtree, phase>>

(* The search is over; nothing but the entry dominates the entry. *)
StartSweeps ==
  /\ phase = "dfs"
  /\ Frame(succs, order) = NoNode
  /\ dom' = [dom EXCEPT ![Entry] = {Entry}]
  /\ bId' = 1
  /\ changed' = FALSE
  /\ phase' = "sweep"
  /\ UNCHANGED <<succs, order, idom, dtree>>

Meet_SomePred(d, n) ==
  (d[n] \cap {a \in Node : Preds(succs, n) = {} \/ \E p \in Preds(succs, n) : a \in d[p]})
  \cup {n}
(* n is dominated by what dominates all its predecessors, and by itself.   *)
Meet(d, n) ==
  (d[n] \cap {a \in Node : \A p \in Preds(succs, n) : a \in d[p]}) \cup {n}

SweepBlock ==
  /\ phase = "sweep"
  /\ bId <= N
  /\ LET n == order[bId]
     IN  /\ dom' = [dom EXCEPT ![n] = Meet(dom, n)]
         /\ changed' = (changed \/ Meet(dom, n) # dom[n])
  /\ bId' = bId + 1
  /\ UNCHANGED <<succs, order, idom, dtree, phase>>

SweepAgain ==
  /\ phase = "sweep"
  /\ bId > N
  /\ changed
  /\ bId' = 1
  /\ changed' = FALSE
  /\ UNCHANGED <<succs, order, dom, idom, dtree, phase>>

EndSweeps ==
  /\ phase = "sweep"
  /\ bId > N
  /\ ~changed
  /\ bId' = 2
  /\ phase' = "extract"
  /\ UNCHANGED <<succs, order, dom, changed, idom, dtree>>

(* The strict dominators of n, visited in ascending order while those that *)
(* another one's (already reduced) set names are struck off.               *)
Reduced(n) ==
  LET rest[k \in 0 .. Len(order)] ==
        IF k = 0 THEN dom[n] \ {n}
        ELSE LET d == rest[k - 1]
                 j == order[k]
             IN  IF j \in d THEN d \ (dom[j] \ {j}) ELSE d
  IN  rest[Len(order)]

First(d) == CHOOSE a \in d : \A x \in d : Number(order, a) <= Number(order, x)

Extract ==
  /\ phase = "extract"
  /\ bId <= N
  /\ LET n == order[bId]
         i == First(Reduced(n))
     IN  /\ dom' = [dom EXCEPT ![n] = Reduced(n)]
         /\ idom' = [idom EXCEPT ![n] = i]
         /\ dtree' = [dtree EXCEPT ![i] = @ \cup {n}]
  /\ bId' = bId + 1
  /\ UNCHANGED <<succs, order, changed, phase>>

EndExtract ==
  /\ phase = "extract"
  /\ bId > N
  /\ idom' = [idom EXCEPT ![Entry] = NoNode]
  /\ phase' = "done"
  /\ UNCHANGED <<succs, order, dom, bId, changed, dtree>>

Done == phase = "done" /\ UNCHANGED vars

Next ==
  \/ \E n \in Node : Visit(n)
  \/ StartSweeps \/ SweepBlock \/ SweepAgain \/ EndSweeps
  \/ Extract \/ EndExtract \/ Done

Spec == Init /\ [][Next]_vars /\ WF_vars(Next)
-----------------------------------------------------------------------------
(* However far the sweeps have come, no dominator has been lost ...        *)
NoneLost ==
  phase \in {"dfs", "sweep"} => \A n \in Node : Doms(succs, n) \subseteq dom[n]

(* ... and the sweep that changes nothing leaves only dominators.          *)
SweepsExact ==
  phase = "extract" =>
    \A i \in bId .. N : dom[order[i]] = Doms(succs, order[i])
=============================================================================
