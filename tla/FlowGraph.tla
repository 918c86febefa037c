----------------------------- MODULE FlowGraph ------------------------------
(***************************************************************************)
(* The flow graph that regionCFG analyses: the cfgBasicBlocks, reached     *)
(* from an artificial entry block whose one successor is the head of the   *)
(* region (analyzeGraph), and the notions its analyses are about, each by  *)
(* its definition.  A graph is its successor function.                     *)
(***************************************************************************)
EXTENDS Integers, Sequences, FiniteSets

CONSTANTS
  Node,     (* the cfgBasicBlocks, the entry block included                *)
  Entry,    (* entryBlock                                                  *)
  CfgHead,  (* cfgHead                                                     *)
  NoNode    (* nullptr                                                     *)

ASSUME NodeAssumption == /\ IsFiniteSet(Node)
                         /\ Entry \in Node
                         /\ CfgHead \in Node \ {Entry}
                         /\ NoNode \notin Node

Preds(s, n) == {m \in Node : n \in s[m]}

(* Every block is reached from the entry: a set that holds the entry and   *)
(* is closed under successors is the set of all blocks.                    *)
Connected(s) ==
  \A S \in SUBSET Node :
    Entry \in S /\ (\A m \in S : s[m] \subseteq S) => S = Node

(* The graphs that pass allBlocksReachable, with the entry block added.    *)
FlowGraphs ==
  {s \in [Node -> SUBSET (Node \ {Entry})] : s[Entry] = {CfgHead} /\ Connected(s)}

(* a dominates n: either a is n, or n is not reachable without a, that is, *)
(* there is a set without n that holds the entry (unless a is the entry)   *)
(* and can only be left through a.                                         *)
Dominates(s, a, n) ==
  \/ a = n
  \/ \E S \in SUBSET (Node \ {a, n}) :
       /\ Entry \in S \cup {a}
       /\ \A m \in S : s[m] \subseteq S \cup {a}

Doms(s, n) == {a \in Node : Dominates(s, a, n)}

(* The strict dominator of n that all others dominate. *)
Idom(s, n) ==
  IF n = Entry THEN NoNode
  ELSE LET strict == Doms(s, n) \ {n}
       IN  CHOOSE a \in strict : Doms(s, a) = strict

(* The dominator tree: the children of every node. *)
DomTree(s) ==
  LET idomOf == [n \in Node |-> Idom(s, n)]
  IN  [a \in Node |-> {n \in Node \ {Entry} : idomOf[n] = a}]

(* The blocks where n's dominance ends. *)
DomFrontier(s, n) ==
  {y \in Node : /\ \E p \in Preds(s, y) : Dominates(s, n, p)
                /\ n = y \/ ~Dominates(s, n, y)}

-----------------------------------------------------------------------------
(* A recursive depth-first search over the children in succ, one visit at  *)
(* a time: order is the sequence of the nodes visited so far.  The blocks  *)
(* of a set are iterated in the order of their addresses in the heap, that *)
(* is, in any order.                                                       *)

Visited(order) == {order[i] : i \in 1 .. Len(order)}

(* The call that continues: the latest one with something left to visit.   *)
Frame(succ, order) ==
  LET open == {i \in 1 .. Len(order) : ~(succ[order[i]] \subseteq Visited(order))}
  IN  IF open = {} THEN NoNode
      ELSE order[CHOOSE i \in open : \A j \in open : j <= i]

Visits(succ, order, n) ==
  /\ Frame(succ, order) # NoNode
  /\ n \in succ[Frame(succ, order)] \ Visited(order)

Number(order, n) == CHOOSE i \in 1 .. Len(order) : order[i] = n
=============================================================================
