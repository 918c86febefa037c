--------------------------- MODULE LengauerTarjan ---------------------------
(***************************************************************************)
(* LengauerTarjanDominators of regionCFG.cc, the dominator algorithm for   *)
(* graphs of 512 blocks or more: a depth-first search numbers the blocks,  *)
(* the blocks are processed in reverse order, each giving its              *)
(* semidominator and being linked into a forest with path compression, and *)
(* a second pass turns the provisional immediate dominators into the final *)
(* ones.                                                                   *)
(***************************************************************************)
EXTENDS FlowGraph

VARIABLES
  succs,      (* the flow graph                                            *)
  ndfs,       (* Ndfs: the blocks by depth-first number                    *)
  sdno,       (* Sdno: the number of a block, then of its semidominator    *)
  parent,     (* Parent, in the depth-first tree                           *)
  ancestor,   (* Ancestor, in the forest of the linked blocks              *)
  label,      (* Label                                                     *)
  buckets,    (* Buckets                                                   *)
  idom, dtree,
  i,          (* the loop variable of the two passes                       *)
  todo,       (* what is left of the set the inner loop iterates           *)
  phase

forest == <<ancestor, label>>
vars == <<succs, ndfs, sdno, parent, forest, buckets, idom, dtree, i, todo, phase>>

N == Cardinality(Node)
w == ndfs[i]   (* the block being processed *)

Start ==
  /\ ndfs = <<Entry>>
  /\ sdno = [n \in Node |-> IF n = Entry THEN 1 ELSE 0]
  /\ parent = [n \in Node |-> NoNode]
  /\ ancestor = [n \in Node |-> NoNode]
  /\ label = [n \in Node |-> n]
  /\ buckets = [n \in Node |-> {}]
  /\ idom = [n \in Node |-> NoNode]
  /\ dtree = [n \in Node |-> {}]
  /\ i = 0
  /\ todo = {}
  /\ phase = "dfs"
Init == succs \in FlowGraphs /\ Start

(* DFS *)
Visit(n) ==
  /\ phase = "dfs"
  /\ Visits(succs, ndfs, n)
  /\ ndfs' = Append(ndfs, n)
  /\ sdno' = [sdno EXCEPT ![n] = Len(ndfs) + 1]
  /\ parent' = [parent EXCEPT ![n] = Frame(succs, ndfs)]
  /\ UNCHANGED <<succs, forest, buckets, idom, dtree, i, todo, phase>>

(* The loops process block k next. *)
Process(k) ==
  /\ i' = k
  /\ phase' = "preds"
  /\ todo' = Preds(succs, ndfs[k])

StartPasses ==
  /\ phase = "dfs"
  /\ Frame(succs, ndfs) = NoNode
  /\ Process(Len(ndfs))
  /\ UNCHANGED <<succs, ndfs, sdno, parent, forest, buckets, idom, dtree>>

(* Best[n]: what Label(n) is after Compress(n): among the labels from n up *)
(* to, but not including, the root of its tree, the one with the smallest  *)
(* semidominator.                                                          *)
IsRoot(n) == ancestor[n] = NoNode
Best ==
  LET best[n \in Node] ==
        IF IsRoot(n) \/ IsRoot(ancestor[n]) THEN label[n]
        ELSE LET up == best[ancestor[n]]
             IN  IF sdno[up] < sdno[label[n]] THEN up ELSE label[n]
  IN  best

(* The ancestor of n just below the root's children: the root itself. *)
Top ==
  LET top[n \in Node] ==
        IF IsRoot(n) \/ IsRoot(ancestor[n]) THEN ancestor[n] ELSE top[ancestor[n]]
  IN  top

Path ==
  LET path[n \in Node] == {n} \cup IF IsRoot(n) THEN {} ELSE path[ancestor[n]]
  IN  path

Eval(n) == IF IsRoot(n) THEN n ELSE Best[n]

Compress_NoLabel(n) ==
  /\ label' = label
  /\ ancestor' = [x \in Node |-> IF x \in Path[n] THEN Top[x] ELSE ancestor[x]]
(* What Eval(n) does to the forest: everything on the path from n up hangs *)
(* directly below the root.                                                *)
Compress(n) ==
  LET path == Path[n]
  IN  /\ label' = [x \in Node |-> IF x \in path THEN Best[x] ELSE label[x]]
      /\ ancestor' = [x \in Node |-> IF x \in path THEN Top[x] ELSE ancestor[x]]

Lower(p) == IF sdno[Eval(p)] < sdno[w] THEN sdno[Eval(p)] ELSE sdno[w]

(* One predecessor of w. *)
EvalPred(p) ==
  /\ phase = "preds"
  /\ p \in todo
  /\ todo' = todo \ {p}
  /\ sdno' = [sdno EXCEPT ![w] = Lower(p)]
  /\ Compress(p)
  /\ UNCHANGED <<succs, ndfs, parent, buckets, idom, dtree, i, phase>>

(* The bucket that is emptied once w is linked: its parent's.              *)
Emptied == parent[w]

(* The bucket w is put into: its semidominator's. *)
WaitsIn == ndfs[sdno[w]]

(* All predecessors seen: w waits in its semidominator's bucket, is linked *)
(* below its parent, and the parent's bucket is emptied next.              *)
LinkNode ==
  /\ phase = "preds"
  /\ todo = {}
  /\ buckets' = [buckets EXCEPT ![WaitsIn] = @ \cup {w}]
  /\ ancestor' = [ancestor EXCEPT ![w] = parent[w]]
  /\ todo' = buckets'[Emptied]
  /\ phase' = "bucket"
  /\ UNCHANGED <<succs, ndfs, sdno, parent, label, idom, dtree, i>>

(* One block of the bucket: it gets its immediate dominator, or another    *)
(* block that has the same one.                                            *)
EmptyBucket(v) ==
  /\ phase = "bucket"
  /\ v \in todo
  /\ todo' = todo \ {v}
  /\ idom' = [idom EXCEPT ![v] = IF sdno[Eval(v)] < sdno[v] THEN Eval(v) ELSE parent[w]]
  /\ Compress(v)
  /\ UNCHANGED <<succs, ndfs, sdno, parent, buckets, dtree, i, phase>>

EndNode ==
  /\ phase = "bucket"
  /\ todo = {}
  /\ buckets' = [buckets EXCEPT ![Emptied] = {}]
  /\ IF i > 2 THEN Process(i - 1)
     ELSE i' = 2 /\ phase' = "second" /\ UNCHANGED todo
  /\ UNCHANGED <<succs, ndfs, sdno, parent, forest, idom, dtree>>

Final_AsIs == idom[w]
(* A block whose provisional immediate dominator is not its semidominator  *)
(* takes that block's.                                                     *)
Final == IF idom[w] # ndfs[sdno[w]] THEN idom[idom[w]] ELSE idom[w]

SecondPass ==
  /\ phase = "second"
  /\ i <= Len(ndfs)
  /\ idom' = [idom EXCEPT ![w] = Final]
  /\ i' = i + 1
  /\ UNCHANGED <<succs, ndfs, sdno, parent, forest, buckets, dtree, todo, phase>>

AddDTreeSuccs ==
  /\ phase = "second"
  /\ i > Len(ndfs)
  /\ dtree' = [a \in Node |-> {n \in Node : Preds(succs, n) # {} /\ idom[n] = a}]
  /\ phase' = "done"
  /\ UNCHANGED <<succs, ndfs, sdno, parent, forest, buckets, idom, i, todo>>

Done == phase = "done" /\ UNCHANGED vars

Next ==
  \/ \E n \in Node : Visit(n) \/ EvalPred(n) \/ EmptyBucket(n)
  \/ StartPasses \/ LinkNode \/ EndNode \/ SecondPass \/ AddDTreeSuccs \/ Done

Spec == Init /\ [][Next]_vars /\ WF_vars(Next)
-----------------------------------------------------------------------------
num == [n \in Node |-> Number(ndfs, n)]

(* The number of n's semidominator, by its definition: the lowest number   *)
(* of a block from which a path leads to n through blocks numbered above.  *)
Semi(n) ==
  LET numberOf == num
      above[k \in 0 .. N] ==
        IF k = 0 THEN {n}
        ELSE LET S == above[k - 1]
             IN  S \cup {p \in Node : numberOf[p] > numberOf[n] /\ succs[p] \cap S # {}}
      all  == above[N]
      from == {numberOf[p] : p \in {q \in Node : succs[q] \cap all # {}}}
  IN  CHOOSE k \in from : \A j \in from : k <= j

Linked == IF phase = "dfs" THEN {}
          ELSE {ndfs[k] : k \in i + 1 .. N} \cup (IF phase = "bucket" THEN {w} ELSE {})

(* A block that has been linked knows its semidominator. *)
SemiExact ==
  phase \in {"preds", "bucket"} => \A n \in Linked : sdno[n] = Semi(n)

(* n and the blocks above it in the depth-first tree that are linked. *)
LinkedPath ==
  LET linked == Linked
      up[n \in Node] == IF n \in linked THEN {n} \cup up[parent[n]] ELSE {}
  IN  up

(* Path compression forgets nothing: Eval still finds the block with the   *)
(* smallest semidominator on the whole path in the depth-first tree.       *)
CompressionSound ==
  phase \in {"preds", "bucket"} =>
    \A n \in Linked :
      LET path == LinkedPath[n]
      IN  Eval(n) \in path /\ \A x \in path : sdno[Eval(n)] <= sdno[x]
=============================================================================
