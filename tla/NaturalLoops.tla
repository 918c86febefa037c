---------------------------- MODULE NaturalLoops ----------------------------
(***************************************************************************)
(* regionCFG::findNaturalLoops: every edge back to a dominator gives a     *)
(* natural loop; the loops are then nested by repeatedly sorting them by   *)
(* size and moving the first one that lies inside another below it.        *)
(*                                                                         *)
(* Dominance is the relation DominanceInfo is checked to compute.          *)
(***************************************************************************)
EXTENDS FlowGraph

CONSTANT MaxLoop     (* loops of more blocks are skipped: 63 in the code   *)

VARIABLES
  succs,     (* the flow graph                                             *)
  jumpy,     (* the blocks for which has_jal_jr_jalr() holds               *)
  edges,     (* the back edges the outer loops have not come to            *)
  edge,      (* the back edge <<latch, head>> whose loop is searched       *)
  body,      (* loop, filled by findLoop                                   *)
  stack,     (* findLoop's stack, as a set: see Push                       *)
  loops,     (* the loops found: head, latch and body                      *)
  nested,    (* nestedLoops, in its current order                          *)
  children,  (* the children of every loop                                 *)
  i, j,      (* the loop variables of the nesting loop                     *)
  phase

searching == <<edges, edge, body, stack, loops>>
nesting == <<nested, children, i, j>>
vars == <<succs, jumpy, searching, nesting, phase>>

Edge == Node \X Node
NoEdge == <<NoNode, NoNode>>

BackEdges_Swapped(s) == {e \in Edge : e[2] \in s[e[1]] /\ Dominates(s, e[1], e[2])}
(* The edges whose source is dominated by their target; the outer loops    *)
(* pass over all others.                                                   *)
BackEdges(s) == {e \in Edge : e[2] \in s[e[1]] /\ Dominates(s, e[2], e[1])}

Init ==
  /\ succs \in FlowGraphs
  /\ jumpy \in SUBSET (Node \ {Entry})
  /\ edges = BackEdges(succs)
  /\ edge = NoEdge /\ body = {} /\ stack = {}
  /\ loops = {}
  /\ nested = <<>>
  /\ children = [l \in {} |-> {}]
  /\ i = 1 /\ j = 1
  /\ phase = "search"

StartLoop(e) ==
  /\ phase = "search"
  /\ edge = NoEdge /\ e \in edges
  /\ edges' = edges \ {e}
  /\ edge' = e
  /\ body' = {}
  /\ stack' = {e[1]}
  /\ UNCHANGED <<succs, jumpy, loops, nesting, phase>>

Push_PastHead(n) == Preds(succs, n) \ (body \cup {n})
(* What findLoop pushes after it has taken n into the loop: n's            *)
(* predecessors, except those already in the loop, and nothing for the     *)
(* head.  It may push a block twice and takes the latest first; neither    *)
(* changes the loop that results.                                          *)
Push(n) == IF n = edge[2] THEN {} ELSE Preds(succs, n) \ (body \cup {n})

Pop(n) ==
  /\ edge # NoEdge /\ n \in stack
  /\ body' = body \cup {n}
  /\ stack' = (stack \ {n}) \cup Push(n)
  /\ UNCHANGED <<succs, jumpy, edges, edge, loops, nesting, phase>>

Kept_Any(b) == TRUE
(* Loops with a jump through a register or a call, and large loops, are    *)
(* not kept.                                                               *)
Kept(b) == b \cap jumpy = {} /\ Cardinality(b) <= MaxLoop

EndLoop ==
  /\ edge # NoEdge /\ stack = {}
  /\ loops' = IF Kept(body)
              THEN loops \cup {[head |-> edge[2], latch |-> edge[1], body |-> body]}
              ELSE loops
  /\ edge' = NoEdge
  /\ UNCHANGED <<succs, jumpy, edges, body, stack, nesting, phase>>

Members(s) == {s[k] : k \in 1 .. Len(s)}

(* The orders in which the loops of a set can come out of the sort, which  *)
(* does not define the order of loops of the same size.                    *)
BySize(S) ==
  {s \in [1 .. Cardinality(S) -> S] :
     /\ Members(s) = S
     /\ \A p, q \in DOMAIN s : p < q => Cardinality(s[p].body) <= Cardinality(s[q].body)}

EndSearch ==
  /\ phase = "search"
  /\ edge = NoEdge /\ edges = {}
  /\ children' = [l \in loops |-> {}]
  /\ IF loops = {} THEN phase' = "done" /\ UNCHANGED nested
     ELSE phase' = "scan" /\ nested' \in BySize(loops)
  /\ i' = 1 /\ j' = 2
  /\ UNCHANGED <<succs, jumpy, searching>>

InScan == phase = "scan" /\ i <= Len(nested) /\ j <= Len(nested)
Contains(outer, inner) == inner.body \subseteq outer.body
Same(a, b) == a.body = b.body

(* The assertion that no two loops are the same: isSameLoop(). *)
FailAssert ==
  /\ InScan
  /\ Same(nested[i], nested[j])
  /\ phase' = "assert"
  /\ UNCHANGED <<succs, jumpy, searching, nesting>>

Disjoint ==
  /\ InScan
  /\ ~Contains(nested[j], nested[i])
  /\ j' = j + 1
  /\ UNCHANGED <<succs, jumpy, searching, nested, children, i, phase>>

NextOuter ==
  /\ phase = "scan"
  /\ i <= Len(nested) /\ j > Len(nested)
  /\ i' = i + 1
  /\ j' = i + 2
  /\ UNCHANGED <<succs, jumpy, searching, nested, children, phase>>

Without_Swapped(s, a, b) == Members(s) \ {b}
Without_None(s, a, b) == Members(s)
(* The list without loop a, which was found inside b. *)
Without(s, a, b) == Members(s) \ {a}

(* The smaller loop becomes a child of the other, and the scan starts over *)
(* on the sorted rest.                                                     *)
Nest ==
  /\ InScan
  /\ ~Same(nested[i], nested[j])
  /\ Contains(nested[j], nested[i])
  /\ children' = [children EXCEPT ![nested[j]] = @ \cup {nested[i]}]
  /\ nested' \in BySize(Without(nested, nested[i], nested[j]))
  /\ i' = 1 /\ j' = 2
  /\ UNCHANGED <<succs, jumpy, searching, phase>>

EndScan ==
  /\ phase = "scan"
  /\ i > Len(nested)
  /\ phase' = "done"
  /\ UNCHANGED <<succs, jumpy, searching, nesting>>

Done == phase \in {"done", "assert"} /\ UNCHANGED vars

Next ==
  \/ \E e \in Edge : StartLoop(e)
  \/ \E n \in Node : Pop(n)
  \/ EndLoop \/ EndSearch \/ FailAssert \/ Disjoint \/ NextOuter \/ Nest
  \/ EndScan \/ Done

Spec == Init /\ [][Next]_vars /\ WF_vars(Next)
-----------------------------------------------------------------------------
(* The natural loop of an edge to a dominator, by its definition: the head *)
(* and the blocks that reach the latch without passing the head.           *)
NaturalLoop(latch, head) ==
  {n \in Node : \A S \in SUBSET Node :
     /\ {head, latch} \subseteq S
     /\ \A x \in S \ {head} : Preds(succs, x) \subseteq S
     => n \in S}

(* The loops found are the natural loops of the back edges, all of them    *)
(* but those skipped for a jump or for their size.                         *)
LoopsExact ==
  phase # "search" =>
    loops = {l \in {[head |-> e[2], latch |-> e[1], body |-> NaturalLoop(e[1], e[2])] :
                      e \in {x \in Edge : x[2] \in succs[x[1]] /\ Dominates(succs, x[2], x[1])}} :
               l.body \cap jumpy = {} /\ Cardinality(l.body) <= MaxLoop}

Parents(l) == {p \in DOMAIN children : l \in children[p]}

(* Nesting is a forest of all loops: a loop is at the top or has exactly   *)
(* one parent, which is the smallest loop around it.                       *)
Forest ==
  phase = "done" =>
    \A l \in loops :
      /\ l \in Members(nested) <=> Parents(l) = {}
      /\ Cardinality(Parents(l)) <= 1
      /\ \A p \in Parents(l) :
           /\ l.body \subseteq p.body /\ l.body # p.body
           /\ \A q \in loops : l.body \subseteq q.body /\ q # l => ~(q.body \subseteq p.body /\ q.body # p.body)

(* Only the loops of two back edges to the same head can be the same.      *)
AssertOnlyTwins ==
  phase = "assert" => nested[i].head = nested[j].head /\ nested[i].latch # nested[j].latch

(* No two loops compared by the nesting loop are the same, as the          *)
(* assertion at the top of its body says.                                  *)
NoSameLoop == phase # "assert"

(* The search and the nesting loop end. *)
Terminates == <>(phase \in {"done", "assert"})
=============================================================================
