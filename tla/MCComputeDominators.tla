------------------------ MODULE MCComputeDominators -------------------------
(***************************************************************************)
(* ComputeDominators for TLC, for the blocks 1 (the entry), 2 (the head),  *)
(* 3, 4, ...  The graphs are trees with at most MaxExtra further edges, in *)
(* which every block has a number above its parent's: every flow graph     *)
(* with that many edges is such a graph, with its blocks renumbered.       *)
(***************************************************************************)
EXTENDS ComputeDominators, FiniteSetsExt

CONSTANT MaxExtra

Others == Node \ {Entry, CfgHead}
Parents == {f \in [Others -> Node \ {Entry}] : \A n \in Others : f[n] < n}
Sparse ==
  {[n \in Node |-> {m \in Node : \/ n = Entry /\ m = CfgHead
                                 \/ m \in Others /\ f[m] = n
                                 \/ <<n, m>> \in X}] :
     f \in Parents, X \in kSubset(MaxExtra, (Node \ {Entry}) \X (Node \ {Entry}))}

MCInit == succs \in Sparse /\ Start

MCSpec == MCInit /\ [][Next]_vars /\ WF_vars(Next)
=============================================================================
