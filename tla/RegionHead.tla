----------------------------- MODULE RegionHead -----------------------------
(***************************************************************************)
(* regionCFG::buildCFG up to the analyses: which block becomes the head of *)
(* the region, which blocks the region keeps, and the flow graph of        *)
(* cfgBasicBlocks, with its entry block, that the analyses start from.     *)
(*                                                                         *)
(* Blocks are numbered in the order of the vector main() hands over.  The  *)
(* graph is any in which some block reaches every block; that clean-up and *)
(* merging leave such a graph is what BlockMerge's Rooted says.            *)
(***************************************************************************)
EXTENDS Integers, FiniteSets

CONSTANT K     (* region.size()                                            *)
ASSUME KAssumption == K \in Nat \ {0}

Block == 1 .. K
NoHead == 0    (* nullptr; also the name of the entry block                *)

VARIABLES
  succs,      (* the successors of every basicBlock                        *)
  j,          (* the loop variable of the two loops over region            *)
  head,
  blocks,     (* regionCFG::blocks                                         *)
  finish,     (* succs_finish: the blocks reached from region[0] that are  *)
              (* in no component yet                                       *)
  seen,       (* preds_seen                                                *)
  best, maxReach,
  cfg,        (* the successors of every cfgBasicBlock                     *)
  phase

search == <<finish, seen>>
vars == <<succs, j, head, blocks, search, best, maxReach, cfg, phase>>

(* dfs<use_succs>: what is reached from b by next without entering blocks  *)
(* in seen.                                                                *)
Dfs(next, b, old) ==
  LET reach[k \in 0 .. K] ==
        IF k = 0 THEN {b} \ old
        ELSE LET S == reach[k - 1] IN S \cup ((UNION {next[x] : x \in S}) \ old)
  IN  reach[K]

preds == [b \in Block |-> {a \in Block : b \in succs[a]}]
Reach(b) == Dfs(succs, b, {})
Rooted(s) == \E r \in Block : Dfs(s, r, {}) = Block

Init ==
  /\ succs \in {s \in [Block -> SUBSET Block] : Rooted(s)}
  /\ j = 1
  /\ head = NoHead
  /\ blocks = {}
  /\ finish = {} /\ seen = {}
  /\ best = NoHead /\ maxReach = 0
  /\ cfg = [b \in Block |-> {}]
  /\ phase = "predless"

(* A block without predecessors is the head; there must not be two. *)
Predless ==
  /\ phase = "predless"
  /\ j <= K
  /\ IF preds[j] = {} /\ head # NoHead
     THEN phase' = "assert" /\ UNCHANGED <<head, blocks, j>>
     ELSE /\ head' = IF preds[j] = {} THEN j ELSE head
          /\ blocks' = blocks \cup {j}
          /\ j' = j + 1
          /\ UNCHANGED phase
  /\ UNCHANGED <<succs, search, best, maxReach, cfg>>

EndPredless ==
  /\ phase = "predless"
  /\ j > K
  /\ IF head # NoHead THEN phase' = "edges" /\ UNCHANGED finish
     ELSE phase' = "components" /\ finish' = Reach(1)
  /\ UNCHANGED <<succs, j, head, blocks, seen, best, maxReach, cfg>>

Remaining_All(f, s) == f
(* What is left of the finish list when the blocks in s are taken out. *)
Remaining(f, s) == f \ s

(* One strongly connected component.  The first is that of region[0],      *)
(* which finishes last; a component as large as the region makes region[0] *)
(* the head.                                                               *)
Component(b) ==
  /\ phase = "components"
  /\ b \in finish
  /\ seen = {} => b = 1
  /\ seen' = seen \cup Dfs(preds, b, seen)
  /\ finish' = Remaining(finish, seen')
  /\ IF Cardinality(finish \cap seen') = K
     THEN head' = 1 /\ phase' = "edges"
     ELSE UNCHANGED <<head, phase>>
  /\ UNCHANGED <<succs, j, blocks, best, maxReach, cfg>>

EndComponents ==
  /\ phase = "components"
  /\ finish = {}
  /\ j' = 1
  /\ phase' = "reach"
  /\ UNCHANGED <<succs, head, blocks, search, best, maxReach, cfg>>

Better_Latest == Cardinality(Reach(j)) >= 1
(* The first block that reaches the most blocks is the best. *)
Better == Cardinality(Reach(j)) > maxReach

TryBlock ==
  /\ phase = "reach"
  /\ j <= K
  /\ IF Better THEN best' = j /\ maxReach' = Cardinality(Reach(j))
     ELSE UNCHANGED <<best, maxReach>>
  /\ j' = j + 1
  /\ UNCHANGED <<succs, head, blocks, search, cfg, phase>>

(* The region keeps what the best block reaches. *)
TakeBest ==
  /\ phase = "reach"
  /\ j > K
  /\ head' = best
  /\ blocks' = Reach(best)
  /\ phase' = "edges"
  /\ UNCHANGED <<succs, j, search, best, maxReach, cfg>>

CfgEdges_Preds == [b \in Block |-> preds[b]]
(* Edges between the blocks of the region. *)
CfgEdges == [b \in Block |-> IF b \in blocks THEN succs[b] \cap blocks ELSE {}]

(* The cfgBasicBlocks are linked, and all have to be reached from head. *)
LinkBlocks ==
  /\ phase = "edges"
  /\ cfg' = CfgEdges
  /\ phase' = IF Dfs(cfg', head, {}) = blocks THEN "analyze" ELSE "die"
  /\ UNCHANGED <<succs, j, head, blocks, search, best, maxReach>>

Done == phase \in {"analyze", "assert", "die"} /\ UNCHANGED vars

Next ==
  \/ \E b \in Block : Component(b)
  \/ Predless \/ EndPredless \/ EndComponents \/ TryBlock \/ TakeBest
  \/ LinkBlocks \/ Done

Spec == Init /\ [][Next]_vars /\ WF_vars(Next)
-----------------------------------------------------------------------------
(* Neither the assertion that only one block lacks predecessors nor the    *)
(* die() after allBlocksReachable can be reached, and no block that was    *)
(* executed is dropped from the region.                                    *)
RegionComplete ==
  /\ phase \notin {"assert", "die"}
  /\ phase = "analyze" => blocks = Block

(* The analyses get what they are specified for: with the entry block      *)
(* added in front of the head, a flow graph of FlowGraph.                  *)
Analysis == INSTANCE FlowGraph
  WITH Node <- Block \cup {NoHead}, Entry <- NoHead, CfgHead <- head, NoNode <- -1
EntersAnalysis ==
  phase \in {"analyze", "die"} =>
    [b \in Block \cup {NoHead} |-> IF b = NoHead THEN {head} ELSE cfg[b]]
      \in Analysis!FlowGraphs

(* The number of rounds is bounded: a head is always found. *)
HeadFound == <>(phase = "analyze" /\ head # NoHead)
=============================================================================
