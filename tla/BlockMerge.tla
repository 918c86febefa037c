----------------------------- MODULE BlockMerge -----------------------------
(***************************************************************************)
(* main() from the trace to the region: TraceReplay, then the deletion of  *)
(* the block the trace ended on, if it is still empty, and, with --merge   *)
(* (the default), the merging of every block that falls through into its   *)
(* only successor.  In phase "region" the blocks of bbMap are what         *)
(* regionCFG::buildCFG receives.                                           *)
(***************************************************************************)
EXTENDS TraceReplay

(* Deleting a block frees its members: the address is back to the values a *)
(* constructor starts from.  Pointers to it in others are not touched.     *)
Delete(h, b) ==
  [h EXCEPT !.bbMap       = @ \ {b},
            !.vecIns[b]   = <<>>,
            !.termAddr[b] = 0,
            !.readOnly[b] = FALSE,
            !.succs[b]    = {},
            !.preds[b]    = {},
            !.succsMap[b] = {}]

(* removeEmpty, and main()'s erase and delete *)
RemoveEmpty_NotErased(h, b) ==
  [h EXCEPT !.succs = [x \in Addr |-> IF x \in h.preds[b] THEN @[x] \ {b} ELSE @[x]]]
RemoveEmpty(h, b) ==
  IF h.succs[b] # {} THEN Abort(h, "removeEmpty")
  ELSE Delete([h EXCEPT !.succs = [x \in Addr |-> IF x \in h.preds[b]
                                                  THEN @[x] \ {b} ELSE @[x]]], b)

FallsThru(h, b) == ~IsBranchOrJump(code[LastPc(h, b)])

MergableWithSucc_AnyEnd(h, b) ==
  \E c \in h.succs[b] : h.succs[b] = {c} /\ \E p \in h.preds[c] : h.preds[c] = {p}
MergableWithSucc_AnyPreds(h, b) ==
  FallsThru(h, b) /\ \E c \in h.succs[b] : h.succs[b] = {c}
MergableWithSucc(h, b) ==
  /\ FallsThru(h, b)
  /\ \E c \in h.succs[b] : h.succs[b] = {c} /\ \E p \in h.preds[c] : h.preds[c] = {p}

(* mergeWithSucc of b, whose only successor is c: b takes over c's         *)
(* instructions, edges and termAddr, and c is deleted.  succsMap is only   *)
(* added to.  When c is b itself, a vector is appended to itself while it  *)
(* is iterated over.                                                       *)
MergedSuccs_Cleared(h, b, c) == [h.succs EXCEPT ![b] = {}]
MergedSuccs(h, b, c) == [h.succs EXCEPT ![b] = h.succs[c]]

MergedPreds(h, b, c) ==
  [x \in Addr |-> IF x \in h.succs[c] THEN (h.preds[x] \ {c}) \cup {b} ELSE h.preds[x]]

MergedInsMap(h, b, c) ==
  [s \in Slot |-> IF s \in Insns(h, c) THEN b ELSE h.insMap[s]]

MergedSuccsMap(h, b, c) ==
  [h.succsMap EXCEPT ![b] = {x \in @ : \A y \in h.succs[c] : Key(x) # Key(y)}
                              \cup MapSuccs(h.succs[c])]

MergeWithSucc(h, b, c) ==
  IF b = c THEN Abort(h, "selfMerge")
  ELSE Delete([h EXCEPT !.succs       = MergedSuccs(h, b, c),
                        !.preds       = MergedPreds(h, b, c),
                        !.succsMap    = MergedSuccsMap(h, b, c),
                        !.vecIns[b]   = @ \o h.vecIns[c],
                        !.insMap      = MergedInsMap(h, b, c),
                        !.termAddr[b] = h.termAddr[c]], c)

-----------------------------------------------------------------------------
IsLowest(b, S) == b \in S /\ \A x \in S : b <= x

Empties   == {b \in g.bbMap : IsEmpty(g, b)}
Mergables == {b \in g.bbMap : MergableWithSucc(g, b)}

Continue(p) == phase' = p /\ UNCHANGED <<code, pc, globalEdges, g, cBB>>
Change(h)   == g' = h /\ UNCHANGED <<code, pc, globalEdges, cBB, phase>>

Alive(p) == phase = p /\ g.fault = "none"

CleanStep == Alive("clean") /\ \E b \in Empties : IsLowest(b, Empties) /\ Change(RemoveEmpty(g, b))

(* The command line decides whether blocks are merged. *)
EndClean == Alive("clean") /\ Empties = {} /\ \E p \in {"merge", "region"} : Continue(p)

(* The merge loop restarts from the lowest block after every merge. *)
MergeStep ==
  /\ Alive("merge")
  /\ \E b \in Mergables : \E c \in g.succs[b] :
       IsLowest(b, Mergables) /\ Change(MergeWithSucc(g, b, c))

EndMerge == Alive("merge") /\ Mergables = {} /\ Continue("region")

(* regionCFG takes over, or the process has aborted. *)
Done == (phase = "region" \/ g.fault # "none") /\ UNCHANGED vars

MainNext == Next \/ CleanStep \/ EndClean \/ MergeStep \/ EndMerge \/ Done

(* The trace is a finite list, so the replay ends; the two loops after it  *)
(* run whenever they can.                                                  *)
Fairness == WF_vars(EndTrace) /\ WF_vars(CleanStep \/ EndClean \/ MergeStep \/ EndMerge)

MainSpec == Init /\ [][MainNext]_vars /\ Fairness

-----------------------------------------------------------------------------
(* What the graph promises about the execution, while it is built, cleaned *)
(* and merged: see ExecutedFlow.                                           *)
Flow == INSTANCE ExecutedFlow
          WITH last <- pc,
               flow <- {e \in Addr \X Addr : InGraph(e[1], e[2])},
               seen <- {a \in Addr : BbInBlock(g, a) # NoBlock},
               replaying <- (phase = "replay")

FlowSpec == Flow!Spec

(* Every block is reached from r. *)
ReachesAll(r) ==
  \A S \in SUBSET g.bbMap :
    /\ r \in S
    /\ \A b \in S : g.succs[b] \subseteq S
    => S = g.bbMap

(* Some block reaches every block, unless the trace was one record long    *)
(* and nothing is left.  So at most one block lacks predecessors, as       *)
(* regionCFG asserts, and a head can be found that loses no block: see     *)
(* RegionHead.                                                             *)
Rooted == g.bbMap # {} => \E r \in g.bbMap : ReachesAll(r)

(* The listing prints the i-th instruction of a block at entryAddr + 4*i,  *)
(* and region timing is looked up there.  A block whose instructions lie   *)
(* elsewhere is one that merging continued behind a system instruction.    *)
ListingExact ==
  \A b \in g.bbMap : \A i \in 1 .. Len(g.vecIns[b]) - 1 :
    \/ g.vecIns[b][i + 1] = g.vecIns[b][i] + 1
    \/ code[g.vecIns[b][i]] = "sys"

(* Once the trace is replayed no assertion fails.  Merging a block with    *)
(* itself is only possible when it is the whole graph.                     *)
MergeFault ==
  g.fault # "none" => g.fault = "selfMerge" /\ \E b \in Addr : g.bbMap = {b}

(* The cleaning and merging loops terminate: main() reaches regionCFG.     *)
Finishes == <>(phase = "region" \/ g.fault # "none")
=============================================================================
