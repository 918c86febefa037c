------------------------------ MODULE Reports -------------------------------
(***************************************************************************)
(* What asText, asDot and blocks.txt say of the execution, when replay,    *)
(* clean-up and merging are done (BlockMerge, phase "region"): how often   *)
(* every instruction was executed, the weights of the edges, and which     *)
(* instructions' cycles a block is charged with.                           *)
(*                                                                         *)
(* All counters count to the end here; MaxTrace bounds the trace instead.  *)
(***************************************************************************)
EXTENDS BlockMerge, FiniteSets, Functions

CONSTANT MaxTrace   (* bound: the records that are replayed                *)
ASSUME MaxTraceAssumption == MaxTrace \in Nat /\ EdgeCap >= MaxTrace

VARIABLES
  counts,   (* counts of main(): how often the instruction at an address   *)
            (* was executed                                                *)
  first     (* the first record of the trace                               *)

reportVars == <<vars, counts, first>>

ReportInit ==
  /\ Init
  /\ counts = [a \in Addr |-> 0]
  /\ first = pc

Replayed == SumFunction(counts)

(* buildCFG counts the records it goes through, so all but the last.       *)
CountInsn(npc) == [counts EXCEPT ![pc] = @ + 1]

Record(npc) ==
  /\ Replayed < MaxTrace
  /\ Step(npc)
  /\ counts' = CountInsn(npc)
  /\ UNCHANGED first

ReportNext ==
  \/ \E npc \in NextPcs(pc) : Record(npc)
  \/ /\ EndTrace \/ CleanStep \/ EndClean \/ MergeStep \/ EndMerge \/ Done
     /\ UNCHANGED <<counts, first>>

ReportSpec == ReportInit /\ [][ReportNext]_reportVars

-----------------------------------------------------------------------------
(* The places of the listing that show the instruction at a, and add its   *)
(* TIP cycles to a block and to the total.                                 *)
Shown(a) ==
  UNION {{b} \X {i \in DOMAIN g.vecIns[b] : g.vecIns[b][i] = a} : b \in g.bbMap}

(* The label of the edge from b to c. *)
Weight(b, c) == globalEdges[g.termAddr[b]][c]

InWeight(b)  == SumFunction([a \in g.preds[b] |-> Weight(a, b)])
OutWeight(b) == SumFunction([c \in g.succs[b] |-> Weight(b, c)])

-----------------------------------------------------------------------------
(* A transition that happened once and is not in the graph: back into the  *)
(* block it ends, or to the last record, which is not replayed: a block    *)
(* still under construction then is never closed.                          *)
Lost(p, q) ==
  /\ globalEdges[p][q] = 1
  /\ q <= p \/ q = pc
  /\ ~InTable(g, p, q)
LostInto(q) == Cardinality({p \in Addr : Lost(p, q)})
LostFrom(p) == Cardinality({q \in Addr : Lost(p, q)})

Once(cond) == IF cond THEN 1 ELSE 0

(* Every executed instruction is shown once, so its cycles are counted     *)
(* once in the total and the percentages add up, and no instruction is     *)
(* shown whose cycles would be divided by a count of zero.                 *)
CyclesOnce ==
  phase = "region" =>
    \A a \in Addr : Cardinality(Shown(a)) = Once(counts[a] > 0)

(* The count printed for a block, its first instruction's, is the count of *)
(* all its instructions, and its IPC may be computed from it.  It changes  *)
(* within a block only where the trace begins or ends or a transition was  *)
(* lost.                                                                   *)
CountsUniform ==
  phase = "region" =>
    \A b \in g.bbMap : \A i \in 1 .. Len(g.vecIns[b]) - 1 :
      LET p == g.vecIns[b][i]
          q == g.vecIns[b][i + 1]
      IN  counts[q] + Once(q = pc) + LostFrom(p) = counts[p] + Once(q = first) + LostInto(q)

(* Flow is conserved in the drawing: the weights into a block add up to    *)
(* its count, those out of it to the count of its last instruction, up to  *)
(* the beginning and the end of the trace and the transitions lost.        *)
WeightsAddUp ==
  phase = "region" =>
    \A b \in g.bbMap :
      /\ InWeight(b) + Once(b = first) + LostInto(b) = counts[b] + Once(b = pc)
      /\ OutWeight(b) + LostFrom(LastPc(g, b)) = counts[LastPc(g, b)]
=============================================================================
