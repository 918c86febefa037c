----------------------------- MODULE PruneTrace -----------------------------
(***************************************************************************)
(* main() with --prune, before the replay: the trace is cut down to the    *)
(* longest run of user instructions, found in one pass.  A run counts when *)
(* an instruction at a kernel address ends it.                             *)
(*                                                                         *)
(* Positions are counted from 1; best_start and curr_start count the       *)
(* records before the run, which makes them the code's positions from 0.   *)
(***************************************************************************)
EXTENDS Integers, Sequences

CONSTANTS
  Pc,       (* instruction addresses                                       *)
  Traces    (* the traces that may be read                                 *)

(* neg_addr: the record's vpc is negative, or in the page at 0x200000.     *)
Record == [pc : Pc, neg : BOOLEAN]

ASSUME TracesAssumption == Traces \subseteq Seq(Record)

VARIABLES
  recs,         (* the trace                                               *)
  tip,          (* the addresses there is TIP data for                     *)
  p,            (* the record the loop is at                               *)
  in_neg,       (* was the last record a kernel one?                       *)
  best_start, best_len, curr_start,
  records,      (* what is replayed                                        *)
  phase

run == <<in_neg, best_start, best_len, curr_start>>
vars == <<recs, tip, p, run, records, phase>>

Phase == {"scan", "scale", "start", "replay", "throw", "undefined"}

PcsOf(s) == {s[i].pc : i \in 1 .. Len(s)}

Init ==
  /\ recs \in Traces
  /\ tip \in SUBSET Pc
  /\ p = 1
  /\ in_neg = FALSE
  /\ best_start = 0 /\ best_len = 0 /\ curr_start = 0
  /\ records = recs
  /\ phase \in {"scan", "start"}     (* with and without --prune           *)

Scanning == phase = "scan" /\ p <= Len(recs)
NextRecord == p' = p + 1 /\ UNCHANGED <<recs, tip, records, phase>>

NumUser_Late == (p - 2) - curr_start
(* The user instructions since the run began. *)
NumUser == (p - 1) - curr_start

(* The first kernel instruction after a run, and one after another.        *)
EndRun ==
  /\ Scanning
  /\ recs[p].neg /\ ~in_neg
  /\ IF NumUser > best_len
     THEN best_len' = NumUser /\ best_start' = curr_start
     ELSE UNCHANGED <<best_len, best_start>>
  /\ in_neg' = TRUE
  /\ UNCHANGED curr_start
  /\ NextRecord

StayKernel ==
  /\ Scanning
  /\ recs[p].neg /\ in_neg
  /\ UNCHANGED run
  /\ NextRecord

RunStart_Never == curr_start
RunStart == IF in_neg THEN p - 1 ELSE curr_start

User ==
  /\ Scanning
  /\ ~recs[p].neg
  /\ curr_start' = RunStart
  /\ in_neg' = FALSE
  /\ UNCHANGED <<best_start, best_len>>
  /\ NextRecord

Window == SubSeq(recs, best_start + 1, best_start + best_len)

EndScan ==
  /\ phase = "scan"
  /\ p > Len(recs)
  /\ records' = Window
  /\ phase' = "scale"
  /\ UNCHANGED <<recs, tip, p, run>>

(* The TIP data of what is left is scaled to how often it is left; at()    *)
(* throws when there is none.                                              *)
Scale ==
  /\ phase = "scale"
  /\ IF PcsOf(records) \subseteq tip
     THEN tip' = PcsOf(records) /\ phase' = "start"
     ELSE UNCHANGED tip /\ phase' = "throw"
  /\ UNCHANGED <<recs, p, run, records>>

(* begin()->pc of the records: undefined when there are none.              *)
Start ==
  /\ phase = "start"
  /\ phase' = IF records = <<>> THEN "undefined" ELSE "replay"
  /\ UNCHANGED <<recs, tip, p, run, records>>

Done == phase \in {"replay", "throw", "undefined"} /\ UNCHANGED vars

Next == EndRun \/ StayKernel \/ User \/ EndScan \/ Scale \/ Start \/ Done

Spec == Init /\ [][Next]_vars
-----------------------------------------------------------------------------
TypeOK ==
  /\ recs \in Traces
  /\ tip \in SUBSET Pc
  /\ p \in 1 .. Len(recs) + 1
  /\ in_neg \in BOOLEAN
  /\ best_start \in Nat /\ best_len \in Nat /\ curr_start \in Nat
  /\ records \in Seq(Record)
  /\ phase \in Phase

(* The records from i to before j are all user instructions.               *)
UserRun(i, j) == \A k \in i .. j - 1 : ~recs[k].neg

(* What is kept is a run of user instructions, and no run that a kernel    *)
(* instruction ends is longer.                                             *)
KeepsLongest ==
  phase = "scale" =>
    /\ \A k \in 1 .. Len(records) : ~records[k].neg
    /\ \A i, j \in 1 .. Len(recs) :
         i <= j /\ recs[j].neg /\ UserRun(i, j) => j - i <= Len(records)

(* The trace is only pruned to nothing, and main() then reads a record     *)
(* that is not there, if it never goes from user to kernel code: a run     *)
(* that the end of the trace ends is not kept.                             *)
NothingKept ==
  phase = "undefined" =>
    \A i \in 1 .. Len(recs) - 1 : recs[i].neg \/ ~recs[i + 1].neg
=============================================================================
