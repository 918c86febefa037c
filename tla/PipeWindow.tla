----------------------------- MODULE PipeWindow -----------------------------
(***************************************************************************)
(* asDot, when there is a pipeline log, for one of the hottest blocks: it  *)
(* looks for the executions of the block's first instruction in the log,   *)
(* and has dump_pipe write the records around the one in the middle.       *)
(*                                                                         *)
(* The positions found count from 0, dump_pipe counts records from 1.      *)
(* start and stop are unsigned.                                            *)
(***************************************************************************)
EXTENDS Integers, Sequences

CONSTANTS
  Logs,     (* the logs that may be read: does a record's pc match?        *)
  Least,    (* executions needed: 10 in the code                           *)
  Before,   (* records wanted before the middle one: 4                     *)
  After,    (* records wanted after it: 128                                *)
  Word      (* unsigned numbers are taken modulo this: 2^64                *)

ASSUME LogsAssumption == Logs \subseteq Seq(BOOLEAN)
ASSUME WindowAssumption ==
  /\ Before \in Nat /\ After \in Nat \ {0}
  /\ Least \in Nat /\ Least >= 2 * (Before + 1)
  /\ Word \in Nat /\ \A l \in Logs : Len(l) + After < Word

VARIABLES
  pt,           (* the log                                                 *)
  icnt,         (* the record the search is at                             *)
  instances,    (* the matching positions so far                           *)
  start, stop,  (* the window                                              *)
  cnt,          (* dump_pipe's count of records                            *)
  ops,          (* the positions of the records it writes                  *)
  step

found == <<icnt, instances>>
window == <<start, stop>>
windowVars == <<pt, found, window, cnt, ops, step>>

NothingFound == icnt = 0 /\ instances = <<>>
NoWindow == start = 0 /\ stop = 0 /\ cnt = 0 /\ ops = <<>>
WindowInit == pt \in Logs /\ NothingFound /\ NoWindow /\ step = "search"

SearchRecord ==
  /\ step = "search"
  /\ icnt < Len(pt)
  /\ instances' = IF pt[icnt + 1] THEN Append(instances, icnt) ELSE instances
  /\ icnt' = icnt + 1
  /\ UNCHANGED <<pt, window, cnt, ops, step>>

Enough_Two == Len(instances) >= 2
(* With few executions no window is written. *)
Enough == Len(instances) >= Least

(* instances.at(m-1), with m half the number of executions.                *)
Middle == instances[Len(instances) \div 2]

EndSearch ==
  /\ step = "search"
  /\ icnt = Len(pt)
  /\ IF Enough
     THEN /\ start' = (Middle - Before) % Word
          /\ stop'  = (Middle + After) % Word
          /\ step'  = "dump"
     ELSE UNCHANGED window /\ step' = "skipped"
  /\ UNCHANGED <<pt, found, cnt, ops>>

(* One turn of dump_pipe's loop: before the window, inside it, behind it.  *)
DumpRecord ==
  /\ step = "dump"
  /\ cnt < Len(pt)
  /\ cnt' = cnt + 1
  /\ IF cnt' > stop /\ cnt' >= start THEN step' = "done" ELSE UNCHANGED step
  /\ ops' = IF start <= cnt' /\ cnt' <= stop THEN Append(ops, cnt' - 1) ELSE ops
  /\ UNCHANGED <<pt, found, window>>

EndDump ==
  /\ step = "dump"
  /\ cnt = Len(pt)
  /\ step' = "done"
  /\ UNCHANGED <<pt, found, window, cnt, ops>>

WindowNext == SearchRecord \/ EndSearch \/ DumpRecord \/ EndDump

WindowSpec == WindowInit /\ [][WindowNext]_windowVars
-----------------------------------------------------------------------------
Written(k) == \E i \in 1 .. Len(ops) : ops[i] = k

(* What is written shows the middle execution with at least Before records *)
(* ahead of it: the unsigned subtraction does not wrap, although the only  *)
(* test is that there are enough executions, and positions counted from 0  *)
(* are not passed over where records are counted from 1.                   *)
WindowShowsMiddle ==
  step = "done" =>
    /\ Middle >= Before
    /\ \A k \in Middle - Before .. Middle : Written(k)
=============================================================================
