---------------------------- MODULE TraceWindows ----------------------------
(***************************************************************************)
(* The two windows main() cuts out of what it has read: --prune's, out of  *)
(* the trace, and, when what is left has been replayed, the one around a   *)
(* hot block's middle execution, out of the pipeline log.  The log is that *)
(* of the same execution, and nothing prunes it.                           *)
(***************************************************************************)
EXTENDS MCPruneTrace, PipeWindow

MCLogs == UNION {[1 .. n -> BOOLEAN] : n \in 0 .. MaxLen}

allVars == <<vars, windowVars>>

WindowsInit ==
  /\ Init
  /\ pt = <<>> /\ NothingFound /\ NoWindow
  /\ step = "off"

(* With --pipe: pt.read, and asDot comes to a block that begins with the   *)
(* instruction hot.                                                        *)
ReadPipe(hot) ==
  /\ phase = "replay"
  /\ step = "off"
  /\ pt' = [i \in 1 .. Len(recs) |-> recs[i].pc = hot]
  /\ step' = "search"
  /\ UNCHANGED <<vars, found, window, cnt, ops>>

Finished ==
  /\ Done
  /\ step \in {"off", "skipped", "done"}
  /\ UNCHANGED windowVars

WindowsNext ==
  \/ /\ EndRun \/ StayKernel \/ User \/ EndScan \/ Scale \/ Start
     /\ UNCHANGED windowVars
  \/ \E hot \in PcsOf(records) : ReadPipe(hot)
  \/ /\ WindowNext
     /\ UNCHANGED vars
  \/ Finished

WindowsSpec == WindowsInit /\ [][WindowsNext]_allVars
=============================================================================
