------------------------------ MODULE MCReports -----------------------------
(***************************************************************************)
(* Reports for TLC, with the programs of MCBlockMerge.                     *)
(***************************************************************************)
EXTENDS Reports

CONSTANTS MaxFlow, FlowAddr, FlowClass

MCInit ==
  /\ ReportInit
  /\ \A a \in Addr : code[a] # "plain" => a \in FlowAddr /\ code[a] \in FlowClass
  /\ Cardinality({a \in Addr : EndsBlock(code[a])}) <= MaxFlow

MCSpec == MCInit /\ [][ReportNext]_reportVars
=============================================================================
