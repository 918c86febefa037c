-------------------------- MODULE MCBlockMerge ----------------------------
(***************************************************************************)
(* BlockMerge for TLC.  The programs are those with at most MaxFlow        *)
(* instructions that end a block, at addresses in FlowAddr and of the      *)
(* classes in FlowClass.                                                   *)
(***************************************************************************)
EXTENDS BlockMerge, FiniteSets

CONSTANTS MaxFlow, FlowAddr, FlowClass

MCInit ==
  /\ Init
  /\ \A a \in Addr : code[a] # "plain" => a \in FlowAddr /\ code[a] \in FlowClass
  /\ Cardinality({a \in Addr : EndsBlock(code[a])}) <= MaxFlow

MCSpec == MCInit /\ [][MainNext]_vars /\ Fairness
=============================================================================
