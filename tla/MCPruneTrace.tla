---------------------------- MODULE MCPruneTrace ----------------------------
(***************************************************************************)
(* PruneTrace for TLC: the traces of at most MaxLen records.               *)
(***************************************************************************)
EXTENDS PruneTrace

CONSTANT MaxLen

MCTraces == UNION {[1 .. n -> [pc : Pc, neg : BOOLEAN]] : n \in 0 .. MaxLen}
=============================================================================
