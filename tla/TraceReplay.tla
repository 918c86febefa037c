----------------------------- MODULE TraceReplay ----------------------------
(***************************************************************************)
(* buildCFG of main.cc: the retired-instruction trace is replayed one      *)
(* record at a time, and the block table grows into the control-flow graph *)
(* of what was executed.  Each record but the last is processed with the   *)
(* address of the record after it (npc).                                   *)
(*                                                                         *)
(* The trace is produced by a processor, which the loop does not control:  *)
(* the program text (code) is chosen initially, and each step chooses npc  *)
(* among the addresses the instruction at pc may be followed by.           *)
(***************************************************************************)
EXTENDS BlockGraph

CONSTANTS
  Traps,      (* may an exception or interrupt follow any instruction?     *)
  EdgeCap     (* bound: the edge counters stop counting here               *)

ASSUME TrapsAssumption   == Traps \in BOOLEAN
ASSUME EdgeCapAssumption == EdgeCap \in Nat

VARIABLES
  code,         (* the program: the class of the instruction at an address *)
  pc,           (* the next record of the trace                            *)
  globalEdges,  (* how often the record at p was followed by one at q      *)
  g,            (* the block table                                         *)
  cBB,          (* globals::cBB, the current block                         *)
  phase         (* "replay", then what main() does next                    *)

vars == <<code, pc, globalEdges, g, cBB, phase>>

(* Instruction classes: "branch" is a jump or conditional branch (opcodes  *)
(* 0x63, 0x67, 0x6f), "sys" a system instruction that transfers control    *)
(* (ecall, ebreak, the returns), "plain" everything else.                  *)
Class == {"plain", "branch", "sys"}

IsBranchOrJump(c) == c = "branch"

EndsBlock_SysOnly(c) == c = "sys"
(* translateRiscv closes the block after these. *)
EndsBlock(c) == c \in {"branch", "sys"}

(* The addresses that may follow the instruction at p. *)
NextPcs(p) ==
  IF code[p] = "plain" /\ ~Traps THEN {p + 1} \cap Addr ELSE Addr

(* What main() does, in order: replay the trace, delete the empty block,   *)
(* merge blocks, hand the blocks to regionCFG.                             *)
Phase == {"replay", "clean", "merge", "region"}

CountEdge(npc) ==
  globalEdges' = [globalEdges EXCEPT ![pc][npc] = IF @ < EdgeCap THEN @ + 1 ELSE @]

-----------------------------------------------------------------------------
Init ==
  /\ code \in [Addr -> Class]
  /\ pc \in Addr
  /\ globalEdges = [p \in Addr |-> [q \in Addr |-> 0]]
  /\ g = Construct(EmptyGraph, pc)
  /\ cBB = pc
  /\ phase = "replay"

Resync_Off == cBB
(* The block a record is attributed to: a read-only cBB that does not hold *)
(* the record's address yields to the built block that does.               *)
Resync ==
  LET cur == BbInBlock(g, pc)
  IN  IF g.readOnly[cBB] /\ cur # NoBlock THEN cur ELSE cBB

Running == phase = "replay" /\ g.fault = "none"

(* translateRiscv, in block b of graph h *)
TranslateRiscv(h, b, npc) ==
  LET added == AddIns(h, b, pc)
  IN  IF EndsBlock(code[pc])
      THEN GetNextBlock(SetTermAddr(added, b, pc), b, npc)
      ELSE [blk |-> b, graph |-> added]

Become(s) == g' = s.graph /\ cBB' = s.blk

(* A record inside an already built block: nothing to learn. *)
Stay(npc) ==
  /\ g.readOnly[Resync]
  /\ pc # g.termAddr[Resync]
  /\ Become([blk |-> Resync, graph |-> g])

(* The last record of a built block: follow, or add, the edge to npc. *)
Leave(npc) ==
  /\ g.readOnly[Resync]
  /\ pc = g.termAddr[Resync]
  /\ Become(Successor(g, Resync, npc))

(* A new instruction for the block under construction. *)
Build(npc) ==
  /\ ~g.readOnly[Resync]
  /\ BbInBlock(g, pc) = NoBlock
  /\ Become(TranslateRiscv(g, Resync, npc))

(* The block under construction runs into a built one: it is closed after  *)
(* its last instruction, and the record is then translated in the other.   *)
Join(npc) ==
  /\ ~g.readOnly[Resync]
  /\ BbInBlock(g, pc) # NoBlock
  /\ IF IsEmpty(g, Resync)
     THEN Become([blk |-> Resync, graph |-> Abort(g, "at")])
     ELSE LET s == GetNextBlock(SetTermAddr(g, Resync, LastPc(g, Resync)), Resync, pc)
          IN  IF s.graph.fault # "none" THEN Become(s)
              ELSE Become(TranslateRiscv(s.graph, s.blk, npc))

Step(npc) ==
  /\ Running
  /\ CountEdge(npc)
  /\ pc' = npc
  /\ Stay(npc) \/ Leave(npc) \/ Build(npc) \/ Join(npc)
  /\ UNCHANGED <<code, phase>>

(* The trace may end after any record. *)
EndTrace ==
  /\ Running
  /\ phase' = "clean"
  /\ UNCHANGED <<code, pc, globalEdges, g, cBB>>

Next == (\E npc \in NextPcs(pc) : Step(npc)) \/ EndTrace

Spec == Init /\ [][Next]_vars
-----------------------------------------------------------------------------
TypeOK ==
  /\ code \in [Addr -> Class]
  /\ pc \in Addr
  /\ globalEdges \in [Addr -> [Addr -> 0 .. EdgeCap]]
  /\ g \in Graph
  /\ cBB \in Addr
  /\ phase \in Phase

(* No assertion fails and no vector is indexed out of bounds: the abort()  *)
(* exits of split, fallsThru and vecIns.at are unreachable.                *)
NoFault == g.fault = "none"

(* With exceptions an assertion does fail, the one in split: insMap names  *)
(* a block that has no instruction at that address.  No other does: no     *)
(* edge is ever added to an empty block, and none is closed as if it had a *)
(* last instruction.                                                       *)
OnlySplitFails == g.fault \in {"none", "split"}

(* insMap and the blocks' instruction vectors agree: an instruction of a   *)
(* block is mapped to that block (so it is in no other), and what is       *)
(* mapped to a block is one of its instructions.  split and bbInBlock rely *)
(* on both directions.                                                     *)
InsMapExact ==
  /\ \A b \in g.bbMap : \A a \in Insns(g, b) : g.insMap[a] = b
  /\ \A s \in Slot : LET b == g.insMap[s]
                     IN  b # NoBlock => b \in g.bbMap /\ s \in Insns(g, b)

(* An executed instruction is in one block, at one place of it, however    *)
(* often it is executed and whatever exceptions did to insMap.             *)
OnePlace ==
  \A b, c \in g.bbMap :
    \A i \in 1 .. Len(g.vecIns[b]), j \in 1 .. Len(g.vecIns[c]) :
      g.vecIns[b][i] = g.vecIns[c][j] => b = c /\ i = j

(* Successors and predecessors are converses, as basicBlock::sanityCheck   *)
(* tests block by block, and all of them are blocks of bbMap: no pointer   *)
(* dangles.                                                                *)
Symmetric ==
  \A b \in Addr :
    /\ g.succs[b] \subseteq g.bbMap
    /\ g.preds[b] \subseteq g.bbMap
    /\ b \notin g.bbMap => g.succs[b] = {} /\ g.preds[b] = {}
    /\ \A c \in Addr : c \in g.succs[b] <=> b \in g.preds[c]

(* The other half of sanityCheck: no jump or branch inside a block. *)
NoInnerBranch ==
  \A b \in g.bbMap : \A i \in 1 .. Len(g.vecIns[b]) - 1 :
    ~IsBranchOrJump(code[g.vecIns[b][i]])

(* What regionCFG::buildCFG asserts of every block: sanityCheck succeeds.  *)
SanityCheck == Symmetric /\ NoInnerBranch

(* Every edge of the graph was executed, and its weight is found where     *)
(* operator<< looks for it: in globalEdges, from the predecessor's         *)
(* termAddr to the successor's entry address.                              *)
EdgesExecuted ==
  \A e \in Edges(g) :
    /\ g.termAddr[e[1]] \in Addr
    /\ globalEdges[g.termAddr[e[1]]][e[2]] > 0

(* p and q are consecutive in a block, or the last instruction of a block  *)
(* and the entry of its successor.                                         *)
InTable(h, p, q) ==
  \E b \in h.bbMap :
    \/ \E i \in 1 .. Len(h.vecIns[b]) - 1 :
         h.vecIns[b][i] = p /\ h.vecIns[b][i + 1] = q
    \/ ~IsEmpty(h, b) /\ LastPc(h, b) = p /\ q \in h.succs[b]

(* ... or the block under construction ends with p, and q is translated    *)
(* next.                                                                   *)
InGraph(p, q) ==
  \/ InTable(g, p, q)
  \/ /\ phase = "replay"
     /\ ~g.readOnly[cBB]
     /\ ~IsEmpty(g, cBB)
     /\ LastPc(g, cBB) = p
     /\ pc = q

(* No jump went to an address that has the succsMap key of another block.  *)
KeysApart ==
  \A p, q \in Addr : EndsBlock(code[p]) /\ globalEdges[p][q] > 0 =>
    \A b \in g.bbMap : Key(b) = Key(q) => b = q

(* Nothing that was executed is missing from the graph, as long as the     *)
(* 32-bit keys of succsMap tell the blocks apart.  The one exception is a  *)
(* jump back into the middle of the block it ends: that block is split     *)
(* there, and the edge is only recorded the next time it is taken.         *)
EdgesComplete ==
  phase = "replay" /\ KeysApart =>
    \A p, q \in Addr :
      globalEdges[p][q] >= (IF q > p THEN 1 ELSE 2) => InGraph(p, q)

(* Every instruction that was executed is in a block, as long as the keys  *)
(* tell the blocks apart.                                                  *)
NothingLost ==
  KeysApart => \A p, q \in Addr : globalEdges[p][q] > 0 => BbInBlock(g, p) # NoBlock

(* What the comment on the resynchronisation in buildCFG wants: no edge is *)
(* silently dropped.                                                       *)
NoEdgeDropped ==
  phase = "replay" => \A p, q \in Addr : globalEdges[p][q] > 0 => InGraph(p, q)

(* The record executed is the transfer at the end of b, a block that is    *)
(* built; and its edge is in the graph afterwards, unless it leads back    *)
(* into the middle of that block.                                          *)
Leaves(b) ==
  /\ g.readOnly[b] /\ ~IsEmpty(g, b) /\ LastPc(g, b) = pc
  /\ EndsBlock(code[pc])
  /\ phase' = "replay" /\ g'.fault = "none"
EdgeKept(b) == InTable(g', pc, pc') \/ pc' \in Insns(g, b) \ {b}

(* What the comment on the resynchronisation in buildCFG promises: the     *)
(* edge out of a built block is not silently dropped, wherever control     *)
(* came from.  With exceptions it is: once split has mapped an instruction *)
(* of a block that is not contiguous to the wrong block, the               *)
(* resynchronisation itself moves cBB from the right block to that one.    *)
TakenEdgeKept == [][\A b \in g.bbMap : Leaves(b) => EdgeKept(b)]_vars

(* What is left of the promise with exceptions: the resynchronisation      *)
(* keeps the edge wherever control came from, provided that bbInBlock      *)
(* still names the block that holds the instruction.                       *)
MappedEdgeKept ==
  [][\A b \in g.bbMap : Leaves(b) /\ BbInBlock(g, pc) = b => EdgeKept(b)]_vars
=============================================================================
