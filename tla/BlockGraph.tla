----------------------------- MODULE BlockGraph -----------------------------
(***************************************************************************)
(* The block table of basicBlock.cc / basicBlock.hh: every basicBlock of   *)
(* the program, the two static indexes bbMap and insMap, and the member    *)
(* functions that update them, as operators from graph to graph.           *)
(*                                                                         *)
(* A block is named by its entry address (bbMap has at most one block per  *)
(* entry address and every constructed block is in it), an instruction by  *)
(* its address counted in 4-byte words.  NoBlock (0) stands for nullptr    *)
(* and for the value 0 that termAddr uses as "not set": address 0 is never *)
(* executed.  A graph is a record whose per-block fields are total         *)
(* functions; an address without a block holds the values a constructor    *)
(* starts from.                                                            *)
(***************************************************************************)
EXTENDS Integers, Sequences

CONSTANTS
  Lo, Hi,   (* the program's first and last instruction address, in words  *)
  KeyMod    (* succsMap is keyed by uint32_t: addresses equal modulo       *)
            (* KeyMod share a key                                          *)

ASSUME AddrAssumption == Lo \in Nat /\ Hi \in Nat /\ 1 < Lo /\ Lo <= Hi
ASSUME KeyAssumption  == KeyMod \in Nat \ {0}

NoBlock == 0
Addr == Lo .. Hi
Slot == Lo .. 2 * Hi        (* split indexes insMap by entryAddr + 4*i      *)

Key(a) == a % KeyMod

Fault == {"none",         (* the program is running                         *)
          "split",        (* assert(found) in split                         *)
          "fallsThru",    (* assert(0) in fallsThru: the block is empty     *)
          "at",           (* vecIns.at(size()-1) throws: the block is empty *)
          "removeEmpty",  (* assert(succs.size() == 0) in removeEmpty       *)
          "selfMerge"}    (* mergeWithSucc appends a vector to itself       *)

Graph == [ bbMap    : SUBSET Addr,             (* entry addresses            *)
           insMap   : [Slot -> Addr \cup {NoBlock}],
           vecIns   : [Addr -> Seq(Addr)],     (* instructions, by address   *)
           termAddr : [Addr -> Nat],
           readOnly : [Addr -> BOOLEAN],
           succs    : [Addr -> SUBSET Addr],
           preds    : [Addr -> SUBSET Addr],
           succsMap : [Addr -> SUBSET Addr],   (* the mapped blocks          *)
           fault    : Fault ]

EmptyGraph ==
  [ bbMap    |-> {},
    insMap   |-> [s \in Slot |-> NoBlock],
    vecIns   |-> [a \in Addr |-> <<>>],
    termAddr |-> [a \in Addr |-> 0],
    readOnly |-> [a \in Addr |-> FALSE],
    succs    |-> [a \in Addr |-> {}],
    preds    |-> [a \in Addr |-> {}],
    succsMap |-> [a \in Addr |-> {}],
    fault    |-> "none" ]

(* Derived views of a graph. *)
Insns(g, b)   == {g.vecIns[b][i] : i \in 1 .. Len(g.vecIns[b])}
LastPc(g, b)  == g.vecIns[b][Len(g.vecIns[b])]
IsEmpty(g, b) == g.vecIns[b] = <<>>
Edges(g)      == {e \in g.bbMap \X g.bbMap : e[2] \in g.succs[e[1]]}

-----------------------------------------------------------------------------
(* The member functions. *)

Abort(g, f) == [g EXCEPT !.fault = f]

(* basicBlock(entryAddr) *)
Construct(g, a) == [g EXCEPT !.bbMap = @ \cup {a}]

(* succsMap[b->entryAddr] = b: a block with the same key is replaced *)
MapSucc(m, c) == {x \in m : Key(x) # Key(c)} \cup {c}

(* The same for every block of a set, in the set's order (ascending entry  *)
(* address): the highest block of each key stays.                          *)
MapSuccs(S) == {x \in S : \A y \in S : Key(y) = Key(x) => y <= x}

(* addSuccessor asks fallsThru() of the block before it adds a new edge,   *)
(* and fallsThru asserts that the block has an instruction.                *)
AddSuccessor(g, b, c) ==
  IF c \in g.succs[b] THEN g
  ELSE IF IsEmpty(g, b) THEN Abort(g, "fallsThru")
  ELSE [g EXCEPT !.succs[b]    = @ \cup {c},
                 !.succsMap[b] = MapSucc(@, c),
                 !.preds[c]    = @ \cup {b}]

NewBlock_NoEdge(g, a, prev) == Construct(g, a)
(* basicBlock(entryAddr, prev) *)
NewBlock(g, a, prev) == AddSuccessor(Construct(g, a), prev, a)

AddIns_Unguarded(g, b, a) ==
  [g EXCEPT !.vecIns[b] = Append(@, a), !.insMap[a] = b]
AddIns(g, b, a) ==
  IF g.readOnly[b] THEN g
  ELSE [g EXCEPT !.vecIns[b] = Append(@, a), !.insMap[a] = b]

SetTermAddr(g, b, a) ==
  IF g.termAddr[b] # 0 THEN g ELSE [g EXCEPT !.termAddr[b] = a]

SetReadOnly(g, b) == [g EXCEPT !.readOnly[b] = TRUE]

BbInBlock(g, a) == g.insMap[a]

(* The linear search of split: where b has the instruction at a.  AddIns   *)
(* is never asked to add an address twice, so there is only one such place *)
(* (TraceReplay's OnePlace).                                               *)
Offset(g, b, a) == CHOOSE k \in 1 .. Len(g.vecIns[b]) : g.vecIns[b][k] = a

(* split moves b's instructions from a on, found at offset k, to the new   *)
(* block a, with b's outgoing edges; b keeps the head and one edge, to a.  *)
(* insMap is rewritten at b + 4*i, and b's termAddr becomes a - 4,         *)
(* whatever addresses the instructions have.                               *)
SplitInsMap_Missing(g, b, a, k) == g.insMap
SplitInsMap_Whole(g, b, a, k) ==
  [s \in Slot |-> IF s \in b .. b + Len(g.vecIns[b]) - 1 THEN a ELSE g.insMap[s]]
SplitInsMap(g, b, a, k) ==
  [s \in Slot |-> IF s \in b + k - 1 .. b + Len(g.vecIns[b]) - 1
                  THEN a ELSE g.insMap[s]]

SplitPreds_Kept(g, b, a) ==
  [x \in Addr |-> IF x = a THEN {b}
                  ELSE IF x \in g.succs[b] THEN g.preds[x] \cup {a}
                  ELSE g.preds[x]]
SplitPreds(g, b, a) ==
  [x \in Addr |-> IF x = a THEN {b}
                  ELSE IF x \in g.succs[b] THEN (g.preds[x] \ {b}) \cup {a}
                  ELSE g.preds[x]]

SplitTermAddr_AtEntry(g, b, a) ==
  [g.termAddr EXCEPT ![a] = g.termAddr[b], ![b] = a]
SplitTermAddr(g, b, a) ==
  [g.termAddr EXCEPT ![a] = g.termAddr[b], ![b] = a - 1]

Split(g, b, a) ==
  LET k == Offset(g, b, a)
  IN  [ bbMap    |-> g.bbMap \cup {a},
        insMap   |-> SplitInsMap(g, b, a, k),
        vecIns   |-> [g.vecIns EXCEPT
                        ![a] = SubSeq(g.vecIns[b], k, Len(g.vecIns[b])),
                        ![b] = SubSeq(g.vecIns[b], 1, k - 1)],
        termAddr |-> SplitTermAddr(g, b, a),
        readOnly |-> [g.readOnly EXCEPT ![a] = TRUE, ![b] = TRUE],
        succs    |-> [g.succs EXCEPT ![a] = g.succs[b], ![b] = {a}],
        preds    |-> SplitPreds(g, b, a),
        succsMap |-> [g.succsMap EXCEPT ![a] = MapSuccs(g.succs[b]), ![b] = {a}],
        fault    |-> g.fault ]

(* findBlock: the block at address a as seen from b, with the edge b -> a  *)
(* added; the block that holds a is split when a is not an entry address.  *)
FindBlock_SplitFirst(g, b, a) ==
  LET hit == {x \in g.succsMap[b] : Key(x) = Key(a)}
      own == BbInBlock(g, a)
  IN  CASE hit # {}          -> [blk |-> CHOOSE x \in hit : TRUE, graph |-> g]
        [] hit = {} /\ own # NoBlock
                             -> IF a \in Insns(g, own)
                                THEN [blk   |-> a,
                                      graph |-> AddSuccessor(Split(g, own, a), b, a)]
                                ELSE [blk |-> b, graph |-> Abort(g, "split")]
        [] OTHER             -> [blk |-> NoBlock, graph |-> g]
FindBlock(g, b, a) ==
  LET hit == {x \in g.succsMap[b] : Key(x) = Key(a)}
      own == BbInBlock(g, a)
  IN  CASE hit # {}          -> [blk |-> CHOOSE x \in hit : TRUE, graph |-> g]
        [] hit = {} /\ a \in g.bbMap
                             -> [blk |-> a, graph |-> AddSuccessor(g, b, a)]
        [] hit = {} /\ a \notin g.bbMap /\ own # NoBlock
                             -> IF a \in Insns(g, own)
                                THEN [blk   |-> a,
                                      graph |-> AddSuccessor(Split(g, own, a), b, a)]
                                ELSE [blk |-> b, graph |-> Abort(g, "split")]
        [] OTHER             -> [blk |-> NoBlock, graph |-> g]

Successor_Stay(g, b, a) ==
  LET f == FindBlock(g, b, a)
  IN  IF f.blk = NoBlock THEN [f EXCEPT !.blk = b] ELSE f
Successor_NoNew(g, b, a) == FindBlock(g, b, a)
(* The block control goes to from b: found, or constructed at a. *)
Successor(g, b, a) ==
  LET f == FindBlock(g, b, a)
  IN  IF f.blk = NoBlock
      THEN [blk |-> a, graph |-> NewBlock(g, a, b)]
      ELSE f

(* getNextBlock of main.cc: b is closed and a's block becomes current. *)
GetNextBlock(g, b, a) ==
  LET s == Successor(g, b, a)
  IN  [blk |-> s.blk, graph |-> SetReadOnly(s.graph, b)]
=============================================================================
