# rv64analyzer in TLA+

`perf_analyzer` reads the list of instructions a RISC-V core has retired and
rebuilds from it the control-flow graph of what was executed: basic blocks,
edges, edge weights.  It then analyses that graph (dominators, natural loops,
SSA form) and writes listings.  There are no threads and nothing is persisted;
the difficulty is in long sequences of legal updates of one shared, pointer-rich
table, where each step relies on what dozens of earlier steps left behind.

## 1. Inventory

| component | state | operations | uses |
|---|---|---|---|
| Block table (`basicBlock.cc/.hh`) | `bbMap` (entry address to block), `insMap` (instruction address to block), per block `vecIns`, `termAddr`, `readOnly`, `succs`, `preds`, `succsMap` | constructors, `addIns`, `addSuccessor`, `setTermAddr`, `setReadOnly`, `bbInBlock`, `findBlock`, `split`, `removeEmpty`, `mergableWithSucc`, `mergeWithSucc`, `sanityCheck` | |
| Trace replay (`main.cc`: `buildCFG`, `translateRiscv`, `getNextBlock`) | `globals::cBB`, the position in the trace, `globalEdges`, `counts` | one iteration per retired record | block table |
| Clean-up and merging (`main.cc`: `main`) | the list of empty blocks, `bbMap` | delete the empty block, merge until nothing merges | block table |
| Region (`regionCFG::buildCFG`) | `head`, `blocks`, `cfgBlocks` | choose the head, copy the graph, check reachability | merged block table |
| Dominators (`regionCFG.cc`) | `domMap`, `idombb`, `dtree_succs`, the Lengauer-Tarjan tables, `dt_dfn`, `dfrontier` | iterative and Lengauer-Tarjan dominators, tree numbering, frontiers | region |
| Natural loops (`regionCFG.cc`, `naturalLoop.cc/.hh`) | `loops`, `nestedLoops`, `children` | `findLoop`, `findNaturalLoops` | dominators |
| SSA form (`regionCFG.cc`, `cfgBasicBlock.cc`, `ssaInsn.hh`) | `gprDefinitionBlocks`, `phiNodes`, `gprPhis`, `ssaRegTbl`, `uses`, `inBoundEdges` | `insertPhis`, `traverseAndRename`, `patchUpPhiNodes`, removal of unused phis | dominators, instruction classes |
| Instruction classes (`riscvInstruction.cc/.hh`) | none | `getInsn`, `recDefines`, `recUses`, `hookupRegs` per class | |
| Trace pruning (`main.cc`, `--prune`) | the run being counted, the best run | one iteration per record | runs before the replay |
| Pipeline window (`asDot`, `dump_pipe`) | the positions of a hot block in the pipeline log, the window, the records written | search, choose the middle, write | pipeline log |
| Reports (`operator<<`, `asText`, `asDot`, `dumpIR`, `dumpRISCV`) | `counts`, sums of TIP cycles | add up, rank, order, format | everything |
| Command line, archives, disassembly, helpers | none of the analysis | input and output | |

Components call each other in one direction, in the order of the table; they
share the block table and, later, the `cfgBasicBlock` graph.

What is hard here:

* *Sequences.*  A block is built, closed, split, re-split, joined, merged and
  deleted, and three indexes (`bbMap`, `insMap`, `succsMap`) have to follow.
* *Staleness.*  `cBB` is where the replay believes execution is; `insMap` is
  recomputed by address arithmetic; `findBlock` may split the block it was
  called on and goes on using it; sets of dominators are reduced while later
  blocks still read them.
* *Order.*  Sets of blocks are ordered by heap address, so every loop over a set
  runs in an order the source does not determine; `std::sort` leaves ties open.
* *Exceptions.*  The trace shows an exception or interrupt only as a jump out of
  the middle of a block.
* *Keys.*  `succsMap` is keyed by 32 of the 64 address bits.
* *Unsigned arithmetic.*  The window around an execution starts a few records
  before it, and stays above zero only because enough executions came earlier.

Correctness, component by component:

* block table and replay: the indexes agree, no assertion fails, every edge was
  executed and every executed transition is in the graph;
* clean-up and merging: the flow of control is unchanged, the loops end, and what
  is left is rooted, as the region requires;
* region: a head is always found and no block is lost;
* dominators: both algorithms compute the same, correct tree; the constant-time
  query and the frontiers agree with the definitions;
* loops: the natural loops, nested as a forest that can be drawn as clusters;
* SSA form: every read finds the definitions that reach it, with the phis that
  are needed and no others, and is listed after what it reads;
* pruning: a longest run of user instructions is kept;
* pipeline window: it shows the execution it is meant to show, and what led to it;
* reports: every executed instruction is charged once, a block's count is that of
  its instructions, and the weights of the drawing conserve flow.

`PROJECT.json` lists the hazards line by line, with the property that covers
each.

## 2. Plan

The modules, in the order they were written, which is that of the program's
passes, the table at the heart of it first:

| module | models | builds on |
|---|---|---|
| `BlockGraph` | the block table as a value, its methods as operators | |
| `TraceReplay` | `buildCFG` of `main.cc` | `BlockGraph` |
| `ExecutedFlow` | abstract: which address followed which, with no blocks | |
| `BlockMerge` | `main()` from the trace to the region; implements `ExecutedFlow` | `TraceReplay` |
| `RegionHead` | `regionCFG::buildCFG` | `FlowGraph` (what it hands over) |
| `FlowGraph` | the flow graph and dominance, idom, frontier by definition; recursive search | |
| `DominatorTree` | abstract: the tree is computed once, correctly | `FlowGraph` |
| `Dominators`, `LengauerTarjan` | the two algorithms | `FlowGraph` |
| `ComputeDominators` | the choice between them; implements `DominatorTree` | both |
| `DominanceInfo` | tree numbering, both queries, frontiers | `FlowGraph` |
| `NaturalLoops` | `findLoop`, `findNaturalLoops` | `FlowGraph` |
| `RegionAnalysis` | numbering, frontiers and loops in sequence, and the clusters of the drawing | `DominanceInfo`, `NaturalLoops` |
| `InsnClass` | `getInsn` and what each class does to registers | |
| `SsaForm` | `bindInsns` to the removal of phis, and the listing | `FlowGraph`, `InsnClass` |
| `Reports` | counts, edge weights and charged cycles of the finished graph | `BlockMerge` |
| `PruneTrace` | `--prune` | |
| `PipeWindow` | the window of the pipeline log | |
| `TraceWindows` | both windows, cut out of the same execution | `PruneTrace`, `PipeWindow` |

and the modules of proofs, which also hold the lemmas of the module they are about:

| proofs | about |
|---|---|
| `TraceReplayProofs` | `BlockGraph`, `TraceReplay` |
| `BlockMergeProofs` | `BlockMerge`, `ExecutedFlow`, `Reports`; uses the invariants of `TraceReplayProofs` |
| `RegionHeadProofs` | `RegionHead` |
| `FlowGraphProofs` | `FlowGraph`: dominance is a tree order, a search computes the least closed set, depth-first trees and semidominators |
| `ComputeDominatorsProofs` | `ComputeDominators`, so `Dominators`, `LengauerTarjan` and `DominatorTree` |
| `RegionAnalysisProofs` | `RegionAnalysis`, so `DominanceInfo` and `NaturalLoops` |
| `SsaFormProofs` | `SsaForm` |
| `TraceWindowsProofs` | `PruneTrace`, `PipeWindow`, `TraceWindows` |

The passes are composed where one reads what another computed step by step:
`Reports` continues `BlockMerge`, which continues `TraceReplay`; `RegionAnalysis`
runs `DominanceInfo` and then `NaturalLoops`, whose dominance is the constant-time
query; `TraceWindows` runs `PipeWindow` after `PruneTrace`.  Elsewhere they are
chained by their promises: `BlockMerge` ends in a rooted graph (`Rooted`, proved);
`RegionHead` starts from every rooted graph and ends in `FlowGraphs`
(`EntersAnalysis`, proved); the analyses start from every element of `FlowGraphs`;
`DominanceInfo` starts from the tree `ComputeDominators` is proved to compute
(`DominatorsAreRight`);
`SsaForm` uses the tree and the frontiers `RegionAnalysis` is proved to compute.

What is left, in order of interest:

1. Immediates and branch targets of the instruction classes as width-w
   arithmetic.
2. Exceptions in the clean-up and merging run.

## 3. How the modules correspond to the code

`PROJECT.json`'s map gives, for every definition, the lines it stands for.  What
follows are the choices that cannot be read there.

**`BlockGraph`.**  The heap is one record `g`: each field is a function from
entry address to the member of that name, blocks being named by their entry
address (`bbMap` is the set of those that exist).  Instructions are one word
apart, so the code's `+4` is `+1`.  `Key(a)` is `a % KeyMod`, the cast to
`uint32_t`.  `succsMap` is the set of blocks it holds, at most one per key;
`insMap` is total on `Slot`, which includes addresses that only the arithmetic in
`split` can produce.  A failed assertion or an out-of-range `at()` sets
`g.fault`, after which nothing more happens: `NDEBUG` is not defined in the
build, so assertions are active.

**`TraceReplay`.**  The program text and the trace are the environment.  `code`
gives each address a class; each step chooses the next record among the addresses
that may follow.  One iteration of the loop is one action: `Stay`, `Leave`,
`Build` and `Join` are its four ways through, after the resynchronisation and the
edge count that all share.  With `Traps` any address may follow any instruction.

**`BlockMerge`.**  `CleanStep`, `EndClean`, `MergeStep`, `EndMerge` are the loops
of `main()`; the merge loop restarts at the lowest block after every merge, as
the code does by leaving the loop over `bbMap`.  `EndClean` chooses whether
`--merge` is set.

**`RegionHead`.**  The three ways to find the head, each an action or two;
`Component` is a turn of the loop over the finish list, in any order but for the
first, which is that of `region[0]`.

**`Dominators`, `LengauerTarjan`, `DominanceInfo`.**  One action per loop
iteration or recursive call.  A recursive depth-first search is the sequence of
blocks visited so far, the call stack being a function of it (`Frame`).  Loops
over a set choose any element.  Bitsets over visit numbers are sets of blocks.

**`NaturalLoops`, `RegionAnalysis`.**  `findLoop`'s stack is a set: pushing a block
twice or taking another one first does not change the loop.  The sort is any
sequence ordered by size.  `MaxLoop` is the code's limit of blocks in a loop.
`NaturalLoops` by itself is specified with dominance by definition (and is what
the run `twin_loops` checks); `RegionAnalysis` replaces the choice of the back
edges by the code's, which asks `fastDominates`.  The code runs the outer loops
over all edges and asks the query for each; the query only reads, so its answers
are collected in one step.  `Drawn` is `emitGraphviz`'s recursion over children.

**`SsaForm`.**  Registers do not influence one another, so one is modelled; a
block has one instruction, whose effect on the register is any that a legal
RV64IMA word has in `InsnClass`.  `changes` is the only part of an effect that is
not read from `riscvInstruction.cc`: it is what the processor does, and gives
`ReadsReach` its reference.  `inBound`, `uses` and `phis` are the pointers between
values.  The listing is a depth-first search over successors whose finishing order
is reversed: `calls` is its stack, `topo` what it has finished.

**`Reports`.**  Counters are not capped here, the trace is (`MaxTrace`).  `counts` is
the second effect of an iteration of `buildCFG`, next to `globalEdges`.  The
listing's figures are operators over the final state: which places show an
instruction (`Shown`), and the label of an edge (`Weight`), which the code looks up
by `termAddr` and entry address.

**`PruneTrace`.**  Positions count from 1.  A trace is a sequence of an address
and whether that address is a kernel one.

**`PipeWindow`, `TraceWindows`.**  A record of the log is whether it executes the
block's first instruction; `SearchRecord` and `DumpRecord` are one record of the two
loops over the log, `Middle` the execution chosen.  `start` and `stop` are taken
modulo `Word`.  `Least`, `Before`, `After` and `Word` are 10, 4, 128 and 2^64 in the
code.  `dump_pipe` compares with positions counted from 1, the search counts from 0,
and the model keeps both.  In `TraceWindows` the log is that of the recorded
execution, of which `--prune` cut the trace but not the log.

## 4. What is checked

| run | module | states | what it shows |
|---|---|---|---|
| `replay` | `MCTraceReplay` | 2.5 M | without exceptions no assertion fails (`NoFault`), `insMap` is exact in both directions, the test `regionCFG` asserts holds (`SanityCheck`), every edge was executed and its weight is where the listing looks (`EdgesExecuted`), every executed transition is in the graph (`EdgesComplete`), no executed instruction is lost (`NothingLost`) |
| `replay_traps` | `MCTraceReplay` | 1.8 M | with an exception after any instruction: edges stay symmetric and no branch is inside a block (`SanityCheck`), every instruction is in one place (`OnePlace`), of all assertions only that of `split` can fail (`OnlySplitFails`), and a branch that `insMap` still has in its built block leaves its edge there (`MappedEdgeKept`) |
| `pipeline` | `MCBlockMerge` | 0.1 M | replay, clean-up and merging implement `ExecutedFlow` (`FlowSpec`), end (`Finishes`), leave a rooted graph (`Rooted`), fail only when the whole graph is one self-loop (`MergeFault`), and misplace only what follows a merged system instruction (`ListingExact`) |
| `region_head` | `RegionHead` | 0.6 M | no assertion, no `die()`, no block dropped (`RegionComplete`), a flow graph results (`EntersAnalysis`), a head is found (`HeadFound`) |
| `dominators` | `MCComputeDominators` | 0.24 M | both algorithms implement `DominatorTree`, termination included (`DominatorTreeSpec`), with the facts that explain why: a sweep never loses a dominator (`SweepsSound`), labels and compressed ancestor chains answer as the uncompressed forest would (`LinksSound`) |
| `region_analysis` | `RegionAnalysis` | 0.65 M | both queries are dominance (`QueriesAgree`); the frontier walk never falls off the tree and the frontiers are right (`FrontierExact`); the loops found by the query are the natural loops (`LoopsExact`), nested as a forest (`Forest`) that can be drawn (`ClustersNest`); the assertion fails only for twin loops (`AssertOnlyTwins`); the nesting loop ends (`Terminates`) |
| `ssa_form` | `SsaForm` | 0.96 M | no null value is used (`NeverNull`), every read finds the reaching definitions (`ReadsReach`), no phi is superfluous (`PhiNeeded`), nothing printed refers to a deleted phi (`ErasedUnused`), every value is listed before its readers (`ListedBeforeUse`) |
| `reports` | `MCReports` | 2.1 M | every executed instruction is charged once (`CyclesOnce`), a block's count is that of all its instructions (`CountsUniform`), weights conserve flow (`WeightsAddUp`), each up to the two ends of the trace and the transitions known to be lost |
| `trace_windows` | `TraceWindows` | 0.7 M | `KeepsLongest`; when the first access to the pruned trace is undefined (`NothingKept`); the pipeline window shows the middle execution and what precedes it (`WindowShowsMiddle`) |

Each property has a mutant: a plausible slip in one mapped definition (a dropped
reset, a missing edge, a guard left out) with which the run fails.

### Findings

Three runs end in a violation of what the code itself says.

* `stale_resync`: the resynchronisation (`main.cc:136-147`) exists so that no
  successor edge of a built block is silently dropped; with exceptions it drops one
  itself (`TakenEdgeKept`).  It looks the block of `ir.pc` up in `insMap`.  Execution
  starts at 2 and an exception takes it to the branch at 4, so block 2 is `<<2, 4>>`.
  The branch jumps to itself, and the split leaves blocks `<<2>>` and `<<4>>`, but
  `insMap` has 3, not 4, in block 4.  `cBB` is block 4, which is right; the next
  record, at 4, moves it to block 2, whose `termAddr` is not 4, and the edge taken
  from block 4 is not recorded.  `MappedEdgeKept` in `replay_traps` is what remains
  true: the edge is kept as long as `insMap` has the instruction in the block it is in.
  The same cause has a louder effect: the block `insMap` names can be split at an
  address that it no longer holds, and `assert(found)` (`basicBlock.cc:268`) fails.  With `NoFault` instead of
  `OnlySplitFails` the run `replay_traps` ends there; `OnlySplitFails` says that no other
  assertion is within reach.
* `dropped_edge`: when a block's last instruction jumps into the middle of the
  same block, `findBlock` splits the block it was called on; the edge is not
  recorded until the jump is taken again.  The comment at `main.cc:137-140`
  describes silently dropped edges as what the resynchronisation prevents.
* `twin_loops`: `assert(not(a->isSameLoop(*b)))` (`regionCFG.cc:1151`) fails for
  two latches of one head that reach each other: each gets a loop of its own, with
  the same blocks.

Seen while reading, and not the subject of a run:

* `sanityCheck`'s second loop compares an iterator of `succs` with
  `preds.end()` (`basicBlock.cc`, about line 511).
* An empty region (a trace of one record) reads `region[0]`.
* `getInsn` ends the program on `ecall`, `uret` and `hret`, which the replay
  accepts as ends of a block.  `SsaForm` models it (`Bind`, phase `dead`).
* Floating-point opcodes get the base class, which touches no register, although
  some of them write an integer register.
* Some classes overwrite the value table's entry of x0 (load, immediate, register,
  lui, auipc, jalr): a later read of x0 is then printed as that value.
  `ReadsReach` excludes x0; `NeverNull` does not.
* A phi used by nothing but an erased phi stays in the listing without a use:
  erasing looks at every phi once (`regionCFG.cc:527`).
* `--prune` never keeps a run that the end of the trace ends; an all-user trace is
  pruned to nothing and `begin()->pc` is then read.
* `asText` and `asDot` look TIP cycles up with `tip[p.pc]`, which inserts what is
  missing, so the warning for a missing address is never printed.
* The message before `dump_pipe` announces one record less than are written, and
  the window is taken from the whole log even when the trace was pruned.
* The block under construction when the trace ends has no edge to what follows and
  keeps `termAddr` as it was.  `CountsUniform` and `WeightsAddUp` allow for it.
* Loops of one head can overlap without being nested; their clusters then overlap.
* The listing prints `andw` for `addw` and `andn` for `remw`; the decoder has
  unreachable cases for `cpopw` and `sh3adduw`.

### Bounds, and why they are enough

* *Replay* (`Lo`=2, `Hi`=5, `MaxFlow`=2): four instructions and two that end a
  block are the smallest program in which a block is split, split again, joined
  and jumped into, and its parts loop to each other and to themselves.  The
  addresses start at 2, so that `termAddr` of a split at the lowest address stays
  above 0.  `KeyMod`=3 makes 2 and 5 share a key, so both collision and
  distinctness occur; in the other runs keys are distinct (64).
  `EdgeCap`=2 tells apart the transitions taken never, once and repeatedly, which
  is all a property asks; where weights do not matter it is 0.  With exceptions
  every instruction is followed by any address, so one branch is enough and is
  fixed at 4; the states would not fit otherwise.
* *Pipeline*: the same programs, with every way of splitting four instructions
  into blocks that merging can then undo.
* *Reports*: traces of up to `MaxTrace`=12 records over the same four instructions
  go round every loop at least twice, and are not capped otherwise (`EdgeCap`=12).
* *Graphs of four blocks* (region, frontiers, loops, SSA): every graph, with any
  edges.  They include irreducible ones, nested, adjacent and twin loops, blocks
  that branch to themselves, and joins of three edges.  *Five blocks* for the
  dominators, because path compression does something only on a path of length
  three: every graph that is a tree and up to three more edges.  In every case all
  iteration orders are explored.
  `MaxLoop`=3 leaves out the loop of all blocks, and `MaxJumpy`=1 block with a jump
  is enough to skip a loop and keep another.
* *Windows*: traces and logs of up to six records hold three runs and two ties, or
  six executions.  The window's sizes are scaled to that, keeping the relation that
  counts, `Least` >= 2 * (`Before` + 1): `Least`=4, `Before`=1, `After`=3; `Word`=32
  lets a subtraction below zero show.

### Fairness

The program is one thread.  `region_head`, `dominators` and `region_analysis`
assume `WF_vars(Next)`: sequential code goes on; `SsaForm`
states it too, though its run asks for no liveness.  `BlockMerge` assumes
weak fairness of the trace's end, because the trace is a list in memory and every
iteration consumes a record, and of the loops after it; it assumes nothing about
which branch the program in the trace takes.  No strong fairness is used.

`CHECK_DEADLOCK FALSE` stands in the runs of `TraceReplay` only: it ends when the
trace does, or at a failed assertion.  All other modules have an explicit `Done`.

## 5. What is proved

Proved by TLAPS, for every value of the constants:

| theorem | module | says |
|---|---|---|
| `TypeCorrect` | `TraceReplayProofs` | `Spec => []TypeOK` |
| `GraphSymmetric` | `TraceReplayProofs` | `Spec => []Symmetric`, with exceptions and key collisions |
| `ReplayNeverAborts` | `TraceReplayProofs` | `~Traps` implies `Spec => []NoFault`: no assertion of the block table fails |
| `InsMapIsExact` | `TraceReplayProofs` | `~Traps` implies `Spec => []InsMapExact` |
| `JumpsEndBlocks`, `BlocksAreSane` | `TraceReplayProofs` | `Spec => []NoInnerBranch`, `Spec => []SanityCheck`, with exceptions |
| `InstructionsOnce` | `TraceReplayProofs` | `Spec => []OnePlace`, with exceptions |
| `OthersNeverFail` | `TraceReplayProofs` | `Spec => []OnlySplitFails`, with exceptions and key collisions |
| `EdgesWereExecuted` | `TraceReplayProofs` | `~Traps`, `EdgeCap > 0` imply `Spec => []EdgesExecuted` |
| `NothingIsLost` | `TraceReplayProofs` | `~Traps`, `EdgeCap > 0` imply `Spec => []NothingLost` |
| `TakenEdgesAreKept` | `TraceReplayProofs` | `~Traps`, `DistinctKeys` imply `Spec => TakenEdgeKept`, the action property |
| `MappedEdgesAreKept` | `TraceReplayProofs` | `DistinctKeys` implies `Spec => MappedEdgeKept`, what exceptions leave of it |
| `EdgesAreComplete` | `BlockMergeProofs` | `~Traps` implies `Spec => []EdgesComplete` |
| `GraphIsRooted` | `BlockMergeProofs` | `~Traps` implies `MainSpec => []Rooted` |
| `OnlySelfMergeFails` | `BlockMergeProofs` | `~Traps` implies `MainSpec => []MergeFault` |
| `ListingIsExact` | `BlockMergeProofs` | `~Traps` implies `MainSpec => []ListingExact` |
| `RegionBlocksAreSane` | `BlockMergeProofs` | `MainSpec => []SanityCheck`, with exceptions |
| `GraphImplementsFlow` | `BlockMergeProofs` | `~Traps`, `DistinctKeys` imply `MainSpec => FlowSpec`, the refinement |
| `CyclesChargedOnce` | `BlockMergeProofs` | `~Traps`, `DistinctKeys` imply `ReportSpec => []CyclesOnce` |
| `CountsAreUniform`, `WeightsDoAddUp` | `BlockMergeProofs` | `~Traps`, `DistinctKeys`, `EdgeCap > 0` imply `ReportSpec => []CountsUniform`, `ReportSpec => []WeightsAddUp` |
| `HeadKeepsAll`, `RegionIsFlowGraph` | `RegionHeadProofs` | `Spec => []RegionComplete`, `Spec => []EntersAnalysis` |
| `SweepsAreSound` | `ComputeDominatorsProofs` | `Spec => []SweepsSound` |
| `LinksAreSound` | `ComputeDominatorsProofs` | `Spec => []LinksSound` |
| `DominatorsAreRight` | `ComputeDominatorsProofs` | `Spec /\ <>(phase = "done") => DominatorTreeSpec`, the refinement by both algorithms |
| `QueriesAreRight` | `RegionAnalysisProofs` | `Spec => []QueriesAgree` |
| `FrontiersAreExact` | `RegionAnalysisProofs` | `Spec => []FrontierExact` |
| `LoopsAreExact` | `RegionAnalysisProofs` | `Spec => []LoopsExact` |
| `NestingIsForest` | `RegionAnalysisProofs` | `Spec => []Forest` |
| `OnlyTwinsAssert` | `RegionAnalysisProofs` | `Spec => []AssertOnlyTwins` |
| `LoopsAreLaminar`, `DrawnClustersNest` | `RegionAnalysisProofs` | `Spec => []Laminar`, `Spec => []ClustersNest` |
| `EveryReadHasValue` | `SsaFormProofs` | `Spec => []NeverNull` |
| `ReadsFindTheirDefs` | `SsaFormProofs` | `Spec => []ReadsReach` |
| `PhisMergeValues` | `SsaFormProofs` | `Spec => []PhiNeeded` |
| `ErasedPhisUnused` | `SsaFormProofs` | `Spec => []ErasedUnused` |
| `ListingIsOrdered` | `SsaFormProofs` | `Spec => []ListedBeforeUse` |
| `PruneKeepsLongest` | `TraceWindowsProofs` | `Spec => []KeepsLongest` |
| `PrunedToNothing` | `TraceWindowsProofs` | `Spec => []NothingKept` |
| `WindowIsShown` | `TraceWindowsProofs` | `WindowSpec => []WindowShowsMiddle` |

*Assumptions.*  Those of the modules: addresses are a range of positive integers,
`KeyMod` is positive, `Traps` is Boolean, `EdgeCap` a natural number, the set of
blocks is finite, the traces are sequences of records, enough executions are asked
for to leave room for the window (`Least >= 2 * (Before + 1)`), and a log fits an
unsigned number.  Where the table says `~Traps` the theorem has to: `stale_resync`
is a counterexample to what rests on an exact `insMap`.  `DistinctKeys` says that no two
addresses share a key: with a shared key an edge may not be recorded, and the graph
does not implement the execution.  `EdgesAreComplete` and `NothingIsLost` do without it,
because their properties are stated for executions that met no foreign key
(`KeysApart`).  `EdgeCap > 0` is needed where counts are the evidence, for with the cap
at 0 nothing is ever counted.

*`TypeCorrect` and `GraphSymmetric`* need that no pointer dangles.  Symmetry alone
is not inductive: `split` moves the edges of one block to another and creates a
block, and its result is well typed only if `insMap` and `succsMap` lead to blocks
that exist.  `GraphInv` is `TypeOK`, `WellFormed(g)` (symmetry, and every pointer in
the table leads into `bbMap`) and `cBB \in g.bbMap`.  There is one lemma for every
method of the block table, then one per way through the loop.

*`ReplayNeverAborts` and `InsMapIsExact`* need to know where instructions are.
`LaidOut` says that a block's instructions are at consecutive addresses from its
entry and that `insMap` says exactly that; so the arithmetic in `split` is right
and its search finds its address.  `Settled` adds that every block but the
current one is closed and not empty, and that the current one, when open, is
continued by the next record: so no edge leaves an empty block, and `Join` is
never entered with an empty one.  `ReplayInv` is `GraphInv` and `Settled`.

*`BlocksAreSane` and `InstructionsOnce`* cannot use `LaidOut`, which exceptions
break.  `Form` keeps what they leave: a block that holds a branch anywhere but at its
end does not exist, the open block does not end with one, and every instruction
has one place and is known to `insMap`, if perhaps under a wrong block; an address
unknown to `insMap` is in no block, so `addIns` cannot put it in twice.

*`OthersNeverFail`.*  The other assertions are about empty blocks.  Only the current block
can be empty, and then its first record is next and unknown to `insMap` (`Waits`), so it
is neither left nor joined to another before it has an instruction.  A block begins with
its entry address (`Filled`), so a split that finds its address leaves both halves
something.  `FilledInv` adds both to the form of blocks.

*`EdgesWereExecuted`.*  `Flow` says that the instructions of a block were executed one
after the other, that a closed block ends at its `termAddr`, that an open one has
no edges yet, and that every edge was executed from the last instruction of its
block.  So the edge `split` puts between the two halves was executed too.  `Awaits`
says that the open block's last instruction has led to the present record, which is
where its next edge goes.  `EdgeInv` is `ReplayInv`, the form of blocks, `Flow` and
`Awaits`.

*`NothingIsLost`*.  `LostInv` adds to `EdgeInv` that a closed block that ends with a
plain instruction is followed by an address known to `insMap` (`PlainNext`).  With keys
apart, a read-only current block then has its present instruction in `insMap`
(`Entered`), and so has everything that was executed: control in a read-only block
adds nothing, and nothing is missing there.  `KeysApart` is needed exactly where
`findBlock` trusts a key.

*`MappedEdgesAreKept` and `TakenEdgesAreKept`.*  With exceptions a split can do two wrongs: it
can map instructions to the wrong block, and give the first half a wrong `termAddr`, by which
the replay recognises the end of a built block.  The first is fatal, as `stale_resync` shows,
and `MappedEdgeKept` excludes it.  `EndedInv` says why the second alone loses no edge: a built
block whose last instruction transfers control has that instruction at its `termAddr`
(`Ended`), because such an instruction goes with the second half, which keeps the `termAddr`.  It also says that blocks begin with their entry
address, so a split leaves no empty first half, and that `succsMap` holds nothing `succs`
does not.  When a block under construction runs into the end of a built one, that end is
split off first and is then a block of its own (`BeginsAndEnds`), from which the edge is
made.  Without exceptions `ReplayInv` adds that `insMap` is exact (`LastMapped`), and the
proviso falls away: that is `TakenEdgesAreKept`.

*`EdgesAreComplete`.*  `Pair` is what the graph says may follow: two neighbours in a
block (`Inner`), or a block's end and a successor (`Outer`).  A split turns an inner
pair into an outer one, and leaves all pairs what they were (`SamePairs`).  `Linked` says
that `succsMap` holds nothing `succs` does not (`Mapped`), and that a closed block ends in
a jump or goes on to the next address (`Onward`), so that a branch not taken needs no
edge of its own.  `CompleteInv` then says of every pair that was executed that it is in
the graph, or is a jump back into the block it ends, seen once (`Met`): the second time
the block is split and the edge is made.

*`GraphIsRooted`, `OnlySelfMergeFails`, `ListingIsExact`.*  The trace is one path, so its
first block reaches every block; `Spans` says so of a graph as sets closed under
successors.  There is a lemma for each method of the table: a new edge, a split, a
deletion of a block without successors and a merge each let what spanned before span
after (`Carries`).  That suffices as long as the block deleted is not the only one that
reaches the others: it has no successors.  `MergeFault` needs to know what a block may
look like when the trace has ended (`Ready`): empty and without successors, or with its
own address first, and followed by the next address alone if its last instruction is
plain.  `Exact` is `ListingExact` as a property of a graph, so that it can be carried
through merges.  `TrailInv` joins these; the part about the replay (`PathInv`) says that
the edges are among those an execution without exceptions can take.

*`RegionBlocksAreSane`* holds with exceptions too.  `Ready` does not, but merging only
joins a block that falls through, and what falls through ends in no jump.

*`GraphImplementsFlow`*.  A step of the replay adds the pair just executed, or nothing
when it jumps back (`Observed`), as the abstract specification allows; a clean-up or merge
step changes neither the pairs nor the addresses known.  `FlowInv` adds to `TrailInv` that
`insMap` owns every instruction of a block (`Held`) and that only the block the trace
ended in can be empty (`Trimmed`), which is why deleting it loses no pair.  `MergeTable`
is the lemma about `mergeWithSucc`: the pair at the seam becomes an inner pair.

*`CyclesChargedOnce`.*  What is known to `insMap` is what has been counted, and in the
finished graph every such address is in a block (`Listed`) at one place (`Unique`).  Both
survive a merge because the blocks joined are disjoint.

*`CountsAreUniform`, `WeightsDoAddUp`.*  The library defines a sum by taking the elements
one at a time, in an order nobody knows.  A sum of numbers over a finite set is shown to be
the number of its units, `f[x]` of them at each `x` (`SumIsUnits`); the laws of sums are
then facts about cardinalities (`SumSplit`, `SumStep`, `SumImage`).  Replay counts an
execution and then the way taken from it, so every row of `globalEdges` adds up to the
count of its address, but for the present record, and every column, but for the first one
(`Balanced`).  This needs that no weight is at its cap: fewer records are replayed than
`MaxTrace`, which is at most `EdgeCap`.  It remains to say which ways are in the graph.
Those that are not, the lost ones, lead back or to the last record and were taken once
(`Missed`): a second time the block would have been split.  At the end of the trace that
is `CompleteInv`, except for the way from the block under construction to the last record,
which was taken once because the open block's last instruction has been executed for the
first time (`OpenOnce`).  Clean-up and merging lose no further pair, nor do they change
where the weight of an edge is looked up (`Tipped`).  So each row is a sum over the graph
plus the lost ways (`GoesOn`), and each column (`CameFrom`).  Inside a block the graph
knows one way on and one way in (`InnerWays`); at its ends it knows the block's edges
(`OuterWays`).

*`HeadKeepsAll`, `RegionIsFlowGraph`.*  The recursive search of `RegionHead` is shown to
compute the least set that holds its start and is closed under successors (`DfsLeast`):
the definition is unfolded as rounds, each adding the successors of the one before, and
there are as many as there are blocks.  Then a block without predecessors that exists in
a rooted graph is its root; if there is none, the block a strongly connected component
without a predecessor starts from is one; and the largest reach is that of the root
(`Counted`, `PredlessInv`, `ComponentsInv`, `ReachInv`).

*`SweepsAreSound`.*  No sweep loses a dominator, because a block's dominators other
than itself dominate its predecessors; the order plays no part in this.  `Balanced`
says that while no set has changed in a sweep, those passed are what their
predecessors' sets make them.  After a sweep without a change all are; then the
blocks that `a` is not said to dominate include the entry and can only be left
through `a`, which is what it means that `a` dominates the others.

*`DominatorsAreRight`, the sweeps.*  The extraction reads sets that it has itself
reduced.  It visits the blocks in the order of the search, in which a block's
dominators come before it (`DominatorsFirst`), so each of them has been reduced to its
immediate dominator (`Extracting`); taking those away from the strict dominators of a
block leaves the one that is nobody's immediate dominator among them, which is its own
(`OnlyIdomLeft`, `ReducedIsIdom`).

*`LinksAreSound`, and `DominatorsAreRight` for Lengauer-Tarjan.*  The first half is about
graphs (`FlowGraphProofs`).  `SearchTree` describes the tree of a depth-first search while
it grows; when the search is over it is a `DfsTree`: an edge to a higher number leads to a
descendant.  `High(w)` is the set of blocks from which a path leads to `w` through blocks
numbered above `w`, and `Low(w)` the lowest number of a block with an edge to one of them,
the semidominator.  If no block between `w` and its semidominator has a lower one, the
semidominator is the immediate dominator of `w` (`LowIsIdom`); otherwise the block with
the lowest one has the same immediate dominator as `w` (`SameIdom`).  `LowIsLeast` is what
the first pass computes: the least number that the predecessors of `w` tell it, each its
own or the lowest semidominator of its ancestors above `w`.

The second half is the invariant `LinkInv` of the passes.  Every ancestor link leads up
over linked blocks and the label is the lowest of those it skips (`Linking`), so the
recursion that compresses a path finds the lowest block of the whole path
(`CompressedPath`) and leaves the invariant as it was (`CompressKeeps`).  `Asking` says
what the block in hand has learnt.  A block waits in the bucket of its semidominator until
the path below the latter is linked (`Waiting`); when its bucket is emptied exactly that
much is (`BucketTop`), and it is given its immediate dominator or a block that has the
same one (`Provided`), which the second pass turns into the immediate dominator because it
goes down from the entry.  The definition of the semidominator in the model, by paths, is
shown to be `Low` (`SemiIsLow`).

*`QueriesAreRight`.*  Dominance is a partial order, by the definition; that every
block has an immediate dominator is an induction over the graph, which `Connected`
allows without an induction theorem: the blocks whose sets of dominators have a
lowest element are closed under successors.  `NumberInv` then says, in the middle of
the depth-first search, that what is numbered is closed under dominators, that the
calls that have not returned dominate all that was numbered since, and that the
interval of a call that has returned holds what its block dominates.  When the stack
is empty everything is numbered.  The walk is a recursive function; dominance is
shown to be the only solution of its equation.

*`FrontiersAreExact`.*  `FrontierInv`: no wrong block is in a frontier, and all blocks
that belong there for a predecessor already walked from are, but for those above the
runner, which stays below the block's immediate dominator.  A block with one
predecessor, which the code skips, ends no dominance.

*`LoopsAreExact`.*  `LoopInv`: what `findLoop` has met belongs to the natural loop, and
the predecessors of what it has taken have been met; with an empty stack that is the
loop, for the head dominates the latch and so is met before the entry.  The edges it
starts from are the back edges by `QueriesAreRight`.

*`NestingIsForest`.*  The scan knows that none of the loops it has passed lies in a
later one (`Scanned`), and the list is sorted without repetition (`Sorted`), so the
first loop around the present one is a smallest around it, among those still listed.
`Placed` says that no listed loop lies inside one that was taken out, so it is a
smallest among all; and that a loop taken out got its one parent then.

*`OnlyTwinsAssert` and `LoopsAreLaminar`.*  The head of a natural loop dominates its
blocks.  Two loops with the same blocks have heads that dominate each other.  If two
loops share a block and one head is strictly above the other, the lower head is in the
upper loop, and with it the whole lower loop.

*`DrawnClustersNest`.*  Every loop taken out of the list is below the smallest loop
around it, which is larger, so the chain of parents ends at a loop that is still listed;
the recursion of `emitGraphviz` from there meets the loop (`AllDrawn`).

*The SSA theorems* share one invariant, `IInv`.  `Placing`: what the work list is done with
is closed under the frontiers.  `Walking`: the table of a block on the path of the tree
walk holds the value of the lowest block at or above it that makes one (`Tabled`,
`Lowest`); this is where the frontiers matter, because a block and its predecessor that
is not its parent in the tree see different makers exactly when a frontier lies between,
and there a phi is.  `PatchInv` gives each phi the tables of its predecessors as inputs.
`EveryReadHasValue` follows since the entry is a maker whenever the register is read or
defined.  For `ReadsFindTheirDefs` both sides are least solutions of equations over the
graph, computed in as many rounds as there are blocks: what a table entry stands for,
through phis, is what reaches the block, and conversely (`Renamed`).  `PhisMergeValues`
uses that a block in a frontier has a predecessor whose table differs (`Needed`).
`ErasedPhisUnused` needs that `uses` holds every reference there is (`UsesInv`).
`ListingIsOrdered` needs that the stack of the search holds the dominators of its blocks in
order, and that a finished block's dominators are on the stack or finished later
(`Searching`).

*`PruneKeepsLongest`, `PrunedToNothing`.*  That the best run so far is a longest one
says nothing of the run being counted.  `PruneInv` adds that the current run reaches
back to `curr_start`, before which there is a kernel instruction or nothing, so any
run that ends at the present record is no longer than it.

*`WindowIsShown`.*  The i-th position found is at least i - 1, so the middle one of
enough is at least `Before`: neither the subtraction nor the addition wraps.  What has
been written is always everything of the window up to the present record.

## 6. What is only model-checked

Every invariant and action property that a passing run checks is a theorem.  What
remains:

* Liveness (`Finishes`, `HeadFound`, `Terminates`): beyond the prover.  Of
  `DominatorTreeSpec` it is the end of the two algorithms, which is the hypothesis of
  `DominatorsAreRight`; the run checks it.
* The three runs that end in a violation, which are counterexamples.

## 7. What is not modelled

* Of the reports: how hot blocks and loops are ranked, the quotients of cycles and
  counts, which are floating-point, and all formatting.  What they count and add up,
  the addresses they print and the order of the listings are modelled.
* Command line, archives and their serialisation, disassembly through capstone,
  stack traces: input and output.
* Immediates, addresses and printing of instructions.
* `basicBlock::toposort`, `repairBrokenEdges`, `dropAllBBs`, compile-and-execute leftovers:
  `main()` does not reach them, or they find only empty containers.
* Edge weights beyond the difference between none, one and more, outside `Reports`.

## 8. Running

`tlc -workers 2 -config <cfg> <module>` for each run in `PROJECT.json`, and `tlapm`
for each module whose name ends in `Proofs`.  The longest run takes about two minutes
on two cores, the longest proof (`BlockMergeProofs`) about nine.
