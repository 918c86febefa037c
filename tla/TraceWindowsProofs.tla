------------------------- MODULE TraceWindowsProofs -------------------------
(***************************************************************************)
(* --prune keeps a longest run of user instructions, whatever the trace.   *)
(*                                                                         *)
(* The window of the pipeline log shows the middle execution, whatever the *)
(* log and the sizes, as long as twice as many executions are asked for as *)
(* records before the middle one, and one more each.                       *)
(***************************************************************************)
EXTENDS PruneTrace, PipeWindow, TLAPS

-----------------------------------------------------------------------------
(* The inductive invariant.  Of the records before p, the best run is one  *)
(* of user instructions, no run that a kernel instruction ends is longer,  *)
(* and the current run reaches back to curr_start, where a kernel          *)
(* instruction, or the start of the trace, stands.                         *)

Types ==
  /\ recs \in Seq(Record)
  /\ p \in 1 .. Len(recs) + 1
  /\ in_neg \in BOOLEAN
  /\ best_start \in Nat /\ best_len \in Nat /\ curr_start \in Nat

BestRun ==
  /\ best_start + best_len <= p - 1
  /\ UserRun(best_start + 1, best_start + best_len + 1)

Longest ==
  \A i, j \in 1 .. p - 1 : i <= j /\ recs[j].neg /\ UserRun(i, j) => j - i <= best_len

InKernel == in_neg => p > 1 /\ recs[p - 1].neg

CurrentRun ==
  ~in_neg => /\ curr_start <= p - 1
             /\ UserRun(curr_start + 1, p)
             /\ curr_start = 0 \/ recs[curr_start].neg

Pruned == p = Len(recs) + 1 /\ records = Window

Kept ==
  /\ phase = "scale" => Pruned
  /\ phase \in {"start", "undefined"} => Pruned \/ records = recs
  /\ phase = "undefined" => records = <<>>

PruneInv == Types /\ BestRun /\ Longest /\ InKernel /\ CurrentRun /\ Kept

LEMMA PruneInit == Init => PruneInv
<1> SUFFICES ASSUME Init PROVE PruneInv
  OBVIOUS
<1>1. recs \in Seq(Record)
  BY TracesAssumption DEF Init
<1>2. Len(recs) \in Nat
  BY <1>1
<1>3. p \in 1 .. Len(recs) + 1
  BY <1>2 DEF Init
<1>4. Types
  BY <1>1, <1>3 DEF Init, Types
<1>5. BestRun /\ Longest /\ InKernel /\ CurrentRun
  BY DEF Init, BestRun, Longest, InKernel, CurrentRun, UserRun
<1>6. Kept
  <2>1. phase \in {"scan", "start"} /\ records = recs
    BY DEF Init
  <2> QED BY <2>1 DEF Kept
<1> QED
  BY <1>4, <1>5, <1>6 DEF PruneInv

(* A run that ends at the record p is no longer than the current run, and  *)
(* empty between two kernel instructions.                                  *)
LEMMA RunAtP ==
  ASSUME PruneInv, p <= Len(recs),
         NEW i \in 1 .. p, UserRun(i, p)
  PROVE  p - i <= IF in_neg THEN 0 ELSE NumUser
<1>1. CASE in_neg
  <2>1. p - 1 >= 1 /\ recs[p - 1].neg
    BY <1>1 DEF PruneInv, Types, InKernel
  <2>2. ~(p - 1 \in i .. p - 1)
    BY <2>1 DEF UserRun
  <2>3. i = p
    BY <2>2 DEF PruneInv, Types
  <2> QED
    BY <1>1, <2>3 DEF PruneInv, Types
<1>2. CASE ~in_neg
  <2>1. curr_start = 0 \/ recs[curr_start].neg
    BY <1>2 DEF PruneInv, CurrentRun
  <2>2. ~(curr_start \in i .. p - 1)
    BY <2>1 DEF UserRun, PruneInv, Types
  <2>3. curr_start < i
    BY <1>2, <2>2 DEF PruneInv, Types, CurrentRun
  <2> QED
    BY <1>2, <2>3 DEF NumUser, PruneInv, Types
<1> QED
  BY <1>1, <1>2

(* No run that ends before or at p is longer than the best one, if those   *)
(* that end at p are not.                                                  *)
LEMMA LongestNext ==
  ASSUME PruneInv, p <= Len(recs), p' = p + 1, recs' = recs, best_len' \in Nat,
         best_len' >= best_len,
         recs[p].neg => \A i \in 1 .. p : UserRun(i, p) => p - i <= best_len'
  PROVE  Longest'
<1> SUFFICES ASSUME NEW i \in 1 .. p, NEW j \in 1 .. p,
                    i <= j, recs[j].neg, UserRun(i, j)
             PROVE  j - i <= best_len'
  BY DEF Longest, UserRun, PruneInv, Types
<1>1. CASE j = p
  BY <1>1
<1>2. CASE j < p
  <2>1. j - i <= best_len
    BY <1>2 DEF PruneInv, Types, Longest
  <2> QED
    BY <2>1 DEF PruneInv, Types
<1> QED
  BY <1>1, <1>2 DEF PruneInv, Types

LEMMA PruneStep == PruneInv /\ [Next]_vars => PruneInv'
<1> SUFFICES ASSUME PruneInv, [Next]_vars PROVE PruneInv'
  OBVIOUS
<1>0. recs \in Seq(Record) /\ Len(recs) \in Nat
  BY DEF PruneInv, Types
<1> USE <1>0
<1>1. CASE EndRun
  <2> USE <1>1 DEF EndRun, Scanning, NextRecord
  <2>1. NumUser \in Nat /\ curr_start + NumUser = p - 1
    BY DEF PruneInv, Types, CurrentRun, NumUser
  <2>2. best_len' \in Nat /\ best_len' >= best_len /\ best_len' >= NumUser
    BY <2>1 DEF PruneInv, Types
  <2>3. Types'
    BY <2>2 DEF PruneInv, Types
  <2>4. BestRun'
    <3>1. CASE NumUser > best_len
      BY <3>1, <2>1 DEF PruneInv, Types, CurrentRun, BestRun, UserRun
    <3>2. CASE ~(NumUser > best_len)
      BY <3>2 DEF PruneInv, Types, BestRun, UserRun
    <3> QED
      BY <3>1, <3>2
  <2>5. \A i \in 1 .. p : UserRun(i, p) => p - i <= best_len'
    BY <2>1, <2>2, RunAtP DEF PruneInv, Types
  <2>6. Longest'
    BY <2>2, <2>5, LongestNext
  <2>7. InKernel' /\ CurrentRun' /\ Kept'
    BY DEF PruneInv, Types, InKernel, CurrentRun, Kept
  <2> QED
    BY <2>3, <2>4, <2>6, <2>7 DEF PruneInv
<1>2. CASE StayKernel
  <2> USE <1>2 DEF StayKernel, Scanning, NextRecord, run
  <2>1. Types'
    BY DEF PruneInv, Types
  <2>2. BestRun'
    BY DEF PruneInv, Types, BestRun, UserRun
  <2>3. \A i \in 1 .. p : UserRun(i, p) => p - i <= best_len'
    BY RunAtP DEF PruneInv, Types
  <2>4. Longest'
    BY <2>3, LongestNext DEF PruneInv, Types
  <2>5. InKernel' /\ CurrentRun' /\ Kept'
    BY DEF PruneInv, Types, InKernel, CurrentRun, Kept
  <2> QED
    BY <2>1, <2>2, <2>4, <2>5 DEF PruneInv
<1>3. CASE User
  <2> USE <1>3 DEF User, Scanning, NextRecord
  <2>1. Types'
    <3>1. recs' \in Seq(Record) /\ p' \in 1 .. Len(recs') + 1
      BY DEF PruneInv, Types
    <3>2. in_neg' \in BOOLEAN
      OBVIOUS
    <3>3. best_start' \in Nat /\ best_len' \in Nat
      BY DEF PruneInv, Types
    <3>4. curr_start' \in Nat
      <4>1. p - 1 \in Nat /\ curr_start \in Nat
        BY DEF PruneInv, Types
      <4> QED
        BY <4>1 DEF RunStart
    <3> QED
      BY <3>1, <3>2, <3>3, <3>4 DEF Types
  <2>2. BestRun'
    BY DEF PruneInv, Types, BestRun, UserRun
  <2>3. Longest'
    BY LongestNext DEF PruneInv, Types
  <2>4. CurrentRun'
    <3>1. CASE in_neg
      BY <3>1 DEF PruneInv, Types, InKernel, CurrentRun, RunStart, UserRun
    <3>2. CASE ~in_neg
      BY <3>2 DEF PruneInv, Types, CurrentRun, RunStart, UserRun
    <3> QED
      BY <3>1, <3>2
  <2>5. InKernel' /\ Kept'
    BY DEF InKernel, Kept
  <2> QED
    BY <2>1, <2>2, <2>3, <2>4, <2>5 DEF PruneInv
<1>4. CASE EndScan
  <2> USE <1>4 DEF EndScan, run
  <2>1. Types' /\ BestRun' /\ Longest' /\ InKernel' /\ CurrentRun'
    BY DEF PruneInv, Types, BestRun, Longest, InKernel, CurrentRun, UserRun
  <2>2. Kept'
    BY DEF PruneInv, Types, Kept, Pruned, Window
  <2> QED
    BY <2>1, <2>2 DEF PruneInv
<1>5. CASE Scale \/ Start \/ Done \/ UNCHANGED vars
  <2>0. UNCHANGED <<recs, p, in_neg, best_start, best_len, curr_start>>
    BY <1>5 DEF Scale, Start, Done, vars, run
  <2>1. Types' /\ BestRun' /\ Longest' /\ InKernel' /\ CurrentRun'
    BY <2>0 DEF PruneInv, Types, BestRun, Longest, InKernel, CurrentRun, UserRun
  <2>2. /\ records' = records
        /\ phase' = "scale" => phase = "scale"
        /\ phase' \in {"start", "undefined"} => phase \in {"scale", "start", "undefined"}
        /\ phase' = "undefined" => records = <<>>
    BY <1>5 DEF Scale, Start, Done, vars, PruneInv, Kept
  <2>3. Kept'
    BY <2>0, <2>2 DEF PruneInv, Kept, Pruned, Window
  <2> QED
    BY <2>1, <2>3 DEF PruneInv
<1> QED
  BY <1>1, <1>2, <1>3, <1>4, <1>5 DEF Next

(* What is kept is the best run, and at the end of the scan that is a      *)
(* longest one.                                                            *)
LEMMA PruneKeeps == PruneInv => KeepsLongest
<1> SUFFICES ASSUME PruneInv, phase = "scale"
             PROVE  /\ \A k \in 1 .. Len(records) : ~records[k].neg
                    /\ \A i, j \in 1 .. Len(recs) :
                         i <= j /\ recs[j].neg /\ UserRun(i, j) => j - i <= Len(records)
  BY DEF KeepsLongest
<1>1. p = Len(recs) + 1 /\ records = SubSeq(recs, best_start + 1, best_start + best_len)
  BY DEF PruneInv, Kept, Pruned, Window
<1>2. best_start + best_len <= Len(recs)
  BY <1>1 DEF PruneInv, Types, BestRun
<1>3. /\ Len(records) = best_len
      /\ \A k \in 1 .. best_len : records[k] = recs[best_start + k]
  <2>1. recs \in Seq(Record) /\ Len(recs) \in Nat /\ best_start \in Nat /\ best_len \in Nat
    BY DEF PruneInv, Types
  <2>2. Len(records) = best_len
    BY <1>1, <1>2, <2>1
  <2>3. \A k \in 1 .. best_len : records[k] = recs[best_start + k]
    BY <1>1, <1>2, <2>1
  <2> QED
    BY <2>2, <2>3
<1>4. \A k \in 1 .. best_len : ~recs[best_start + k].neg
  BY DEF PruneInv, Types, BestRun, UserRun
<1>5. \A i, j \in 1 .. Len(recs) :
        i <= j /\ recs[j].neg /\ UserRun(i, j) => j - i <= best_len
  BY <1>1 DEF PruneInv, Types, Longest
<1> QED
  BY <1>3, <1>4, <1>5

(* Whatever the trace, --prune keeps a run of user instructions than which *)
(* no run that a kernel instruction ends is longer.                        *)
THEOREM PruneKeepsLongest == Spec => []KeepsLongest
<1>1. Init => PruneInv
  BY PruneInit
<1>2. PruneInv /\ [Next]_vars => PruneInv'
  BY PruneStep
<1>3. PruneInv => KeepsLongest
  BY PruneKeeps
<1> QED
  BY <1>1, <1>2, <1>3, PTL DEF Spec

(* A run of one record before a kernel instruction would have been kept. *)
LEMMA NothingToKeep == PruneInv => NothingKept
<1> SUFFICES ASSUME PruneInv, phase = "undefined", NEW k \in 1 .. Len(recs) - 1,
                    ~recs[k].neg, recs[k + 1].neg
             PROVE  FALSE
  BY DEF NothingKept
<1>1. /\ recs \in Seq(Record) /\ Len(recs) \in Nat
      /\ best_start \in Nat /\ best_len \in Nat
  BY DEF PruneInv, Types
<1>2. Pruned /\ records = <<>>
  <2>1. recs # <<>>
    BY <1>1
  <2> QED BY <2>1 DEF PruneInv, Kept
<1>3. p = Len(recs) + 1 /\ best_len = 0
  <2>1. p = Len(recs) + 1 /\ best_start + best_len <= Len(recs)
    BY <1>2 DEF Pruned, PruneInv, BestRun
  <2>2. Len(SubSeq(recs, best_start + 1, best_start + best_len)) = best_len
    BY <1>1, <2>1
  <2>3. SubSeq(recs, best_start + 1, best_start + best_len) = <<>>
    BY <1>2 DEF Pruned, Window
  <2>4. best_len = Len(<<>>)
    BY <2>2, <2>3
  <2> QED BY <2>1, <2>4
<1>4. k \in 1 .. p - 1 /\ k + 1 \in 1 .. p - 1 /\ k <= k + 1
  BY <1>1, <1>3
<1>5. UserRun(k, k + 1)
  BY <1>4 DEF UserRun
<1>6. (k + 1) - k <= best_len
  BY <1>4, <1>5 DEF PruneInv, Longest
<1> QED BY <1>3, <1>6

(* Only a trace that never goes from user to kernel code is pruned to      *)
(* nothing, and its first record then read.                                *)
THEOREM PrunedToNothing == Spec => []NothingKept
<1> QED BY PruneInit, PruneStep, NothingToKeep, PTL DEF Spec

-----------------------------------------------------------------------------
(* The window of the pipeline log.                                         *)

WindowSteps == {"search", "dump", "skipped", "done"}

(* The positions found are in order and different: the i-th is at least    *)
(* i - 1, so that of the middle one is at least Before.                    *)
Instances ==
  /\ instances \in Seq(Nat)
  /\ \A i \in 1 .. Len(instances) : i - 1 <= instances[i] /\ instances[i] < icnt

(* What is written is everything of the window up to the present record.   *)
Contiguous ==
  \A k \in Nat : start <= k + 1 /\ k + 1 <= stop /\ k < cnt => Written(k)

WindowBounds ==
  /\ Enough
  /\ start = Middle - Before
  /\ stop = Middle + After
  /\ start \in Nat /\ stop \in Nat
  /\ Middle \in Nat
  /\ start + Before < Len(pt)

WindowTypes ==
  /\ pt \in Logs
  /\ icnt \in Nat /\ cnt \in Nat
  /\ start \in Nat /\ stop \in Nat
  /\ ops \in Seq(Int)
  /\ step \in WindowSteps

WindowInv ==
  /\ WindowTypes
  /\ icnt <= Len(pt)
  /\ Instances
  /\ Contiguous
  /\ step \in {"dump", "done"} => WindowBounds
  /\ step = "search" => cnt = 0
  /\ step = "done" => cnt = Len(pt) \/ cnt > stop

-----------------------------------------------------------------------------
(* A number below the modulus stays what it is. *)
LEMMA ModSmall == ASSUME NEW x \in Nat, NEW w \in Nat, x < w PROVE x % w = x
  OBVIOUS

(* Half of enough executions leaves Before of them ahead.                  *)
LEMMA Half ==
  ASSUME NEW n \in Nat, NEW b \in Nat, n >= 2 * (b + 1)
  PROVE  n \div 2 \in 1 .. n /\ n \div 2 >= b + 1
  OBVIOUS

(* The middle execution has room for the window's bounds.                  *)
LEMMA MiddleFits ==
  ASSUME WindowInv, icnt = Len(pt), Enough
  PROVE  /\ Middle \in Nat
         /\ Middle >= Before
         /\ Middle < Len(pt)
         /\ Middle + After < Word
<1> DEFINE n == Len(instances)
<1>1. instances \in Seq(Nat) /\ n \in Nat
  BY DEF WindowInv, Instances
<1>2. n >= 2 * (Before + 1) /\ Before \in Nat /\ After \in Nat /\ Word \in Nat
  BY <1>1, WindowAssumption DEF Enough
<1>3. n \div 2 \in 1 .. n /\ n \div 2 >= Before + 1
  BY <1>1, <1>2, Half
<1>4. Middle \in Nat
  BY <1>1, <1>3 DEF Middle
<1>5. (n \div 2) - 1 <= Middle /\ Middle < icnt
  BY <1>3 DEF Middle, WindowInv, Instances
<1>6. n \div 2 \in Int
  BY <1>3
<1>7. Len(pt) \in Nat
  BY LogsAssumption DEF WindowInv, WindowTypes
<1>8. Len(pt) + After < Word
  BY WindowAssumption DEF WindowInv, WindowTypes
<1> HIDE DEF n
<1>9. Middle >= Before
  <2> DEFINE h == n \div 2
  <2>1. h \in Int /\ h >= Before + 1 /\ h - 1 <= Middle
    BY <1>3, <1>5, <1>6
  <2> HIDE DEF h
  <2> QED BY <2>1, <1>4, <1>2
<1>10. Middle + After < Word
  BY <1>4, <1>5, <1>7, <1>8, <1>2
<1> QED BY <1>4, <1>5, <1>9, <1>10

LEMMA InitWindow == WindowInit => WindowInv
<1> SUFFICES ASSUME WindowInit PROVE WindowInv
  OBVIOUS
<1> USE DEF WindowInit, NothingFound, NoWindow
<1>1. WindowTypes
  BY DEF WindowTypes, WindowSteps
<1>2. icnt <= Len(pt)
  BY <1>1, LogsAssumption DEF WindowTypes
<1>3. Instances
  BY DEF Instances
<1>4. Contiguous
  BY DEF Contiguous
<1> QED BY <1>1, <1>2, <1>3, <1>4 DEF WindowInv

LEMMA SearchRecordKeeps ==
  ASSUME WindowInv, SearchRecord
  PROVE  WindowInv'
<1> USE DEF SearchRecord, window
<1>1. WindowTypes'
  BY DEF WindowInv, WindowTypes, WindowSteps
<1>2. Len(pt) \in Nat /\ icnt \in Nat
  BY LogsAssumption DEF WindowInv, WindowTypes
<1>3. (icnt <= Len(pt))'
  BY <1>2
<1>4. Instances'
  <2> SUFFICES /\ instances' \in Seq(Nat)
               /\ Len(instances') \in Nat
               /\ \A i \in 1 .. Len(instances') :
                    i - 1 <= instances'[i] /\ instances'[i] < icnt + 1
    BY DEF Instances
  <2>0. instances \in Seq(Nat) /\ Len(instances) \in Nat
    BY DEF WindowInv, Instances
  <2>1. \A i \in 1 .. Len(instances) : i - 1 <= instances[i] /\ instances[i] < icnt
    BY DEF WindowInv, Instances
  <2>2. instances[Len(instances)] \in Nat \/ Len(instances) = 0
    BY <2>0
  <2>3. Len(instances) <= icnt
    <3>1. CASE Len(instances) = 0
      BY <3>1, <1>2
    <3>2. CASE Len(instances) # 0
      BY <3>2, <2>0, <2>1, <2>2, <1>2
    <3> QED BY <3>1, <3>2
  <2>4. CASE ~pt[icnt + 1]
    BY <2>4, <2>0, <2>1, <1>2
  <2>5. CASE pt[icnt + 1]
    <3>1. instances' = Append(instances, icnt)
      BY <2>5
    <3>2. instances' \in Seq(Nat) /\ Len(instances') = Len(instances) + 1
      BY <3>1, <2>0, <1>2
    <3>3. ASSUME NEW i \in 1 .. Len(instances')
          PROVE  i - 1 <= instances'[i] /\ instances'[i] < icnt + 1
      <4>1. CASE i = Len(instances) + 1
        BY <4>1, <3>1, <2>0, <2>3, <1>2
      <4>2. CASE i \in 1 .. Len(instances)
        <5>1. instances'[i] = instances[i] /\ instances[i] \in Nat
          BY <4>2, <3>1, <2>0
        <5> QED BY <5>1, <4>2, <2>1, <1>2
      <4> QED BY <4>1, <4>2, <3>2, <2>0
    <3> QED BY <3>2, <3>3, <2>0
  <2> QED BY <2>4, <2>5
<1>5. Contiguous'
  BY DEF WindowInv, Contiguous, Written
<1> QED BY <1>1, <1>3, <1>4, <1>5 DEF WindowInv

LEMMA EndSearchKeeps ==
  ASSUME WindowInv, EndSearch
  PROVE  WindowInv'
<1> USE DEF EndSearch, found, window
<1>0. icnt = Len(pt) /\ Instances' /\ (icnt <= Len(pt))' /\ cnt' = 0
  BY DEF WindowInv, Instances
<1>1. CASE ~Enough
  <2>1. WindowTypes'
    BY <1>1 DEF WindowInv, WindowTypes, WindowSteps
  <2>2. Contiguous'
    BY <1>1 DEF WindowInv, Contiguous, Written
  <2>3. step' = "skipped"
    BY <1>1
  <2> QED BY <1>0, <2>1, <2>2, <2>3 DEF WindowInv
<1>2. CASE Enough
  <2>1. /\ Middle \in Nat /\ Middle >= Before /\ Middle < Len(pt)
        /\ Middle + After < Word
    BY <1>0, <1>2, MiddleFits
  <2>2. Before \in Nat /\ After \in Nat /\ Word \in Nat
    BY WindowAssumption
  <2>3. /\ start' = (Middle - Before) % Word
        /\ stop' = (Middle + After) % Word
        /\ step' = "dump"
    BY <1>2
  <2>4. Middle' = Middle /\ Enough' /\ Len(pt') = Len(pt)
    BY <1>2 DEF Middle, Enough
  <2> HIDE DEF Middle, EndSearch
  <2>5. Middle - Before \in Nat /\ Middle - Before < Word
    BY <2>1, <2>2
  <2>6. Middle + After \in Nat
    BY <2>1, <2>2
  <2>7. start' = Middle - Before /\ stop' = Middle + After
    BY <2>1, <2>2, <2>3, <2>5, <2>6, ModSmall
  <2>8. WindowTypes'
    <3>1. pt' \in Logs /\ icnt' \in Nat /\ ops' \in Seq(Int)
      BY DEF EndSearch, WindowInv, WindowTypes
    <3> QED BY <1>0, <2>3, <2>5, <2>6, <2>7, <3>1 DEF WindowTypes, WindowSteps
  <2>9. WindowBounds'
    <3>1. Len(pt) \in Nat
      BY LogsAssumption DEF WindowInv, WindowTypes
    <3>2. start' + Before < Len(pt)
      BY <3>1, <2>1, <2>2, <2>7
    <3>3. start' = Middle' - Before /\ stop' = Middle' + After
      BY <2>4, <2>7
    <3> QED BY <3>2, <3>3, <2>1, <2>4, <2>5, <2>6, <2>7, WindowAssumption DEF WindowBounds
  <2>10. Contiguous'
    BY <1>0 DEF Contiguous
  <2> QED BY <1>0, <2>3, <2>8, <2>9, <2>10 DEF WindowInv
<1> QED BY <1>1, <1>2

LEMMA DumpRecordKeeps ==
  ASSUME WindowInv, DumpRecord
  PROVE  WindowInv'
<1> USE DEF DumpRecord, found, window
<1>0. WindowBounds' /\ Instances' /\ (icnt <= Len(pt))'
  BY DEF WindowInv, WindowBounds, Instances, Enough, Middle
<1>1. /\ cnt \in Nat /\ start \in Nat /\ stop \in Nat /\ ops \in Seq(Int)
      /\ start <= stop + 1 /\ cnt' = cnt + 1
  BY SMTT(30), WindowAssumption DEF WindowInv, WindowTypes, WindowBounds
<1>2. WindowTypes'
  <2>1. ops' \in Seq(Int)
    BY <1>1
  <2>2. step' \in WindowSteps
    BY DEF WindowInv, WindowTypes, WindowSteps
  <2> QED BY <2>1, <2>2, <1>1 DEF WindowInv, WindowTypes
<1>3. Contiguous'
  <2> SUFFICES ASSUME NEW k \in Nat, start <= k + 1, k + 1 <= stop, k < cnt + 1
               PROVE  \E i \in 1 .. Len(ops') : ops'[i] = k
    BY <1>1 DEF Contiguous, Written
  <2>1. CASE k = cnt
    <3>1. ops' = Append(ops, k)
      BY <2>1, <1>1
    <3>2. Len(ops') \in 1 .. Len(ops') /\ ops'[Len(ops')] = k
      BY <3>1, <1>1
    <3> QED BY <3>2
  <2>2. CASE k < cnt
    <3>1. PICK i \in 1 .. Len(ops) : ops[i] = k
      BY <2>2 DEF WindowInv, Contiguous, Written
    <3>2. i \in 1 .. Len(ops') /\ ops'[i] = ops[i]
      BY <1>1, <3>1
    <3> QED BY <3>1, <3>2
  <2> QED BY <2>1, <2>2, <1>1
<1>4. step' = "done" => cnt' > stop'
  BY <1>1
<1>5. step' \in {"dump", "done"}
  OBVIOUS
<1> QED BY <1>0, <1>2, <1>3, <1>4, <1>5 DEF WindowInv

LEMMA EndDumpKeeps ==
  ASSUME WindowInv, EndDump
  PROVE  WindowInv'
<1> USE DEF EndDump, found, window
<1>1. WindowTypes'
  BY DEF WindowInv, WindowTypes, WindowSteps
<1>2. Instances' /\ Contiguous' /\ WindowBounds' /\ (icnt <= Len(pt))'
  BY DEF WindowInv, Instances, Contiguous, Written, WindowBounds, Enough, Middle
<1>3. step' = "done" /\ cnt' = Len(pt')
  OBVIOUS
<1> QED BY <1>1, <1>2, <1>3 DEF WindowInv

LEMMA WindowStep == WindowInv /\ [WindowNext]_windowVars => WindowInv'
<1> SUFFICES ASSUME WindowInv, [WindowNext]_windowVars PROVE WindowInv'
  OBVIOUS
<1>1. CASE SearchRecord
  BY <1>1, SearchRecordKeeps
<1>2. CASE EndSearch
  BY <1>2, EndSearchKeeps
<1>3. CASE DumpRecord
  BY <1>3, DumpRecordKeeps
<1>4. CASE EndDump
  BY <1>4, EndDumpKeeps
<1>5. CASE UNCHANGED windowVars
  <2> USE <1>5 DEF windowVars, found, window
  <2>1. WindowTypes' /\ Instances' /\ Contiguous'
    BY DEF WindowInv, WindowTypes, Instances, Contiguous, Written
  <2>2. (step \in {"dump", "done"} => WindowBounds)'
    BY DEF WindowInv, WindowBounds, Enough, Middle
  <2> QED BY <2>1, <2>2 DEF WindowInv
<1> QED BY <1>1, <1>2, <1>3, <1>4, <1>5 DEF WindowNext

LEMMA ShownMiddle == WindowInv => WindowShowsMiddle
<1> SUFFICES ASSUME WindowInv, step = "done"
             PROVE  Middle >= Before /\ \A k \in Middle - Before .. Middle : Written(k)
  BY DEF WindowShowsMiddle
<1>1. /\ Middle \in Nat /\ start = Middle - Before /\ stop = Middle + After
      /\ start \in Nat /\ stop \in Nat /\ start + Before < Len(pt)
  BY DEF WindowInv, WindowBounds
<1>2. Before \in Nat /\ After \in Nat \ {0} /\ cnt \in Nat
  BY WindowAssumption DEF WindowInv, WindowTypes
<1>3. Len(pt) \in Nat /\ (cnt = Len(pt) \/ cnt > stop)
  BY LogsAssumption DEF WindowInv, WindowTypes
<1> HIDE DEF Middle
<1>4. Middle >= Before
  BY <1>1, <1>2
<1>5. ASSUME NEW k \in Middle - Before .. Middle PROVE Written(k)
  <2>1. k \in Nat /\ start <= k + 1 /\ k + 1 <= stop /\ k < cnt
    BY <1>1, <1>2, <1>3
  <2> QED BY <2>1 DEF WindowInv, Contiguous
<1> QED BY <1>4, <1>5

(* The window of asDot: for every log, however long, and every choice of   *)
(* the numbers 10, 4 and 128 that keeps twice the lead below the limit,    *)
(* the records written include the middle execution and the Before records *)
(* ahead of it.                                                            *)
THEOREM WindowIsShown == WindowSpec => []WindowShowsMiddle
<1>1. WindowSpec => []WindowInv
  BY InitWindow, WindowStep, PTL DEF WindowSpec
<1> QED BY <1>1, ShownMiddle, PTL
=============================================================================
