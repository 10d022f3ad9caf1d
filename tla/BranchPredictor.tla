---------------------------- MODULE BranchPredictor ----------------------------
(***************************************************************************)
(* HW1: a branch target buffer with two-level prediction.  Histories and   *)
(* tables of two-bit counters are local to an entry of the buffer or       *)
(* global.  For each line of the trace the driver asks for a prediction    *)
(* and then reports what the branch did; an empty line ends the trace, as  *)
(* the end of the file does.                                               *)
(***************************************************************************)
EXTENDS Integers, Sequences, FiniteSets

CONSTANTS
  Configs,      \* the configurations (first line of a trace file)
  Branches,     \* the lines a trace may have
  MaxBranches   \* bound on the length of a trace

(* The size of the buffer is 2^btbIndexSize.                               *)
Config == [btbIndexSize : Nat, historySize : Nat \ {0}, tagSize : Nat,
           fsmState : 0 .. 3, isGlobalHist : BOOLEAN, isGlobalTable : BOOLEAN,
           Shared : 0 .. 2]

Branch == [pc : Nat, targetPc : Nat, taken : BOOLEAN]

VARIABLES
  config,
  btb,       \* btb[i]: isBranch, tag and target of an entry
  history,   \* history[slot]: outcomes, the newest last
  fsmTable,  \* fsmTable[slot]: a counter per table index
  stats,     \* br_num, flush_num, size
  phase,     \* "line": before a line of the trace; "update": between
             \* BP_predict and BP_update; "end": after BP_GetStats;
             \* "failed": the trace is bad
  line,      \* the line of the trace, and what was predicted for it
  trace      \* history variable: the branches so far

vars == <<config, btb, history, fsmTable, stats, phase, line, trace>>

-----------------------------------------------------------------------------
(* A mask of n bits; the loops that build one make it at least one bit.    *)
LowBits(x, n) == x % 2^(IF n = 0 THEN 1 ELSE n)
Bit(x, n) == (x \div 2^n) % 2 = 1

pc2btbIndex(pc) == LowBits(pc \div 4, config.btbIndexSize)
pc2tag(pc) == LowBits(pc \div 2^(2 + config.btbIndexSize), config.tagSize)

(* With one entry the index still has one bit: a branch that would use the *)
(* entry behind the buffer has no defined behaviour.                       *)
InBtb(c, b) == c.btbIndexSize > 0 \/ (b.pc \div 4) % 2 = 0

ASSUME ConfigsAssumption == \A c \in Configs : c \in Config
ASSUME BranchesAssumption == \A b \in Branches :
                               b \in Branch /\ \A c \in Configs : InBtb(c, b)
ASSUME MaxBranchesAssumption == MaxBranches \in Nat

Entries  == 0 .. 2^config.btbIndexSize - 1
Bits     == 0 .. config.historySize - 1
Global   == -1
HistSlot(pc)  == IF config.isGlobalHist THEN Global ELSE pc2btbIndex(pc)
TableSlot(pc) == IF config.isGlobalTable THEN Global ELSE pc2btbIndex(pc)

initHist     == [i \in Bits |-> FALSE]
initFsmTable == [idx \in [Bits -> BOOLEAN] |-> config.fsmState]

(* The bit of the pc that is xored with a bit of a global table's index.   *)
shareHandler(pc, n) ==
  CASE config.Shared = 0 -> FALSE
    [] config.Shared = 1 -> Bit(pc \div 2^2, n)
    [] config.Shared = 2 -> Bit(pc \div 2^16, n)

(* A table index is kept as its bits, history[0] being the highest.        *)
tableIdxHandler(hist, pc) ==
  [i \in Bits |->
     hist[i] # (config.isGlobalTable /\ shareHandler(pc, config.historySize - 1 - i))]

SNT == 0
WNT == 1
WT  == 2
ST  == 3

fsmStateMapping(state) == state \in {ST, WT}

(* Mistakes: the strong states are not the last ones; WNT is never left    *)
(* upwards.                                                                *)
updateFSM_NoSaturation(state, isCorrect) ==
  IF isCorrect = fsmStateMapping(state) THEN state + 1 ELSE state - 1
updateFSM_Stuck(state, isCorrect) ==
  CASE state = ST  -> IF isCorrect THEN ST ELSE WT
    [] state = WT  -> IF isCorrect THEN ST ELSE WNT
    [] state = WNT -> IF isCorrect THEN SNT ELSE WNT
    [] state = SNT -> IF isCorrect THEN SNT ELSE WNT

updateFSM(state, isCorrect) ==
  CASE state = ST  -> IF isCorrect THEN ST ELSE WT
    [] state = WT  -> IF isCorrect THEN ST ELSE WNT
    [] state = WNT -> IF isCorrect THEN SNT ELSE WT
    [] state = SNT -> IF isCorrect THEN SNT ELSE WNT

updateHist(hist, taken) ==
  [i \in Bits |-> IF i + 1 \in Bits THEN hist[i + 1] ELSE taken]

-----------------------------------------------------------------------------
(* BP_init *)
Init ==
  /\ config \in Configs
  /\ btb = [i \in Entries |-> [isBranch |-> FALSE, tag |-> 0, target |-> 0]]
  /\ history = [slot \in (IF config.isGlobalHist THEN {Global} ELSE Entries)
                  |-> initHist]
  /\ fsmTable = [slot \in (IF config.isGlobalTable THEN {Global} ELSE Entries)
                   |-> initFsmTable]
  /\ stats = [br_num |-> 0, flush_num |-> 0, size |-> 0]
  /\ phase = "line"
  /\ line = <<>>
  /\ trace = <<>>

PredictTaken(pc) ==
  LET entry == btb[pc2btbIndex(pc)]
      idx   == tableIdxHandler(history[HistSlot(pc)], pc)
  IN  /\ entry.isBranch
      /\ entry.tag = pc2tag(pc)
      /\ fsmStateMapping(fsmTable[TableSlot(pc)][idx])

PredictDst(pc) ==
  IF PredictTaken(pc) THEN btb[pc2btbIndex(pc)].target ELSE pc + 4

BP_predict(b) ==
  /\ phase = "line"
  /\ Len(trace) < MaxBranches
  /\ line' = [branch |-> b, taken |-> PredictTaken(b.pc), dst |-> PredictDst(b.pc)]
  /\ phase' = "update"
  /\ UNCHANGED <<config, btb, history, fsmTable, stats, trace>>

(* Mistake: not taken branches never flush.                                *)
Flush_TakenOnly(b, pred_dst) == b.taken /\ b.targetPc # pred_dst

Flush(b, pred_dst) ==
  \/ b.taken /\ b.targetPc # pred_dst
  \/ ~b.taken /\ pred_dst # b.pc + 4

(* Mistake: a branch that takes over an entry keeps its history and table. *)
TakesOver_Never(entry, pc) == FALSE

(* The entry is not in use, or in use by a branch with another tag.        *)
TakesOver(entry, pc) == ~entry.isBranch \/ entry.tag # pc2tag(pc)

BP_update ==
  LET b     == line.branch
      pc    == b.pc
      i     == pc2btbIndex(pc)
      fresh == TakesOver(btb[i], pc)
      hist  == IF fresh /\ ~config.isGlobalHist THEN initHist
               ELSE history[HistSlot(pc)]
      table == IF fresh /\ ~config.isGlobalTable THEN initFsmTable
               ELSE fsmTable[TableSlot(pc)]
      idx   == tableIdxHandler(hist, pc)
      isCorrect == fsmStateMapping(table[idx]) = b.taken
  IN
  /\ phase = "update"
  /\ btb' = [btb EXCEPT ![i] = [isBranch |-> TRUE, tag |-> pc2tag(pc),
                                target |-> b.targetPc]]
  /\ fsmTable' = [fsmTable EXCEPT ![TableSlot(pc)] =
                    [table EXCEPT ![idx] = updateFSM(@, isCorrect)]]
  /\ history' = [history EXCEPT ![HistSlot(pc)] = updateHist(hist, b.taken)]
  /\ stats' = [stats EXCEPT !.br_num = @ + 1,
                            !.flush_num = @ + IF Flush(b, line.dst) THEN 1 ELSE 0]
  /\ trace' = Append(trace, b)
  /\ phase' = "line"
  /\ line' = <<>>
  /\ UNCHANGED config

(* The size of the predictor in bits.                                      *)
INST_SIZE      == 30
VALID_SIZE     == 1
FSM_STATE_SIZE == 2

Size(entrySize, globalSize) ==
  2^config.btbIndexSize * (config.tagSize + INST_SIZE + VALID_SIZE + entrySize) + globalSize

TheoreticalSize ==
  LET tableSize == FSM_STATE_SIZE * 2^config.historySize
      histSize  == config.historySize
  IN
  CASE config.isGlobalHist /\ config.isGlobalTable   -> Size(0, histSize + tableSize)
    [] ~config.isGlobalHist /\ config.isGlobalTable  -> Size(histSize, tableSize)
    [] config.isGlobalHist /\ ~config.isGlobalTable  -> Size(tableSize, histSize)
    [] ~config.isGlobalHist /\ ~config.isGlobalTable -> Size(tableSize + histSize, 0)

(* The trace is over.                                                      *)
BP_GetStats ==
  /\ phase = "line"
  /\ stats' = [stats EXCEPT !.size = TheoreticalSize]
  /\ phase' = "end"
  /\ UNCHANGED <<config, btb, history, fsmTable, line, trace>>

(* An outcome that is neither T nor N ends the program without statistics. *)
BadTrace ==
  /\ phase = "line"
  /\ phase' = "failed"
  /\ UNCHANGED <<config, btb, history, fsmTable, stats, line, trace>>

Ended == phase \in {"end", "failed"} /\ UNCHANGED vars

Next ==
  \/ \E b \in Branches : BP_predict(b)
  \/ BP_update
  \/ BP_GetStats
  \/ BadTrace
  \/ Ended

Spec == Init /\ [][Next]_vars

-----------------------------------------------------------------------------
TypeOK ==
  /\ config \in Configs
  /\ btb \in [Entries -> [isBranch : BOOLEAN, tag : Nat, target : Nat]]
  /\ history \in [(IF config.isGlobalHist THEN {Global} ELSE Entries) ->
                    [Bits -> BOOLEAN]]
  /\ fsmTable \in [(IF config.isGlobalTable THEN {Global} ELSE Entries) ->
                     [[Bits -> BOOLEAN] -> SNT .. ST]]
  /\ stats \in [br_num : Nat, flush_num : Nat, size : Nat]
  /\ phase \in {"line", "update", "end", "failed"}
  /\ trace \in Seq(Branch)

(* What the predictor should know after the first n branches of the trace, *)
(* said without its data structures.                                       *)

SameEntry(pc, n) == {j \in 1 .. n : pc2btbIndex(trace[j].pc) = pc2btbIndex(pc)}
SameBranch(pc, n) == {j \in SameEntry(pc, n) : pc2tag(trace[j].pc) = pc2tag(pc)}

(* The branches since this one took over its entry.                        *)
Stint(pc, n) ==
  {j \in SameBranch(pc, n) : \A k \in SameEntry(pc, n) \ SameBranch(pc, n) : k < j}

Newest(S) == CHOOSE j \in S : \A k \in S : k <= j

(* The last outcomes among the given branches, the newest last.            *)
OutcomesOf(S) ==
  [i \in Bits |->
     \E j \in S : /\ Cardinality({k \in S : k > j}) = config.historySize - 1 - i
                   /\ trace[j].taken]

Outcomes(pc, n) == OutcomesOf(IF config.isGlobalHist THEN 1 .. n ELSE Stint(pc, n))

Index(pc, n) == tableIdxHandler(Outcomes(pc, n), pc)

(* The branches that train the counter at idx of this branch's table.      *)
Trainers(pc, n, idx) ==
  {j \in (IF config.isGlobalTable THEN 1 .. n ELSE Stint(pc, n)) :
     Index(trace[j].pc, j - 1) = idx}

(* A two-bit saturating counter of the outcomes of the given branches.     *)
Saturate(c, taken) ==
  IF taken THEN IF c = ST THEN ST ELSE c + 1
  ELSE IF c = SNT THEN SNT ELSE c - 1

CountOutcomes(start, branches, S, n) ==
  LET count[j \in 0 .. n] ==
        IF j = 0 THEN start
        ELSE IF j \in S THEN Saturate(count[j - 1], branches[j].taken)
        ELSE count[j - 1]
  IN  count[n]

Counter(pc, n, idx) == CountOutcomes(config.fsmState, trace, Trainers(pc, n, idx), n)

ShouldTake(pc, n) == Stint(pc, n) # {} /\ Counter(pc, n, Index(pc, n)) >= WT

ShouldGo(pc, n) ==
  IF ShouldTake(pc, n) THEN trace[Newest(Stint(pc, n))].targetPc ELSE pc + 4

NextPc(b) == IF b.taken THEN b.targetPc ELSE b.pc + 4

(* Every prediction is what the trace so far warrants: taken if the branch *)
(* owns its entry and the saturating counter that its history (shared or   *)
(* not) selects says so, and then to the branch's last target              *)
(* (bp.cpp:239-325).                                                       *)
PredictionsFollowTrace ==
  phase = "update" =>
    /\ line.taken = ShouldTake(line.branch.pc, Len(trace))
    /\ line.dst = ShouldGo(line.branch.pc, Len(trace))

FlushesCounted ==
  /\ stats.br_num = Len(trace)
  /\ stats.flush_num =
       Cardinality({j \in DOMAIN trace : ShouldGo(trace[j].pc, j - 1) # NextPc(trace[j])})

(* The predictor keeps its entries, with valid bit, tag and target, its    *)
(* histories and its tables, local or global.                              *)
SizeIsStorage ==
  LET Slots(f) == UNION {{slot} \X DOMAIN f[slot] : slot \in DOMAIN f}
  IN  phase = "end" =>
        stats.size = Cardinality(DOMAIN btb) * (VALID_SIZE + config.tagSize + INST_SIZE)
                     + Cardinality(Slots(history))
                     + FSM_STATE_SIZE * Cardinality(Slots(fsmTable))

(* The flushes reported (bp.cpp:317) are the branches after which the      *)
(* program went on elsewhere than predicted, and the size, computed by one *)
(* of four formulas (bp.cpp:331-346), counts what is really kept.          *)
StatisticsRight == FlushesCounted /\ SizeIsStorage

(* A branch that does the same historySize + 2 times in a row is predicted *)
(* right the next time, whatever the other branches have left behind.      *)
Trained ==
  LET n == Len(trace)
      k == config.historySize + 2
  IN  phase = "line" /\ n >= k /\ (\A j \in n - k + 1 .. n : trace[j] = trace[n]) =>
        PredictDst(trace[n].pc) = NextPc(trace[n])

-----------------------------------------------------------------------------
(* What makes these inductive: for every branch that may come next, what   *)
(* BP_update would find for it, in its entry or the global tables, is what *)
(* the trace says.                                                         *)
Fresh(pc) == TakesOver(btb[pc2btbIndex(pc)], pc)

FoundHist(pc) ==
  IF Fresh(pc) /\ ~config.isGlobalHist THEN initHist ELSE history[HistSlot(pc)]

FoundTable(pc) ==
  IF Fresh(pc) /\ ~config.isGlobalTable THEN initFsmTable ELSE fsmTable[TableSlot(pc)]

KnownOf(pc) ==
  LET n == Len(trace) IN
  /\ Fresh(pc) <=> Stint(pc, n) = {}
  /\ ~Fresh(pc) => btb[pc2btbIndex(pc)].target = trace[Newest(Stint(pc, n))].targetPc
  /\ FoundHist(pc) = Outcomes(pc, n)
  /\ \A idx \in [Bits -> BOOLEAN] : FoundTable(pc)[idx] = Counter(pc, n, idx)

PredictedNow ==
  phase = "update" =>
    /\ line.branch \in Branches
    /\ line.taken = PredictTaken(line.branch.pc)
    /\ line.dst = PredictDst(line.branch.pc)

PredictorInv ==
  /\ TypeOK
  /\ trace \in Seq(Branches)
  /\ \A b \in Branches : KnownOf(b.pc)
  /\ PredictedNow
  /\ FlushesCounted
=============================================================================
