-------------------------------- MODULE Dataflow --------------------------------
(***************************************************************************)
(* HW3: analyzeProg walks once over a trace and finds, for each            *)
(* instruction, the two instructions whose results it reads and the cycle  *)
(* at which it may start; the driver (DflowMain) then queries the result.   *)
(* One turn of the loop of analyzeProg is one step.                        *)
(***************************************************************************)
EXTENDS Integers, FiniteSetsExt

CONSTANTS
  Regs,        \* registers (NUM_OF_REGS)
  Opcodes,     \* opcodes (MAX_OPS)
  MaxInsts,    \* bound on the length of a trace
  HalfWord     \* an unsigned int has 2 * HalfWord values (2^31 in the code)

Entry == -1    \* ENTRY_DEPENDENCE

InstInfo == [opcode : Opcodes, dstIdx : Regs, src1Idx : Regs, src2Idx : Regs]

ASSUME SizesAssumption ==
  /\ MaxInsts \in Nat \ {0}
  /\ HalfWord \in Nat
  /\ MaxInsts < HalfWord

VARIABLES
  opsLatency,
  numOfInsts,   \* length of the trace
  i,            \* instructions analysed so far
  insts,        \* insts[n]: inst, instLatency, depth, src1Dep, src2Dep
  lastWrite,    \* lastWrite[r]: the last instruction that wrote register r
  progDepth,
  phase         \* "analyze", "query", "freed"

analysisVars == <<i, insts, lastWrite, progDepth, phase>>
vars == <<opsLatency, numOfInsts, analysisVars>>

InitAnalysis ==
  /\ i = 0
  /\ insts = [n \in {} |-> 0]
  /\ lastWrite = [r \in Regs |->
                    [valid |-> FALSE, idx |-> 0, instLatency |-> 0, depth |-> 0]]
  /\ progDepth = 0
  /\ phase = "analyze"

Larger(a, b) == IF a >= b THEN a ELSE b

Dependence(r) == IF lastWrite[r].valid THEN lastWrite[r].idx ELSE Entry

(* Mistake: the result counts as there when its instruction starts.        *)
SrcLatency_StartOnly(r) == IF lastWrite[r].valid THEN lastWrite[r].depth ELSE 0

SrcLatency(r) ==
  IF lastWrite[r].valid THEN lastWrite[r].depth + lastWrite[r].instLatency ELSE 0

(* Mistakes: instructions are counted from one; only the first writer of a *)
(* register is recorded.                                                   *)
RecordWrite_FromOne(r, depth, latency) ==
  lastWrite' = [lastWrite EXCEPT ![r] =
    [valid |-> TRUE, idx |-> i + 1, instLatency |-> latency, depth |-> depth]]
RecordWrite_First(r, depth, latency) ==
  IF lastWrite[r].valid THEN UNCHANGED lastWrite
  ELSE lastWrite' = [lastWrite EXCEPT ![r] =
         [valid |-> TRUE, idx |-> i, instLatency |-> latency, depth |-> depth]]

RecordWrite(r, depth, latency) ==
  lastWrite' = [lastWrite EXCEPT ![r] =
    [valid |-> TRUE, idx |-> i, instLatency |-> latency, depth |-> depth]]

(* Mistake: the last instruction decides.                                  *)
ExtendProg_Last(depth, latency) == progDepth' = depth + latency

ExtendProg(depth, latency) == progDepth' = Larger(progDepth, depth + latency)

(* inst stands for progTrace[i].                                           *)
Analyze(inst) ==
  LET latency == opsLatency[inst.opcode]
      depth   == Larger(SrcLatency(inst.src1Idx), SrcLatency(inst.src2Idx))
      data    == [inst |-> inst, instLatency |-> latency, depth |-> depth,
                  src1Dep |-> Dependence(inst.src1Idx),
                  src2Dep |-> Dependence(inst.src2Idx)]
  IN
  /\ phase = "analyze" /\ i < numOfInsts
  /\ insts' = [n \in 0 .. i |-> IF n = i THEN data ELSE insts[n]]
  /\ RecordWrite(inst.dstIdx, depth, latency)
  /\ ExtendProg(depth, latency)
  /\ i' = i + 1
  /\ UNCHANGED <<opsLatency, numOfInsts, phase>>

Analyzed ==
  /\ phase = "analyze" /\ i = numOfInsts
  /\ phase' = "query"
  /\ UNCHANGED <<opsLatency, numOfInsts, i, insts, lastWrite, progDepth>>

freeProgCtx ==
  /\ phase = "query"
  /\ phase' = "freed"
  /\ UNCHANGED <<opsLatency, numOfInsts, i, insts, lastWrite, progDepth>>

(* The test on theInst that getInstDepth and getInstDeps make, as an int.  *)
Accepted(theInst) ==
  (IF theInst >= HalfWord THEN theInst - 2 * HalfWord ELSE theInst) < numOfInsts

getInstDepth(theInst) == insts[theInst].depth
getInstDeps(theInst)  == <<insts[theInst].src1Dep, insts[theInst].src2Dep>>
getProgDepth          == progDepth

-----------------------------------------------------------------------------
TypeOK ==
  /\ opsLatency \in [Opcodes -> Nat]
  /\ numOfInsts \in 0 .. MaxInsts
  /\ i \in 0 .. numOfInsts
  /\ insts \in [0 .. i - 1 -> [inst : InstInfo, instLatency : Nat, depth : Nat,
                               src1Dep : Int, src2Dep : Int]]
  /\ \A n \in 0 .. i - 1 :
       {insts[n].src1Dep, insts[n].src2Dep} \subseteq {Entry} \cup 0 .. n - 1
  /\ lastWrite \in [Regs -> [valid : BOOLEAN, idx : Nat, instLatency : Nat,
                             depth : Nat]]
  /\ progDepth \in Nat
  /\ phase \in {"analyze", "query", "freed"}

(* What the answers mean, said over the trace alone.                       *)
Writers(r, n) == {m \in 0 .. n - 1 : insts[m].inst.dstIdx = r}
LastWriter(r, n) == IF Writers(r, n) = {} THEN Entry ELSE Max(Writers(r, n))

Reads(n, m) ==
  \/ m = LastWriter(insts[n].inst.src1Idx, n)
  \/ m = LastWriter(insts[n].inst.src2Idx, n)

(* Chains of instructions that wait for each other and end with n.         *)
Chains(n) ==
  { S \in SUBSET (0 .. n) :
      /\ n \in S
      /\ \A m \in S \ {n} : Reads(Min({k \in S : k > m}), m) }

Duration(S) == MapThenSumSet(LAMBDA m : opsLatency[insts[m].inst.opcode], S)

(* The dependences of every instruction analysed are the last writers of   *)
(* its sources before it, also when it writes a register it reads          *)
(* (dflow_calc.cpp:87-107).                                                *)
DepsAreLastWriters ==
  \A n \in 0 .. i - 1 :
    getInstDeps(n) = << LastWriter(insts[n].inst.src1Idx, n),
                        LastWriter(insts[n].inst.src2Idx, n) >>

(* What makes it inductive: lastWrite[r] is the last writer of r so far.   *)
WritesRecorded ==
  \A r \in Regs : /\ Dependence(r) = LastWriter(r, i)
                 /\ Dependence(r) \in {Entry} \cup 0 .. i - 1

(* What makes the depths inductive: the cycle at which the result of an    *)
(* instruction is there is what SrcLatency finds in the register it wrote  *)
(* last, and the program is as deep as the latest of them.                 *)
Ready(d) == IF d = Entry THEN 0
            ELSE insts[d].depth + opsLatency[insts[d].inst.opcode]

DepthsFollow ==
  /\ \A n \in 0 .. i - 1 :
       insts[n].depth = Larger(Ready(insts[n].src1Dep), Ready(insts[n].src2Dep))
  /\ \A r \in Regs : SrcLatency(r) = Ready(Dependence(r))
  /\ \A n \in 0 .. i - 1 : Ready(n) <= progDepth
  /\ (i = 0 /\ progDepth = 0) \/ \E n \in 0 .. i - 1 : Ready(n) = progDepth

(* The depth of an instruction, found in one pass from one number per      *)
(* register, is the duration of the longest chain it has to wait for       *)
(* (dflow_calc.h:44).                                                      *)
DepthIsLongestChain ==
  \A n \in 0 .. i - 1 :
    getInstDepth(n) = Max({Duration(S \ {n}) : S \in Chains(n)})

(* The depth of the program is that of its longest path, wherever in the   *)
(* program it ends (dflow_calc.h:61).                                      *)
ProgDepthIsLongest ==
  phase = "query" =>
    getProgDepth = Max({Duration(S) : S \in UNION {Chains(n) : n \in 0 .. i - 1}})

(* "<0 for invalid instruction index" (dflow_calc.h:48): an index is       *)
(* accepted only if there is such an instruction.                          *)
InvalidIndexRejected ==
  phase = "query" =>
    \A theInst \in 0 .. 2 * HalfWord - 1 : Accepted(theInst) => theInst < numOfInsts
=============================================================================
