------------------------------- MODULE MTCore -------------------------------
(***************************************************************************)
(* What the two multithreaded cores of HW4 have in common: the memory      *)
(* image that sim_api.c loads, what an instruction does to the register    *)
(* file of its thread and to the data memory, the stand-by timers, and     *)
(* the choice of the next thread.  The module has no variable; the cores   *)
(* themselves are BlockedMT and FinegrainedMT.                             *)
(***************************************************************************)
EXTENDS Integers

CONSTANTS
  N,          \* number of threads (N{x} in the image, SIM_GetThreadsNum)
  NumRegs,    \* registers of a thread (NUM_REGS, 8 in the code)
  HalfWord,   \* a machine word has 2 * HalfWord values (2^31 in the code)
  DataStart,  \* the address D@ of the data block (data_start)
  DataWords,  \* words of the data block (data[100] in the code)
  Images      \* the memory images a simulation may be started on

Threads  == 0 .. N - 1
Regs     == 0 .. NumRegs - 1
Word     == -HalfWord .. HalfWord - 1
Cells    == 0 .. DataWords - 1
NoThread == -1

AluOps    == {"ADD", "SUB", "ADDI", "SUBI"}
MemoryOps == {"LOAD", "STORE"}
Opcodes   == {"NOP", "HALT"} \cup AluOps \cup MemoryOps

Instruction == [opcode : Opcodes, dst : Regs, src1 : Regs,
                src2 : Word, isSrc2Imm : BOOLEAN]

(* A src2 that is read as a register names one.                            *)
WellFormedInstruction(in) ==
  /\ in \in Instruction
  /\ ~in.isSrc2Imm \/ in.opcode \in {"ADD", "SUB"} => in.src2 \in Regs

(* A program occupies the lines 0 .. length-1 of its thread, and control   *)
(* never runs off the last line: only HALT may be the last one.            *)
WellFormedProgram(code) ==
  /\ 0 \in DOMAIN code
  /\ \A i \in DOMAIN code :
       /\ i \in Nat
       /\ WellFormedInstruction(code[i])
       /\ code[i].opcode # "HALT" => i + 1 \in DOMAIN code

WellFormedImage(im) ==
  /\ \A t \in Threads : WellFormedProgram(im.code[t])
  /\ im.data \in [Cells -> Word]
  /\ im.load \in Nat
  /\ im.store \in Nat
  /\ im.switch \in Nat

ASSUME SizesAssumption ==
  /\ N \in Nat \ {0}
  /\ NumRegs \in Nat \ {0}
  /\ HalfWord \in Nat \ {0}
  /\ DataWords \in Nat \ {0}
  /\ DataStart \in Int

ASSUME ImagesAssumption == \A im \in Images : WellFormedImage(im)

-----------------------------------------------------------------------------
(* Instructions: two's complement arithmetic on a word.                    *)

Wrap(x) == ((x + HalfWord) % (2 * HalfWord)) - HalfWord

Src2(in, r) == IF in.isSrc2Imm THEN in.src2 ELSE r[in.src2]

(* ADD and SUB always take src2 as a register, ADDI and SUBI look at       *)
(* isSrc2Imm.                                                              *)
AluResult(in, r) ==
  CASE in.opcode = "ADD"  -> Wrap(r[in.src1] + r[in.src2])
    [] in.opcode = "SUB"  -> Wrap(r[in.src1] - r[in.src2])
    [] in.opcode = "ADDI" -> Wrap(r[in.src1] + Src2(in, r))
    [] in.opcode = "SUBI" -> Wrap(r[in.src1] - Src2(in, r))

LoadAddr(in, r)  == Wrap(r[in.src1] + Src2(in, r))
StoreAddr(in, r) == Wrap(r[in.dst] + Src2(in, r))

(* Mistake: the offset is not cut to 32 bits.                              *)
DataIndexFrom_Wide(start, addr) ==
  LET offset == addr - start
  IN  IF offset >= 0 THEN offset \div 4 ELSE -((-offset) \div 4)

(* The index into data[] of a byte address: the offset from data_start as  *)
(* an int, divided by 4 with C's rounding towards zero.                    *)
DataIndexFrom(start, addr) ==
  LET offset == Wrap(addr - start)
  IN  IF offset >= 0 THEN offset \div 4 ELSE -((-offset) \div 4)

DataIndex(addr) == DataIndexFrom(DataStart, addr)

(* An access outside data[] has no defined result in C: programs are       *)
(* assumed to stay inside the block.                                       *)
InData(addr) == DataIndex(addr) \in Cells

SIM_MemDataRead(mem, addr)       == mem[DataIndex(addr)]
SIM_MemDataWrite(mem, addr, val) == [mem EXCEPT ![DataIndex(addr)] = val]

(* What an instruction makes of the registers of its thread, and of the    *)
(* memory.                                                                 *)
Outcome(in, r, mem) ==
  IF in.opcode \in AluOps THEN [r EXCEPT ![in.dst] = AluResult(in, r)]
  ELSE IF in.opcode = "LOAD"
       THEN [r EXCEPT ![in.dst] = SIM_MemDataRead(mem, LoadAddr(in, r))]
  ELSE r

Stored(in, r, mem) ==
  IF in.opcode = "STORE"
  THEN SIM_MemDataWrite(mem, StoreAddr(in, r), r[in.src1])
  ELSE mem

-----------------------------------------------------------------------------
(* Timers and thread selection.                                            *)

isRunningThreads(done) == \E t \in Threads : ~done[t]

(* Mistakes: no clamp at zero; a timer that cannot be decreased by the     *)
(* whole time is not reset.                                                *)
sbTimerHandler_NoClamp(timer, time) == [t \in Threads |-> timer[t] - time]
sbTimerHandler_NoReset(timer, time) ==
  [t \in Threads |-> IF timer[t] - time > 0 THEN timer[t] - time ELSE timer[t]]

sbTimerHandler(timer, time) ==
  [t \in Threads |-> IF timer[t] - time > 0 THEN timer[t] - time ELSE 0]

RRpolicy(t) == IF t = N - 1 THEN 0 ELSE t + 1

(* How many times RRpolicy must be applied to get from one thread to       *)
(* another.                                                                *)
RRDistance(from, t) == IF t >= from THEN t - from ELSE t - from + N

(* Thread t goes before thread u in a search that starts at thread from:   *)
(* less time to wait or, with equal times, earlier in round-robin order.   *)
Before(from, timer, t, u) ==
  \/ timer[t] < timer[u]
  \/ timer[t] = timer[u] /\ RRDistance(from, t) <= RRDistance(from, u)

(* Mistake: the first live thread in round-robin order, ready or not.      *)
FirstReady_AnyLive(from, timer, done) ==
  IF isRunningThreads(done)
  THEN CHOOSE t \in Threads :
         /\ ~done[t]
         /\ \A u \in Threads : ~done[u] => RRDistance(from, t) <= RRDistance(from, u)
  ELSE NoThread

(* What both search loops of getNextThread compute (NextThreadSearch runs  *)
(* the loops themselves): the live thread with the shortest stand-by time, *)
(* ties broken in round-robin order, -1 if every thread is done.           *)
FirstReady(from, timer, done) ==
  IF isRunningThreads(done)
  THEN CHOOSE t \in Threads :
         /\ ~done[t]
         /\ \A u \in Threads : ~done[u] => Before(from, timer, t, u)
  ELSE NoThread

getNextThread(threadID, timer, done) == FirstReady(threadID, timer, done)

(* Mistake: the search starts at the current thread.                       *)
getNextThreadFine_FromCurrent(threadID, timer, done) ==
  FirstReady(threadID, timer, done)

(* The fine-grained core starts its search behind the current thread.      *)
getNextThreadFine(threadID, timer, done) ==
  FirstReady(RRpolicy(threadID), timer, done)
=============================================================================
