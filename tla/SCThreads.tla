------------------------------ MODULE SCThreads ------------------------------
(***************************************************************************)
(* What a multithreaded core promises, with everything about time left     *)
(* out: every thread executes its own program in program order, one        *)
(* instruction at a time, and all threads share one data memory.  Which    *)
(* thread goes next is not said; every thread that has not halted          *)
(* eventually executes its next instruction.                               *)
(***************************************************************************)
EXTENDS MTCore

VARIABLES
  img,     \* the memory image
  instId,  \* instId[t]: line of the next instruction of thread t
  done,    \* done[t]: thread t has executed its HALT
  regs,    \* regs[t][r]
  data     \* the data memory all threads share

vars == <<img, instId, done, regs, data>>

Init ==
  /\ img \in Images
  /\ instId = [t \in Threads |-> 0]
  /\ done = [t \in Threads |-> FALSE]
  /\ regs = [t \in Threads |-> [r \in Regs |-> 0]]
  /\ data = img.data

Fetch(t) == img.code[t][instId[t]]

Advance(t) == 
  /\ ~done[t]
  /\ instId' = [instId EXCEPT ![t] = @ + 1]
  /\ UNCHANGED img

Nop(t) ==
  /\ Fetch(t).opcode = "NOP"
  /\ Advance(t)
  /\ UNCHANGED <<done, regs, data>>

Alu(t) ==
  /\ Fetch(t).opcode \in AluOps
  /\ Advance(t)
  /\ regs' = [regs EXCEPT ![t][Fetch(t).dst] = AluResult(Fetch(t), regs[t])]
  /\ UNCHANGED <<done, data>>

Load(t) ==
  LET addr == LoadAddr(Fetch(t), regs[t]) IN
  /\ Fetch(t).opcode = "LOAD"
  /\ Advance(t)
  /\ InData(addr)
  /\ regs' = [regs EXCEPT ![t][Fetch(t).dst] = SIM_MemDataRead(data, addr)]
  /\ UNCHANGED <<done, data>>

Store(t) ==
  LET addr == StoreAddr(Fetch(t), regs[t]) IN
  /\ Fetch(t).opcode = "STORE"
  /\ Advance(t)
  /\ InData(addr)
  /\ data' = SIM_MemDataWrite(data, addr, regs[t][Fetch(t).src1])
  /\ UNCHANGED <<done, regs>>

Halt(t) ==
  /\ Fetch(t).opcode = "HALT"
  /\ Advance(t)
  /\ done' = [done EXCEPT ![t] = TRUE]
  /\ UNCHANGED <<regs, data>>

Step(t) == ~done[t] /\ (Nop(t) \/ Alu(t) \/ Load(t) \/ Store(t) \/ Halt(t))

Next == \E t \in Threads : Step(t)

Spec == Init /\ [][Next]_vars /\ \A t \in Threads : WF_vars(Step(t))
=============================================================================
