---------------------------- MODULE FinegrainedMT ----------------------------
(***************************************************************************)
(* CORE_FinegrainedMT: the core changes the thread after every             *)
(* instruction, at no cost, and lets a cycle go by when the chosen thread  *)
(* is not ready.  One iteration of the main loop is one step.              *)
(***************************************************************************)
EXTENDS MTCore

VARIABLES
  img, sbTimer, done, instId, threadID, regs, data, cyclesNum, instNum,
  phase,          \* "loop": in the main loop; "end": the core has returned
  \* History, read by the properties only:
  due,            \* due[t]: cycle at which thread t may issue again
  lastIssued,     \* the thread that issued last (N - 1 before any did)
  overtaken       \* overtaken[t][u]: how often u issued while t was ready,
                  \* since t issued last

history == <<due, lastIssued, overtaken>>
vars == <<img, sbTimer, done, instId, threadID, regs, data, cyclesNum,
          instNum, phase, history>>

(* The local variables of the core and its statistics.                     *)
InitLocals ==
  /\ sbTimer = [t \in Threads |-> 0]
  /\ done = [t \in Threads |-> FALSE]
  /\ instId = [t \in Threads |-> 0]
  /\ threadID = 0
  /\ regs = [t \in Threads |-> [r \in Regs |-> 0]]
  /\ cyclesNum = 0
  /\ instNum = 0
  /\ phase = "loop"
  /\ due = [t \in Threads |-> 0]
  /\ lastIssued = N - 1
  /\ overtaken = [t \in Threads |-> [u \in Threads |-> 0]]

Init == img \in Images /\ data = img.data /\ InitLocals

-----------------------------------------------------------------------------
Inst == img.code[threadID][instId[threadID]]

Ready(t) == ~done[t] /\ sbTimer[t] = 0

Overtake ==
  overtaken' = [t \in Threads |-> [u \in Threads |->
                  IF t = threadID THEN 0
                  ELSE IF u = threadID /\ Ready(t) THEN overtaken[t][u] + 1
                  ELSE overtaken[t][u]]]

(* An iteration that executes an instruction with stand-by timer `timer':  *)
(* one cycle is over, the next thread is chosen, and the thread that       *)
(* issued moves on to its next line.                                       *)
Issue(timer, doneAfter) ==
  LET left == sbTimerHandler([sbTimer EXCEPT ![threadID] = timer], 1) IN
  /\ phase = "loop"
  /\ isRunningThreads(done)
  /\ sbTimer[threadID] = 0
  /\ instNum' = instNum + 1
  /\ done' = doneAfter
  /\ sbTimer' = left
  /\ threadID' = getNextThreadFine(threadID, left, doneAfter)
  /\ instId' = [instId EXCEPT ![threadID] = @ + 1]
  /\ cyclesNum' = cyclesNum + 1
  /\ due' = [due EXCEPT ![threadID] = cyclesNum + timer]
  /\ lastIssued' = threadID
  /\ Overtake
  /\ UNCHANGED <<img, phase>>

ExecNop ==
  /\ Issue(0, done)
  /\ Inst.opcode = "NOP"
  /\ UNCHANGED <<regs, data>>

ExecAlu ==
  /\ Issue(1, done)
  /\ Inst.opcode \in AluOps
  /\ regs' = [regs EXCEPT ![threadID][Inst.dst] = AluResult(Inst, regs[threadID])]
  /\ UNCHANGED data

ExecLoad ==
  LET addr == LoadAddr(Inst, regs[threadID]) IN
  /\ Issue(img.load + 1, done)
  /\ Inst.opcode = "LOAD"
  /\ InData(addr)
  /\ regs' = [regs EXCEPT ![threadID][Inst.dst] = SIM_MemDataRead(data, addr)]
  /\ UNCHANGED data

(* Mistake: the value and the base register are swapped.                   *)
ExecStore_Swapped ==
  LET addr == LoadAddr(Inst, regs[threadID]) IN
  /\ Issue(img.store + 1, done)
  /\ Inst.opcode = "STORE"
  /\ InData(addr)
  /\ data' = SIM_MemDataWrite(data, addr, regs[threadID][Inst.dst])
  /\ UNCHANGED regs

ExecStore ==
  LET addr == StoreAddr(Inst, regs[threadID]) IN
  /\ Issue(img.store + 1, done)
  /\ Inst.opcode = "STORE"
  /\ InData(addr)
  /\ data' = SIM_MemDataWrite(data, addr, regs[threadID][Inst.src1])
  /\ UNCHANGED regs

ExecHalt ==
  /\ Issue(1, [done EXCEPT ![threadID] = TRUE])
  /\ Inst.opcode = "HALT"
  /\ UNCHANGED <<regs, data>>

(* Mistakes: no cycle goes by while the core idles; the core moves on to   *)
(* the next thread while it idles.                                         *)
Idle_NoCycle ==
  /\ phase = "loop"
  /\ isRunningThreads(done)
  /\ sbTimer[threadID] # 0
  /\ UNCHANGED vars
Idle_MovesOn ==
  /\ phase = "loop"
  /\ isRunningThreads(done)
  /\ sbTimer[threadID] # 0
  /\ sbTimer' = sbTimerHandler(sbTimer, 1)
  /\ threadID' = RRpolicy(threadID)
  /\ cyclesNum' = cyclesNum + 1
  /\ UNCHANGED <<img, done, instId, regs, data, instNum, phase, history>>

(* The chosen thread is not ready: a cycle goes by, the choice stands.     *)
Idle ==
  /\ phase = "loop"
  /\ isRunningThreads(done)
  /\ sbTimer[threadID] # 0
  /\ sbTimer' = sbTimerHandler(sbTimer, 1)
  /\ cyclesNum' = cyclesNum + 1
  /\ UNCHANGED <<img, done, instId, threadID, regs, data, instNum, phase,
                 history>>

Exit ==
  /\ phase = "loop"
  /\ ~isRunningThreads(done)
  /\ phase' = "end"
  /\ UNCHANGED <<img, sbTimer, done, instId, threadID, regs, data, cyclesNum,
                 instNum, history>>

Step ==
  \/ ExecNop \/ ExecAlu \/ ExecLoad \/ ExecStore \/ ExecHalt
  \/ Idle \/ Exit

(* Returned cores stay as they are.                                        *)
Returned == phase = "end" /\ UNCHANGED vars

Next == Step \/ Returned

Spec == Init /\ [][Next]_vars

(* The core is a sequential function: the program always takes its next    *)
(* step.                                                                   *)
FairSpec == Spec /\ WF_vars(Step)

-----------------------------------------------------------------------------
TypeOK ==
  /\ img \in Images
  /\ sbTimer \in [Threads -> Nat]
  /\ done \in [Threads -> BOOLEAN]
  /\ instId \in [Threads -> Nat]
  /\ threadID \in Threads \cup {NoThread}
  /\ regs \in [Threads -> [Regs -> Word]]
  /\ data \in [Cells -> Word]
  /\ cyclesNum \in Nat
  /\ instNum \in Nat
  /\ phase \in {"loop", "end"}
  /\ due \in [Threads -> Nat]
  /\ lastIssued \in Threads
  /\ overtaken \in [Threads -> [Threads -> Nat]]

(* The choice made when the last instruction issued is still the right one *)
(* after any number of idle cycles: the else branch (core_api.cpp:320)     *)
(* need not choose again.                                                  *)
ChoiceStands ==
  phase = "loop" => threadID = getNextThreadFine(lastIssued, sbTimer, done)

(* The timers measure time: a live thread stands by for exactly the rest   *)
(* of its last instruction and, after LOAD or STORE, its latency.          *)
TimerMeetsDeadline ==
  \A t \in Threads : ~done[t] =>
    sbTimer[t] = IF due[t] > cyclesNum THEN due[t] - cyclesNum ELSE 0

(* Round robin (core_api.cpp:221): a thread that is ready is overtaken by  *)
(* each other thread at most once before it issues.                        *)
OvertakenAtMostOnce ==
  \A t, u \in Threads : ~done[t] => overtaken[t][u] <= 1

(* A cycle is idle only when no live thread is ready.                      *)
NeverIdlesWhileReady ==
  [][cyclesNum' # cyclesNum /\ instNum' = instNum =>
       \A t \in Threads : ~done[t] => sbTimer[t] # 0]_vars

(* Every thread executes its program in order on the shared memory, each   *)
(* instruction once and whole, and every live thread gets on: instId of    *)
(* the issuing thread is increased after threadID has already changed      *)
(* (core_api.cpp:317-318).                                                 *)
SC == INSTANCE SCThreads
ImplementsSC == SC!Spec

(* Every program ends, so the core returns.                                *)
Returns == <>(phase = "end")
-----------------------------------------------------------------------------
(* What makes these properties inductive.                                  *)

(* A live thread has a line to execute next.                               *)
LinesExist ==
  \A t \in Threads : ~done[t] => instId[t] \in DOMAIN img.code[t]

FineInv == TypeOK /\ ChoiceStands /\ LinesExist

(* A thread that has been overtaken is ready, and now comes before the one *)
(* that has overtaken it.                                                  *)
OvertakenIsNext ==
  \A t, u \in Threads : ~done[t] /\ overtaken[t][u] # 0 =>
    /\ overtaken[t][u] = 1
    /\ sbTimer[t] = 0
    /\ RRDistance(RRpolicy(lastIssued), t) < RRDistance(RRpolicy(lastIssued), u)
=============================================================================
