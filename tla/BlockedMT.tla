------------------------------ MODULE BlockedMT ------------------------------
(***************************************************************************)
(* CORE_BlockedMT: one thread runs until it executes a LOAD, a STORE or    *)
(* HALT.  Then the core picks the thread with the shortest stand-by time,  *)
(* idles until that thread is ready, pays the switch penalty and goes on.  *)
(*                                                                         *)
(* An iteration of the main loop that executes NOP, ADD, ADDI, SUB or SUBI *)
(* is one step.  One that executes LOAD, STORE or HALT is cut at the inner *)
(* idle loop: issue, one step per idle cycle, and the end of the iteration.*)
(***************************************************************************)
EXTENDS MTCore

CONSTANTS
  GhostTimers,  \* what the heap may hold where threads[-1].sbTimer is read
  MaxCycles     \* bound on cyclesNum while the core spins on threads[-1]

ASSUME GhostAssumption  == GhostTimers \subseteq Int
ASSUME CyclesAssumption == MaxCycles \in Nat

VARIABLES
  img,            \* the memory image
  sbTimer,        \* cycles a thread still has to stand by
  done,           \* the thread has executed HALT
  instId,         \* the line of the thread's next instruction
  threadID,       \* the thread that runs, or is about to
  currThreadID,   \* the thread whose instruction this iteration executes
  regs, data,     \* register files, data memory
  cyclesNum, instNum,
  phase,          \* "loop": at the head of the main loop; "wait": in the
                  \* inner idle loop; "end": CORE_BlockedMT has returned
  ghostTimer,     \* the value threads[-1].sbTimer is read as
  \* History, read by the properties only:
  due,            \* due[t]: cycle at which thread t's last instruction is over
  idles,          \* idle cycles so far
  lastIssued,     \* the thread that issued last
  switches        \* times an instruction followed one of another thread

history == <<due, idles, lastIssued, switches>>
vars == <<img, sbTimer, done, instId, threadID, currThreadID, regs, data,
          cyclesNum, instNum, phase, ghostTimer, history>>

(* The local variables of the core and its statistics.                     *)
InitLocals ==
  /\ sbTimer = [t \in Threads |-> 0]
  /\ done = [t \in Threads |-> FALSE]
  /\ instId = [t \in Threads |-> 0]
  /\ threadID = 0
  /\ currThreadID = 0
  /\ regs = [t \in Threads |-> [r \in Regs |-> 0]]
  /\ cyclesNum = 0
  /\ instNum = 0
  /\ phase = "loop"
  /\ ghostTimer \in GhostTimers
  /\ due = [t \in Threads |-> 0]
  /\ idles = 0
  /\ lastIssued = 0
  /\ switches = 0

Init == img \in Images /\ data = img.data /\ InitLocals

-----------------------------------------------------------------------------
Inst == img.code[threadID][instId[threadID]]

(* Every iteration that executes an instruction begins so; lat is how long *)
(* the instruction keeps its thread busy.                                  *)
Issue(lat) ==
  /\ phase = "loop"
  /\ isRunningThreads(done)
  /\ sbTimer[threadID] = 0
  /\ instNum' = instNum + 1
  /\ currThreadID' = threadID
  /\ due' = [due EXCEPT ![threadID] = cyclesNum + lat]
  /\ lastIssued' = threadID
  /\ switches' = IF lastIssued = threadID THEN switches ELSE switches + 1
  /\ UNCHANGED <<img, ghostTimer, idles>>

(* Mistakes: the penalty cycles do not count for the timers; the thread    *)
(* that is switched to moves on.                                           *)
FinishIteration_PenaltyOffTimers(timer, pen, thread) ==
  /\ sbTimer' = sbTimerHandler(timer, 1)
  /\ instId' = [instId EXCEPT ![thread] = @ + 1]
  /\ cyclesNum' = cyclesNum + pen + 1
FinishIteration_NewThread(timer, pen, thread) ==
  /\ sbTimer' = sbTimerHandler(sbTimerHandler(timer, pen), 1)
  /\ instId' = [instId EXCEPT ![IF threadID = NoThread THEN thread ELSE threadID] = @ + 1]
  /\ cyclesNum' = cyclesNum + pen + 1

(* ... and ends so, after pen cycles of switch penalty: one cycle is over, *)
(* the thread that issued moves on to its next line.                       *)
FinishIteration(timer, pen, thread) ==
  /\ sbTimer' = sbTimerHandler(sbTimerHandler(timer, pen), 1)
  /\ instId' = [instId EXCEPT ![thread] = @ + 1]
  /\ cyclesNum' = cyclesNum + pen + 1

ExecNop ==
  /\ Issue(0)
  /\ Inst.opcode = "NOP"
  /\ FinishIteration(sbTimer, 0, threadID)
  /\ UNCHANGED <<done, threadID, regs, data, phase>>

ExecAlu ==
  /\ Issue(1)
  /\ Inst.opcode \in AluOps
  /\ regs' = [regs EXCEPT ![threadID][Inst.dst] = AluResult(Inst, regs[threadID])]
  /\ FinishIteration([sbTimer EXCEPT ![threadID] = 1], 0, threadID)
  /\ UNCHANGED <<done, threadID, data, phase>>

(* The thread has to stand by for lat cycles: choose who goes on.          *)
StandBy(lat, doneAfter) ==
  LET timer == [sbTimer EXCEPT ![threadID] = lat] IN
  /\ Issue(lat)
  /\ sbTimer' = timer
  /\ done' = doneAfter
  /\ threadID' = getNextThread(threadID, timer, doneAfter)
  /\ phase' = "wait"
  /\ UNCHANGED <<instId, cyclesNum>>

ExecLoad ==
  LET addr == LoadAddr(Inst, regs[threadID]) IN
  /\ StandBy(img.load, done)
  /\ Inst.opcode = "LOAD"
  /\ InData(addr)
  /\ regs' = [regs EXCEPT ![threadID][Inst.dst] = SIM_MemDataRead(data, addr)]
  /\ UNCHANGED data

ExecStore ==
  LET addr == StoreAddr(Inst, regs[threadID]) IN
  /\ StandBy(img.store, done)
  /\ Inst.opcode = "STORE"
  /\ InData(addr)
  /\ data' = SIM_MemDataWrite(data, addr, regs[threadID][Inst.src1])
  /\ UNCHANGED regs

ExecHalt ==
  /\ StandBy(1, [done EXCEPT ![threadID] = TRUE])
  /\ Inst.opcode = "HALT"
  /\ UNCHANGED <<regs, data>>

(* Mistake: the idle loop only looks at the timer, no cycle goes by.       *)
Idle_NoCycle ==
  /\ phase # "end"
  /\ phase = "loop" => isRunningThreads(done)
  /\ threadID # NoThread
  /\ sbTimer[threadID] # 0
  /\ UNCHANGED vars

(* One turn of the inner idle loop, or the else branch of the main loop:   *)
(* the chosen thread is not ready, a cycle goes by.                        *)
Idle ==
  /\ phase # "end"
  /\ phase = "loop" => isRunningThreads(done)
  /\ threadID # NoThread
  /\ sbTimer[threadID] # 0
  /\ sbTimer' = sbTimerHandler(sbTimer, 1)
  /\ cyclesNum' = cyclesNum + 1
  /\ idles' = idles + 1
  /\ UNCHANGED <<img, done, instId, threadID, currThreadID, regs, data,
                 instNum, phase, ghostTimer, due, lastIssued, switches>>

(* After the last HALT getNextThread returns -1, and the inner idle loop   *)
(* waits for threads[-1].sbTimer, which no one ever changes.               *)
SpinOnNoThread ==
  /\ phase = "wait"
  /\ threadID = NoThread
  /\ ghostTimer # 0
  /\ sbTimer' = sbTimerHandler(sbTimer, 1)
  /\ cyclesNum' = IF cyclesNum < MaxCycles THEN cyclesNum + 1 ELSE cyclesNum
  /\ UNCHANGED <<img, done, instId, threadID, currThreadID, regs, data,
                 instNum, phase, ghostTimer, history>>

(* Mistake: the penalty is paid even when the thread stays the same.       *)
SwitchPenalty_Always == img.switch

(* The inner idle loop is over.  HALT always pays the penalty, LOAD and    *)
(* STORE pay it when they change the thread.                               *)
SwitchPenalty ==
  IF done[currThreadID] \/ currThreadID # threadID THEN img.switch ELSE 0

(* Mistake: the core does not wait for the chosen thread.                  *)
Resume_NoWait ==
  /\ phase = "wait"
  /\ FinishIteration(sbTimer, SwitchPenalty, currThreadID)
  /\ phase' = "loop"
  /\ UNCHANGED <<img, done, threadID, currThreadID, regs, data, instNum,
                 ghostTimer, history>>

Resume ==
  /\ phase = "wait"
  /\ IF threadID = NoThread THEN ghostTimer = 0 ELSE sbTimer[threadID] = 0
  /\ FinishIteration(sbTimer, SwitchPenalty, currThreadID)
  /\ phase' = "loop"
  /\ UNCHANGED <<img, done, threadID, currThreadID, regs, data, instNum,
                 ghostTimer, history>>

(* No thread is left: the penalty of the last HALT is taken back.          *)
Exit ==
  /\ phase = "loop"
  /\ ~isRunningThreads(done)
  /\ cyclesNum' = cyclesNum - img.switch
  /\ phase' = "end"
  /\ UNCHANGED <<img, sbTimer, done, instId, threadID, currThreadID, regs,
                 data, instNum, ghostTimer, history>>

Step ==
  \/ ExecNop \/ ExecAlu \/ ExecLoad \/ ExecStore \/ ExecHalt
  \/ Idle \/ SpinOnNoThread \/ Resume \/ Exit

(* Returned cores stay as they are.                                        *)
Returned == phase = "end" /\ UNCHANGED vars

Next == Step \/ Returned

Spec == Init /\ [][Next]_vars

(* The core is a sequential function: the program always takes its next    *)
(* step.                                                                   *)
FairSpec == Spec /\ WF_vars(Step)

-----------------------------------------------------------------------------
TypeOK ==
  /\ img \in Images
  /\ sbTimer \in [Threads -> Nat]
  /\ done \in [Threads -> BOOLEAN]
  /\ instId \in [Threads -> Nat]
  /\ threadID \in Threads \cup {NoThread}
  /\ currThreadID \in Threads
  /\ regs \in [Threads -> [Regs -> Word]]
  /\ data \in [Cells -> Word]
  /\ cyclesNum \in Int
  /\ instNum \in Nat
  /\ phase \in {"loop", "wait", "end"}
  /\ ghostTimer \in GhostTimers
  /\ due \in [Threads -> Int]
  /\ idles \in Nat
  /\ lastIssued \in Threads
  /\ switches \in Nat

(* At the head of the main loop the current thread is live and ready: the  *)
(* else branch (core_api.cpp:210), which would let cycles pass without     *)
(* choosing again, is never taken, and no finished thread is ever run.     *)
ReadyAtLoopHead ==
  phase = "loop" /\ isRunningThreads(done) =>
    threadID # NoThread /\ ~done[threadID] /\ sbTimer[threadID] = 0

(* While the core waits for a thread, no live thread would be ready sooner *)
(* (core_api.cpp:72), however long it has waited already.                  *)
WaitsForEarliest ==
  phase = "wait" /\ threadID # NoThread =>
    /\ ~done[threadID]
    /\ \A u \in Threads : ~done[u] => sbTimer[threadID] <= sbTimer[u]

(* The timers measure time: whatever mixture of executed, idle and penalty *)
(* cycles has gone by, a live thread stands by for exactly the rest of the *)
(* latency of its last instruction.                                        *)
TimerMeetsDeadline ==
  phase # "end" =>
    \A t \in Threads : ~done[t] =>
      sbTimer[t] = IF due[t] > cyclesNum THEN due[t] - cyclesNum ELSE 0

(* When the core returns, the cycles it reports are the instructions, the  *)
(* idle cycles and one penalty for each time an instruction followed one   *)
(* of another thread: the penalty that the last HALT has paid and Exit     *)
(* takes back (core_api.cpp:146, 217) cancel out.                          *)
CyclesAccounted ==
  phase = "end" => cyclesNum = instNum + idles + img.switch * switches

(* A cycle is idle only when no live thread is ready.                      *)
NeverIdlesWhileReady ==
  [][idles' # idles => \A t \in Threads : ~done[t] => sbTimer[t] # 0]_vars

(* The line thread t executes next; the thread that issued moves on only   *)
(* after the wait, when threadID may be another thread.                    *)
NextLine(t) ==
  IF phase = "wait" /\ t = currThreadID THEN instId[t] + 1 ELSE instId[t]

(* Every thread executes its program in order on the shared memory, each   *)
(* instruction once and whole, and every live thread gets on               *)
(* (core_api.cpp:127-208).                                                 *)
SC == INSTANCE SCThreads WITH instId <- [t \in Threads |-> NextLine(t)]
ImplementsSC == SC!Spec

(* The core returns, if threads[-1].sbTimer happens to be read as 0.       *)
ReturnsIfGhostIsZero == ghostTimer = 0 => <>(phase = "end")

(* The core returns once no thread is running: the main loop is commented  *)
(* "while some threads are still running" (core_api.cpp:127).              *)
EndsWhenAllDone == ~isRunningThreads(done) ~> (phase = "end")

-----------------------------------------------------------------------------
(* What makes these properties inductive.                                  *)

(* -1 is chosen exactly when every thread is done.                         *)
NoThreadWhenDone == threadID = NoThread <=> ~isRunningThreads(done)

(* A live thread has a line to execute next.                               *)
LinesExist ==
  \A t \in Threads : ~done[t] => NextLine(t) \in DOMAIN img.code[t]

BlockedInv ==
  /\ TypeOK
  /\ ReadyAtLoopHead
  /\ WaitsForEarliest
  /\ NoThreadWhenDone
  /\ LinesExist

(* The books during the run: Exit has still to take back the penalty that  *)
(* a change to another thread has already cost.                            *)
Account ==
  /\ phase = "loop" =>
       cyclesNum = instNum + idles + img.switch * switches
                   + (IF threadID = lastIssued THEN 0 ELSE img.switch)
  /\ phase = "wait" =>
       /\ lastIssued = currThreadID
       /\ threadID # NoThread \/ ghostTimer = 0 =>
            cyclesNum = instNum - 1 + idles + img.switch * switches
  /\ CyclesAccounted
=============================================================================
