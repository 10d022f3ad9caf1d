---------------------------- MODULE BlockedMTProofs ----------------------------
(***************************************************************************)
(* The invariants of the blocked core, for every image, every number of    *)
(* threads and registers, all latencies and whatever threads[-1] holds.    *)
(***************************************************************************)
EXTENDS BlockedMT, MTCoreTheorems

(* What an image provides.                                                 *)
LEMMA ImageFacts ==
  ASSUME NEW im \in Images
  PROVE  /\ im.load \in Nat /\ im.store \in Nat /\ im.switch \in Nat
         /\ im.data \in [Cells -> Word]
         /\ \A t \in Threads :
              /\ 0 \in DOMAIN im.code[t]
              /\ \A line \in DOMAIN im.code[t] :
                   /\ line \in Nat
                   /\ WellFormedInstruction(im.code[t][line])
                   /\ im.code[t][line].opcode # "HALT" =>
                        line + 1 \in DOMAIN im.code[t]
BY ImagesAssumption DEF WellFormedImage, WellFormedProgram

(* Whoever issues is live and stands on a well-formed instruction.         *)
LEMMA IssueContext ==
  ASSUME BlockedInv, phase = "loop", isRunningThreads(done)
  PROVE  /\ threadID \in Threads /\ ~done[threadID] /\ sbTimer[threadID] = 0
         /\ img \in Images
         /\ instId[threadID] \in DOMAIN img.code[threadID]
         /\ WellFormedInstruction(Inst)
         /\ Inst.opcode # "HALT" =>
              instId[threadID] + 1 \in DOMAIN img.code[threadID]
         /\ regs[threadID] \in [Regs -> Word]
<1>1. threadID \in Threads /\ ~done[threadID] /\ sbTimer[threadID] = 0
  BY DEF BlockedInv, TypeOK, ReadyAtLoopHead
<1>2. instId[threadID] \in DOMAIN img.code[threadID]
  BY <1>1 DEF BlockedInv, LinesExist, NextLine
<1>3. img \in Images /\ regs[threadID] \in [Regs -> Word]
  BY <1>1 DEF BlockedInv, TypeOK
<1>4. QED BY <1>1, <1>2, <1>3, ImageFacts DEF Inst

(* The selection of the next thread.                                       *)
LEMMA ChoiceFacts ==
  ASSUME NEW from \in Threads, NEW timer \in [Threads -> Nat],
         NEW dn \in [Threads -> BOOLEAN]
  PROVE  LET t == getNextThread(from, timer, dn) IN
         /\ t \in Threads \cup {NoThread}
         /\ t = NoThread <=> ~isRunningThreads(dn)
         /\ t # NoThread =>
              /\ ~dn[t]
              /\ \A u \in Threads : ~dn[u] => timer[t] <= timer[u]
<1> DEFINE t == FirstReady(from, timer, dn)
<1>1. CASE isRunningThreads(dn)
  <2>1. /\ t \in Threads /\ ~dn[t]
        /\ \A u \in Threads : ~dn[u] => Before(from, timer, t, u)
    BY <1>1, FirstReadyIsFirst
  <2>2. t # NoThread
    BY <2>1 DEF Threads, NoThread
  <2>3. \A u \in Threads : ~dn[u] => timer[t] <= timer[u]
    BY <2>1 DEF Before
  <2>4. QED BY <1>1, <2>1, <2>2, <2>3 DEF getNextThread
<1>2. CASE ~isRunningThreads(dn)
  BY <1>2 DEF getNextThread, FirstReady
<1>3. QED BY <1>1, <1>2

-----------------------------------------------------------------------------
LEMMA BlockedInit == Init => BlockedInv
<1> SUFFICES ASSUME Init PROVE BlockedInv
  OBVIOUS
<1> USE DEF Init, InitLocals
<1>1. 0 \in Threads /\ 0 \in Word /\ NoThread # 0
  BY SizesAssumption DEF Threads, Word, NoThread
<1>2. data \in [Cells -> Word]
  BY ImageFacts
<1>3. TypeOK
  BY <1>1, <1>2 DEF TypeOK
<1>4. isRunningThreads(done)
  BY <1>1 DEF isRunningThreads
<1>5. ReadyAtLoopHead /\ WaitsForEarliest /\ NoThreadWhenDone
  BY <1>1, <1>4 DEF ReadyAtLoopHead, WaitsForEarliest, NoThreadWhenDone
<1>6. LinesExist
  BY ImageFacts DEF LinesExist, NextLine
<1>7. QED BY <1>3, <1>5, <1>6 DEF BlockedInv

(* The variables an issuing iteration always treats alike.                 *)
LEMMA IssueTypes ==
  ASSUME BlockedInv, NEW lat \in Nat, Issue(lat)
  PROVE  /\ img' \in Images
         /\ currThreadID' \in Threads
         /\ instNum' \in Nat
         /\ ghostTimer' \in GhostTimers
         /\ due' \in [Threads -> Int]
         /\ idles' \in Nat
         /\ lastIssued' \in Threads
         /\ switches' \in Nat
<1>1. threadID \in Threads
  BY IssueContext DEF Issue
<1>2. cyclesNum + lat \in Int
  BY DEF BlockedInv, TypeOK
<1>3. QED BY <1>1, <1>2 DEF Issue, BlockedInv, TypeOK

(* An iteration that does not wait: the thread goes on, it is ready again  *)
(* after the cycle.                                                        *)
LEMMA GoOnStep ==
  ASSUME BlockedInv, NEW lat \in {0, 1}, Issue(lat), Inst.opcode # "HALT",
         NEW timer \in [Threads -> Nat],
         timer = sbTimer \/ timer = [sbTimer EXCEPT ![threadID] = 1],
         FinishIteration(timer, 0, threadID),
         regs' \in [Threads -> [Regs -> Word]],
         UNCHANGED <<done, threadID, data, phase>>
  PROVE  BlockedInv'
<1>1. /\ threadID \in Threads /\ ~done[threadID] /\ sbTimer[threadID] = 0
      /\ instId[threadID] + 1 \in DOMAIN img.code[threadID]
      /\ phase = "loop" /\ isRunningThreads(done) /\ img' = img
      /\ currThreadID' = threadID
  BY IssueContext DEF Issue
<1>2. sbTimer' \in [Threads -> Nat] /\ sbTimer'[threadID] = 0
  <2>1. timer[threadID] \in {0, 1} /\ sbTimer \in [Threads -> Nat]
    BY <1>1 DEF BlockedInv, TypeOK
  <2>2. /\ sbTimer' \in [Threads -> Nat]
        /\ \A t \in Threads :
             sbTimer'[t] = IF timer[t] > 0 + 1 THEN timer[t] - (0 + 1) ELSE 0
    BY EndOfIteration, SMTT(30) DEF FinishIteration
  <2>3. QED BY <1>1, <2>1, <2>2
<1>3. instId' = [instId EXCEPT ![threadID] = @ + 1] /\ cyclesNum' \in Int
      /\ instId' \in [Threads -> Nat]
  <2>1. instId \in [Threads -> Nat] /\ cyclesNum \in Int
    BY DEF BlockedInv, TypeOK
  <2>2. instId' = [instId EXCEPT ![threadID] = @ + 1]
        /\ cyclesNum' = cyclesNum + 0 + 1
    BY DEF FinishIteration
  <2>3. QED BY <1>1, <2>1, <2>2
<1>4. TypeOK'
  BY <1>1, <1>2, <1>3, IssueTypes DEF BlockedInv, TypeOK
<1>5. ReadyAtLoopHead' /\ WaitsForEarliest' /\ NoThreadWhenDone'
  BY <1>1, <1>2
     DEF BlockedInv, ReadyAtLoopHead, WaitsForEarliest, NoThreadWhenDone,
         isRunningThreads
<1>6. LinesExist'
  <2>1. instId \in [Threads -> Nat]
    BY DEF BlockedInv, TypeOK
  <2>2. QED
    BY <1>1, <1>3, <2>1 DEF BlockedInv, LinesExist, NextLine
<1>7. QED BY <1>4, <1>5, <1>6 DEF BlockedInv

(* An iteration that stops to wait: a live thread is chosen if there is    *)
(* one, none would be ready sooner.                                        *)
LEMMA StandByStep ==
  ASSUME BlockedInv, NEW lat \in Nat, NEW doneAfter,
         StandBy(lat, doneAfter),
         \/ doneAfter = done /\ Inst.opcode # "HALT"
         \/ doneAfter = [done EXCEPT ![threadID] = TRUE],
         regs' \in [Threads -> [Regs -> Word]],
         data' \in [Cells -> Word]
  PROVE  BlockedInv'
<1>1. /\ threadID \in Threads /\ ~done[threadID]
      /\ Inst.opcode # "HALT" =>
           instId[threadID] + 1 \in DOMAIN img.code[threadID]
      /\ phase = "loop" /\ Issue(lat)
      /\ currThreadID' = threadID /\ img' = img
  BY IssueContext DEF StandBy, Issue
<1> DEFINE timer == [sbTimer EXCEPT ![threadID] = lat]
<1>2. timer \in [Threads -> Nat] /\ doneAfter \in [Threads -> BOOLEAN]
  BY DEF BlockedInv, TypeOK
<1>3. /\ sbTimer' = timer /\ done' = doneAfter /\ phase' = "wait"
      /\ threadID' = getNextThread(threadID, timer, doneAfter)
      /\ instId' = instId /\ cyclesNum' = cyclesNum
  BY DEF StandBy
<1>4. /\ threadID' \in Threads \cup {NoThread}
      /\ threadID' = NoThread <=> ~isRunningThreads(doneAfter)
      /\ threadID' # NoThread =>
           /\ ~doneAfter[threadID']
           /\ \A u \in Threads : ~doneAfter[u] => timer[threadID'] <= timer[u]
  <2> HIDE DEF timer
  <2>1. QED BY <1>1, <1>2, <1>3, ChoiceFacts
<1>5. TypeOK'
  BY <1>1, <1>2, <1>3, <1>4, IssueTypes DEF BlockedInv, TypeOK
<1>6. ReadyAtLoopHead' /\ WaitsForEarliest'
  BY <1>3, <1>4 DEF ReadyAtLoopHead, WaitsForEarliest
<1>7. NoThreadWhenDone'
  BY <1>3, <1>4 DEF NoThreadWhenDone, isRunningThreads
<1>8. LinesExist'
  <2>1. ASSUME NEW t \in Threads, ~done'[t], t # threadID
        PROVE  NextLine(t)' \in DOMAIN img'.code[t]
    BY <1>1, <1>3, <2>1 DEF BlockedInv, TypeOK, LinesExist, NextLine
  <2>2. ASSUME ~done'[threadID]
        PROVE  instId[threadID] + 1 \in DOMAIN img.code[threadID]
    BY <1>1, <1>3, <2>2 DEF BlockedInv, TypeOK
  <2>3. \A t \in Threads : t = threadID => NextLine(t)' = instId[threadID] + 1
    BY <1>1, <1>3 DEF NextLine
  <2>4. QED BY <1>1, <2>1, <2>2, <2>3 DEF LinesExist
<1>9. QED BY <1>5, <1>6, <1>7, <1>8 DEF BlockedInv

(* Waiting takes the same time from every timer, so the order stays.       *)
LEMMA TickStep ==
  ASSUME BlockedInv, phase # "end", sbTimer' = sbTimerHandler(sbTimer, 1),
         phase = "loop" => isRunningThreads(done) /\ sbTimer[threadID] # 0,
         cyclesNum' \in Int, idles' \in Nat,
         UNCHANGED <<img, done, instId, threadID, currThreadID, regs, data,
                     instNum, phase, ghostTimer, due, lastIssued, switches>>
  PROVE  BlockedInv'
<1>1. phase = "wait" /\ sbTimer \in [Threads -> Nat]
  BY DEF BlockedInv, TypeOK, ReadyAtLoopHead
<1>2. /\ sbTimer' \in [Threads -> Nat]
      /\ \A t \in Threads :
           sbTimer'[t] = IF sbTimer[t] > 1 THEN sbTimer[t] - 1 ELSE 0
  BY <1>1, HandlerType
<1>3. TypeOK'
  BY <1>2 DEF BlockedInv, TypeOK
<1>4. WaitsForEarliest'
  <2> SUFFICES ASSUME threadID # NoThread
               PROVE  /\ ~done[threadID]
                      /\ \A u \in Threads : ~done[u] => sbTimer'[threadID] <= sbTimer'[u]
    BY DEF WaitsForEarliest
  <2>1. /\ threadID \in Threads /\ ~done[threadID]
        /\ \A u \in Threads : ~done[u] => sbTimer[threadID] <= sbTimer[u]
    BY <1>1 DEF BlockedInv, TypeOK, WaitsForEarliest
  <2>2. QED BY <1>1, <1>2, <2>1
<1>5. ReadyAtLoopHead' /\ NoThreadWhenDone' /\ LinesExist'
  BY <1>1
     DEF BlockedInv, ReadyAtLoopHead, NoThreadWhenDone, LinesExist, NextLine,
         isRunningThreads
<1>6. QED BY <1>3, <1>4, <1>5 DEF BlockedInv

LEMMA ResumeStep ==
  ASSUME BlockedInv, Resume
  PROVE  BlockedInv'
<1>1. /\ phase = "wait" /\ phase' = "loop" /\ img \in Images
      /\ sbTimer \in [Threads -> Nat] /\ instId \in [Threads -> Nat]
      /\ currThreadID \in Threads /\ cyclesNum \in Int
  BY DEF Resume, BlockedInv, TypeOK
<1>2. SwitchPenalty \in Nat
  BY <1>1, ImageFacts DEF SwitchPenalty
<1>3. /\ sbTimer' \in [Threads -> Nat]
      /\ \A t \in Threads :
           sbTimer'[t] = IF sbTimer[t] > SwitchPenalty + 1
                         THEN sbTimer[t] - (SwitchPenalty + 1) ELSE 0
  BY <1>1, <1>2, EndOfIteration DEF Resume, FinishIteration
<1>4. instId' = [instId EXCEPT ![currThreadID] = @ + 1] /\ cyclesNum' \in Int
  BY <1>1, <1>2 DEF Resume, FinishIteration
<1>5. TypeOK'
  <2>1. instId' \in [Threads -> Nat]
    BY <1>1, <1>4
  <2>2. QED BY <1>1, <1>3, <1>4, <2>1 DEF Resume, history, BlockedInv, TypeOK
<1>6. ReadyAtLoopHead'
  <2> SUFFICES ASSUME isRunningThreads(done)
               PROVE  threadID # NoThread /\ ~done[threadID] /\ sbTimer'[threadID] = 0
    BY DEF ReadyAtLoopHead, Resume, isRunningThreads
  <2>1. threadID \in Threads /\ ~done[threadID] /\ threadID # NoThread
    BY <1>1 DEF BlockedInv, TypeOK, NoThreadWhenDone, WaitsForEarliest
  <2>2. sbTimer[threadID] = 0
    BY <2>1 DEF Resume
  <2>3. QED BY <1>2, <1>3, <2>1, <2>2
<1>7. WaitsForEarliest' /\ NoThreadWhenDone'
  BY <1>1
     DEF Resume, BlockedInv, WaitsForEarliest, NoThreadWhenDone, isRunningThreads
<1>8. LinesExist'
  BY <1>1, <1>4 DEF Resume, BlockedInv, LinesExist, NextLine
<1>9. QED BY <1>5, <1>6, <1>7, <1>8 DEF BlockedInv

LEMMA BlockedStep == BlockedInv /\ [Next]_vars => BlockedInv'
<1> SUFFICES ASSUME BlockedInv, [Next]_vars PROVE BlockedInv'
  OBVIOUS
<1>1. /\ sbTimer \in [Threads -> Nat] /\ img \in Images
      /\ regs \in [Threads -> [Regs -> Word]] /\ data \in [Cells -> Word]
      /\ cyclesNum \in Int /\ idles \in Nat
  BY DEF BlockedInv, TypeOK
<1>2. CASE ExecNop
  BY <1>1, <1>2, GoOnStep DEF ExecNop
<1>3. CASE ExecAlu
  <2>1. threadID \in Threads /\ WellFormedInstruction(Inst)
        /\ regs[threadID] \in [Regs -> Word] /\ Inst.opcode \in AluOps
    BY <1>3, IssueContext DEF ExecAlu, Issue
  <2>2. AluResult(Inst, regs[threadID]) \in Word
    BY <2>1, AluWord
  <2>3. regs' \in [Threads -> [Regs -> Word]]
    BY <1>1, <1>3, <2>1, <2>2, OperandWords DEF ExecAlu
  <2>4. [sbTimer EXCEPT ![threadID] = 1] \in [Threads -> Nat]
    BY <1>1
  <2>5. Inst.opcode # "HALT"
    BY <2>1 DEF AluOps
  <2>6. QED BY <1>3, <2>3, <2>4, <2>5, GoOnStep DEF ExecAlu
<1>4. CASE ExecLoad
  <2> DEFINE addr == LoadAddr(Inst, regs[threadID])
  <2>1. /\ StandBy(img.load, done) /\ Inst.opcode = "LOAD" /\ InData(addr)
        /\ regs' = [regs EXCEPT ![threadID][Inst.dst] = SIM_MemDataRead(data, addr)]
        /\ data' = data
    BY <1>4 DEF ExecLoad
  <2>2. threadID \in Threads /\ WellFormedInstruction(Inst)
        /\ regs[threadID] \in [Regs -> Word]
    BY <2>1, IssueContext DEF StandBy, Issue
  <2>3. \A val \in Word : SIM_MemDataRead(data, addr) \in Word
    BY <1>1, <2>1, MemoryWords
  <2>4. SIM_MemDataRead(data, addr) \in Word
    BY <2>2, <2>3, OperandWords
  <2>5. regs' \in [Threads -> [Regs -> Word]]
    BY <1>1, <2>1, <2>2, <2>4, OperandWords
  <2>6. img.load \in Nat /\ Inst.opcode # "HALT"
    BY <1>1, <2>1, ImageFacts
  <2>7. QED BY <1>1, <2>1, <2>5, <2>6, StandByStep
<1>5. CASE ExecStore
  <2> DEFINE addr == StoreAddr(Inst, regs[threadID])
             val == regs[threadID][Inst.src1]
  <2>1. /\ StandBy(img.store, done) /\ Inst.opcode = "STORE" /\ InData(addr)
        /\ data' = SIM_MemDataWrite(data, addr, val)
        /\ regs' = regs
    BY <1>5 DEF ExecStore
  <2>2. threadID \in Threads /\ WellFormedInstruction(Inst)
        /\ regs[threadID] \in [Regs -> Word]
    BY <2>1, IssueContext DEF StandBy, Issue
  <2>3. val \in Word
    BY <2>2, OperandWords
  <2>4. data' \in [Cells -> Word]
    BY <1>1, <2>1, <2>3, MemoryWords
  <2>5. img.store \in Nat /\ Inst.opcode # "HALT"
    BY <1>1, <2>1, ImageFacts
  <2>6. QED BY <1>1, <2>1, <2>4, <2>5, StandByStep
<1>6. CASE ExecHalt
  BY <1>1, <1>6, StandByStep DEF ExecHalt
<1>7. CASE Idle
  BY <1>1, <1>7, TickStep DEF Idle
<1>8. CASE SpinOnNoThread
  <2>1. cyclesNum' \in Int /\ phase = "wait"
    BY <1>1, <1>8 DEF SpinOnNoThread
  <2>2. QED BY <1>1, <1>8, <2>1, TickStep DEF SpinOnNoThread, history
<1>9. CASE Resume
  BY <1>9, ResumeStep
<1>10. CASE Exit
  <2>1. cyclesNum' \in Int
    BY <1>1, <1>10, ImageFacts DEF Exit
  <2>2. QED
    BY <1>10, <2>1
       DEF Exit, history, BlockedInv, TypeOK, ReadyAtLoopHead,
           WaitsForEarliest, NoThreadWhenDone, LinesExist, NextLine,
           isRunningThreads
<1>11. CASE UNCHANGED vars
  BY <1>11
     DEF vars, history, BlockedInv, TypeOK, ReadyAtLoopHead, WaitsForEarliest,
         NoThreadWhenDone, LinesExist, NextLine, isRunningThreads
<1>12. QED
  BY <1>2, <1>3, <1>4, <1>5, <1>6, <1>7, <1>8, <1>9, <1>10, <1>11
     DEF Next, Step, Returned

(* The invariant holds in every reachable state of the blocked core.       *)
THEOREM BlockedInvariance == Spec => []BlockedInv
BY BlockedInit, BlockedStep, PTL DEF Spec

(* Registers and data memory hold words, timers and line numbers never     *)
(* leave their ranges, whatever the image (core_api.cpp:127-215).          *)
THEOREM BlockedTypes == Spec => []TypeOK
<1>1. BlockedInv => TypeOK
  BY DEF BlockedInv
<1>2. QED BY <1>1, BlockedInvariance, PTL

(* The else branch of the main loop is dead code: at the loop head the     *)
(* current thread is live and ready.                                       *)
THEOREM BlockedReady == Spec => []ReadyAtLoopHead
<1>1. BlockedInv => ReadyAtLoopHead
  BY DEF BlockedInv
<1>2. QED BY <1>1, BlockedInvariance, PTL

(* While the core waits it waits for a live thread with the least timer.   *)
THEOREM BlockedEarliest == Spec => []WaitsForEarliest
<1>1. BlockedInv => WaitsForEarliest
  BY DEF BlockedInv
<1>2. QED BY <1>1, BlockedInvariance, PTL

(* A cycle is idle only when no live thread is ready.                      *)
THEOREM BlockedNeverIdles == Spec => NeverIdlesWhileReady
<1> DEFINE A == idles' # idles => \A t \in Threads : ~done[t] => sbTimer[t] # 0
<1>1. BlockedInv /\ [Next]_vars => [A]_vars
  <2> SUFFICES ASSUME BlockedInv, Next, idles' # idles,
                      NEW t \in Threads, ~done[t]
               PROVE  sbTimer[t] # 0
    BY DEF vars, history
  <2>1. Idle
    BY DEF Next, Step, Returned, vars, history, ExecNop, ExecAlu, ExecLoad,
           ExecStore, ExecHalt, StandBy, Issue, SpinOnNoThread, Resume, Exit
  <2>2. threadID \in Threads /\ sbTimer \in [Threads -> Nat]
        /\ sbTimer[threadID] # 0 /\ phase = "wait" /\ threadID # NoThread
    BY <2>1 DEF Idle, BlockedInv, TypeOK, ReadyAtLoopHead
  <2>3. sbTimer[threadID] <= sbTimer[t]
    BY <2>2 DEF BlockedInv, WaitsForEarliest
  <2>4. QED BY <2>2, <2>3
<1>2. QED BY <1>1, BlockedInvariance, PTL DEF Spec, NeverIdlesWhileReady

-----------------------------------------------------------------------------
(* Timers against the clock.                                               *)

Due(t) == IF due[t] > cyclesNum THEN due[t] - cyclesNum ELSE 0

(* Steps that let pen + 1 cycles go by and issue nothing.                  *)
LEMMA DeadlineTick ==
  ASSUME BlockedInv, TimerMeetsDeadline, phase # "end", NEW pen \in Nat,
         sbTimer' \in [Threads -> Nat],
         \A t \in Threads :
           sbTimer'[t] = IF sbTimer[t] > pen + 1 THEN sbTimer[t] - (pen + 1) ELSE 0,
         cyclesNum' = cyclesNum + pen + 1,
         due' = due, done' = done
  PROVE  TimerMeetsDeadline'
<1>1. /\ sbTimer \in [Threads -> Nat] /\ due \in [Threads -> Int]
      /\ cyclesNum \in Int
  BY DEF BlockedInv, TypeOK
<1>2. ASSUME NEW t \in Threads, ~done[t]
      PROVE  sbTimer'[t] = Due(t)'
  <2>1. sbTimer[t] = Due(t)
    BY <1>2 DEF TimerMeetsDeadline, Due
  <2>2. sbTimer[t] \in Nat /\ due[t] \in Int
    BY <1>1
  <2>3. QED BY <1>1, <2>1, <2>2 DEF Due
<1>3. QED BY <1>2 DEF TimerMeetsDeadline, Due

(* An instruction that does not make the core wait: its thread is due in   *)
(* the next cycle at the latest.                                           *)
LEMMA DeadlineGoOn ==
  ASSUME BlockedInv, TimerMeetsDeadline, NEW lat \in {0, 1}, Issue(lat),
         NEW timer \in [Threads -> Nat],
         timer = [sbTimer EXCEPT ![threadID] = lat],
         FinishIteration(timer, 0, threadID), done' = done
  PROVE  TimerMeetsDeadline'
<1>1. /\ sbTimer \in [Threads -> Nat] /\ due \in [Threads -> Int]
      /\ cyclesNum \in Int /\ phase = "loop"
  BY DEF BlockedInv, TypeOK, Issue
<1>2. threadID \in Threads
  BY IssueContext DEF Issue
<1>3. /\ cyclesNum' = cyclesNum + 0 + 1
      /\ due' = [due EXCEPT ![threadID] = cyclesNum + lat]
  BY DEF Issue, FinishIteration
<1>4. \A t \in Threads :
        sbTimer'[t] = IF timer[t] > 0 + 1 THEN timer[t] - (0 + 1) ELSE 0
  BY EndOfIteration DEF FinishIteration
<1>5. ASSUME NEW t \in Threads, ~done[t]
      PROVE  sbTimer'[t] = IF due'[t] > cyclesNum' THEN due'[t] - cyclesNum' ELSE 0
  <2>1. CASE t = threadID
    <3>1. timer[t] = lat /\ due'[t] = cyclesNum + lat
      BY <1>1, <1>2, <1>3, <2>1
    <3>2. sbTimer'[t] = 0
      BY <1>4, <3>1
    <3>3. ~(due'[t] > cyclesNum')
      BY <1>1, <1>3, <3>1
    <3>4. QED BY <3>2, <3>3
  <2>2. CASE t # threadID
    <3>1. timer[t] = sbTimer[t] /\ due'[t] = due[t]
      BY <1>1, <1>3, <2>2
    <3>2. sbTimer[t] = IF due[t] > cyclesNum THEN due[t] - cyclesNum ELSE 0
      BY <1>1, <1>5 DEF TimerMeetsDeadline
    <3>3. sbTimer'[t] = IF sbTimer[t] > 1 THEN sbTimer[t] - 1 ELSE 0
      BY <1>4, <3>1
    <3>4. sbTimer[t] \in Nat /\ due[t] \in Int
      BY <1>1
    <3>5. QED BY <1>1, <1>3, <3>1, <3>2, <3>3, <3>4
  <2>3. QED BY <2>1, <2>2
<1>6. QED BY <1>5 DEF TimerMeetsDeadline

(* A thread that starts to stand by is due when its latency is over.       *)
LEMMA DeadlineStandBy ==
  ASSUME BlockedInv, TimerMeetsDeadline, NEW lat \in Nat, NEW doneAfter,
         StandBy(lat, doneAfter),
         \A t \in Threads : done[t] => doneAfter[t]
  PROVE  TimerMeetsDeadline'
<1>1. /\ sbTimer \in [Threads -> Nat] /\ due \in [Threads -> Int]
      /\ cyclesNum \in Int /\ phase = "loop"
  BY DEF BlockedInv, TypeOK, StandBy, Issue
<1>2. /\ sbTimer' = [sbTimer EXCEPT ![threadID] = lat]
      /\ due' = [due EXCEPT ![threadID] = cyclesNum + lat]
      /\ cyclesNum' = cyclesNum /\ done' = doneAfter
  BY DEF StandBy, Issue
<1>3. QED BY <1>1, <1>2 DEF TimerMeetsDeadline

(* The stand-by timers are exact: a live thread is ready when, and no      *)
(* later than when, the latency of its last instruction has passed.        *)
THEOREM BlockedTimersExact == Spec => []TimerMeetsDeadline
<1>1. Init => TimerMeetsDeadline
  BY DEF Init, InitLocals, TimerMeetsDeadline
<1>2. BlockedInv /\ TimerMeetsDeadline /\ [Next]_vars => TimerMeetsDeadline'
  <2> SUFFICES ASSUME BlockedInv, TimerMeetsDeadline, [Next]_vars
               PROVE  TimerMeetsDeadline'
    OBVIOUS
  <2>1. /\ sbTimer \in [Threads -> Nat] /\ img \in Images
        /\ done \in [Threads -> BOOLEAN]
    BY DEF BlockedInv, TypeOK
  <2>2. CASE ExecNop
    <3>1. Issue(0) /\ FinishIteration(sbTimer, 0, threadID) /\ done' = done
      BY <2>2 DEF ExecNop
    <3>2. sbTimer[threadID] = 0 /\ threadID \in Threads
      BY <3>1, IssueContext DEF Issue
    <3>3. sbTimer = [sbTimer EXCEPT ![threadID] = 0]
      BY <2>1, <3>2
    <3>4. QED BY <2>1, <3>1, <3>3, DeadlineGoOn
  <2>3. CASE ExecAlu
    <3>1. [sbTimer EXCEPT ![threadID] = 1] \in [Threads -> Nat]
      BY <2>1
    <3>2. QED BY <2>3, <3>1, DeadlineGoOn DEF ExecAlu
  <2>4. CASE ExecLoad
    BY <2>1, <2>4, ImageFacts, DeadlineStandBy DEF ExecLoad
  <2>5. CASE ExecStore
    BY <2>1, <2>5, ImageFacts, DeadlineStandBy DEF ExecStore
  <2>6. CASE ExecHalt
    <3>1. \A t \in Threads : done[t] => [done EXCEPT ![threadID] = TRUE][t]
      BY <2>1
    <3>2. QED BY <2>6, <3>1, DeadlineStandBy DEF ExecHalt
  <2>7. CASE Idle
    <3>1. /\ sbTimer' \in [Threads -> Nat]
          /\ \A t \in Threads :
               sbTimer'[t] = IF sbTimer[t] > 1 THEN sbTimer[t] - 1 ELSE 0
      BY <2>1, <2>7, HandlerType DEF Idle
    <3>2. cyclesNum' = cyclesNum + 0 + 1 /\ due' = due /\ done' = done
          /\ phase # "end"
      BY <2>7 DEF Idle, BlockedInv, TypeOK
    <3>3. \A t \in Threads :
            sbTimer'[t] = IF sbTimer[t] > 0 + 1 THEN sbTimer[t] - (0 + 1) ELSE 0
      BY <3>1
    <3>4. QED BY <3>1, <3>2, <3>3, DeadlineTick
  <2>8. CASE SpinOnNoThread
    <3>1. ~isRunningThreads(done) /\ done' = done
      BY <2>8 DEF SpinOnNoThread, BlockedInv, NoThreadWhenDone
    <3>2. QED BY <3>1 DEF TimerMeetsDeadline, isRunningThreads
  <2>9. CASE Resume
    <3>1. SwitchPenalty \in Nat
      BY <2>1, ImageFacts DEF SwitchPenalty
    <3>2. /\ sbTimer' \in [Threads -> Nat]
          /\ \A t \in Threads :
               sbTimer'[t] = IF sbTimer[t] > SwitchPenalty + 1
                             THEN sbTimer[t] - (SwitchPenalty + 1) ELSE 0
      BY <2>1, <2>9, <3>1, EndOfIteration DEF Resume, FinishIteration
    <3>3. /\ cyclesNum' = cyclesNum + SwitchPenalty + 1
          /\ due' = due /\ done' = done /\ phase # "end"
      BY <2>9 DEF Resume, FinishIteration, history
    <3>4. QED BY <3>1, <3>2, <3>3, DeadlineTick
  <2>10. CASE Exit
    BY <2>10 DEF Exit, TimerMeetsDeadline
  <2>11. CASE UNCHANGED vars
    BY <2>11 DEF vars, history, TimerMeetsDeadline
  <2>12. QED
    BY <2>2, <2>3, <2>4, <2>5, <2>6, <2>7, <2>8, <2>9, <2>10, <2>11
       DEF Next, Step, Returned
<1>3. QED BY <1>1, <1>2, BlockedInvariance, PTL DEF Spec

-----------------------------------------------------------------------------
(* The cycle count.                                                        *)

(* Every issue adds an instruction and, after one of another thread, a     *)
(* switch; the penalty of that switch has been paid before.                *)
LEMMA AccountIssue ==
  ASSUME BlockedInv, Account, NEW lat \in Nat, Issue(lat)
  PROVE  /\ cyclesNum = instNum' - 1 + idles' + img'.switch * switches'
         /\ lastIssued' = threadID /\ currThreadID' = threadID
         /\ phase = "loop"
<1>1. /\ instNum \in Nat /\ idles \in Nat /\ switches \in Nat
      /\ cyclesNum \in Int /\ img \in Images
  BY DEF BlockedInv, TypeOK
<1>2. PICK sw \in Nat : sw = img.switch
  BY <1>1, ImageFacts
<1>3. /\ phase = "loop" /\ instNum' = instNum + 1 /\ idles' = idles
      /\ switches' = IF lastIssued = threadID THEN switches ELSE switches + 1
      /\ img' = img /\ lastIssued' = threadID /\ currThreadID' = threadID
  BY DEF Issue
<1>4. cyclesNum = instNum + idles + sw * switches
                  + (IF threadID = lastIssued THEN 0 ELSE sw)
  BY <1>2, <1>3 DEF Account
<1>5. sw * (switches + 1) = sw * switches + sw /\ sw * switches \in Nat
  BY <1>1
<1>6. cyclesNum = instNum + idles + sw * switches'
  <2>1. CASE threadID = lastIssued
    BY <1>1, <1>3, <1>4, <1>5, <2>1
  <2>2. CASE threadID # lastIssued
    BY <1>1, <1>3, <1>4, <1>5, <2>2
  <2>3. QED BY <2>1, <2>2
<1>7. instNum + idles + sw * switches' = instNum' - 1 + idles' + sw * switches'
  BY <1>1, <1>3
<1>8. QED BY <1>2, <1>3, <1>6, <1>7

(* The cycles the core reports are exactly its instructions, its idle      *)
(* cycles and its switch penalties (core_api.cpp:146, 164, 182, 217).      *)
THEOREM BlockedCyclesAccounted == Spec => []CyclesAccounted
<1>1. Init => Account
  BY ImageFacts, SizesAssumption DEF Init, InitLocals, Account, CyclesAccounted
<1>2. BlockedInv /\ Account /\ [Next]_vars => Account'
  <2> SUFFICES ASSUME BlockedInv, Account, [Next]_vars PROVE Account'
    OBVIOUS
  <2>1. /\ instNum \in Nat /\ idles \in Nat /\ switches \in Nat
        /\ cyclesNum \in Int /\ img \in Images /\ lastIssued \in Threads
    BY DEF BlockedInv, TypeOK
  <2>2. PICK sw \in Nat : sw = img.switch
    BY <2>1, ImageFacts
  <2>3. PICK paid \in Nat : paid = sw * switches
    BY <2>1
  <2>4. ASSUME NEW lat \in Nat, Issue(lat), cyclesNum' = cyclesNum + 0 + 1,
               phase' = phase, threadID' = threadID
        PROVE  Account'
    <3>1. /\ cyclesNum = instNum' - 1 + idles' + img'.switch * switches'
          /\ lastIssued' = threadID /\ phase = "loop"
      BY <2>4, AccountIssue
    <3>2. /\ instNum' \in Nat /\ idles' \in Nat /\ img'.switch = sw
          /\ switches' \in Nat
      BY <2>1, <2>2, <2>4 DEF Issue
    <3>3. img'.switch * switches' \in Int
      BY <3>2
    <3>4. cyclesNum' = instNum' + idles' + img'.switch * switches' + 0
      BY <2>4, <3>1, <3>2, <3>3
    <3>5. QED BY <2>4, <3>1, <3>4 DEF Account, CyclesAccounted
  <2>5. ASSUME NEW lat \in Nat, NEW doneAfter, StandBy(lat, doneAfter)
        PROVE  Account'
    <3>1. /\ cyclesNum = instNum' - 1 + idles' + img'.switch * switches'
          /\ lastIssued' = threadID /\ currThreadID' = threadID
      BY <2>5, AccountIssue DEF StandBy
    <3>2. cyclesNum' = cyclesNum /\ phase' = "wait"
      BY <2>5 DEF StandBy
    <3>3. QED BY <3>1, <3>2 DEF Account, CyclesAccounted
  <2>6. CASE ExecNop
    BY <2>4, <2>6 DEF ExecNop, FinishIteration
  <2>7. CASE ExecAlu
    BY <2>4, <2>7 DEF ExecAlu, FinishIteration
  <2>8. CASE ExecLoad
    BY <2>1, <2>5, <2>8, ImageFacts DEF ExecLoad
  <2>9. CASE ExecStore
    BY <2>1, <2>5, <2>9, ImageFacts DEF ExecStore
  <2>10. CASE ExecHalt
    BY <2>5, <2>10 DEF ExecHalt
  <2>11. CASE Idle
    <3>1. /\ phase = "wait" /\ phase' = phase /\ threadID # NoThread
          /\ cyclesNum' = cyclesNum + 1 /\ idles' = idles + 1
          /\ instNum' = instNum /\ switches' = switches /\ img' = img
          /\ lastIssued' = lastIssued /\ currThreadID' = currThreadID
      BY <2>11 DEF Idle, BlockedInv, TypeOK, ReadyAtLoopHead
    <3>2. cyclesNum = instNum - 1 + idles + paid /\ lastIssued = currThreadID
      BY <2>2, <2>3, <3>1 DEF Account
    <3>3. cyclesNum' = instNum' - 1 + idles' + paid
      BY <2>1, <3>1, <3>2
    <3>4. QED BY <2>2, <2>3, <3>1, <3>2, <3>3 DEF Account, CyclesAccounted
  <2>12. CASE SpinOnNoThread
    BY <2>12 DEF SpinOnNoThread, history, Account, CyclesAccounted
  <2>13. CASE Resume
    <3>1. /\ phase = "wait" /\ phase' = "loop"
          /\ threadID # NoThread \/ ghostTimer = 0
          /\ cyclesNum' = cyclesNum + SwitchPenalty + 1
          /\ idles' = idles /\ instNum' = instNum /\ switches' = switches
          /\ img' = img /\ lastIssued' = lastIssued /\ threadID' = threadID
      BY <2>13 DEF Resume, FinishIteration, history
    <3>2. cyclesNum = instNum - 1 + idles + paid /\ lastIssued = currThreadID
      BY <2>2, <2>3, <3>1 DEF Account
    <3>3. threadID = currThreadID => ~done[currThreadID]
      <4>1. currThreadID # NoThread
        BY <2>1, <3>2 DEF Threads, NoThread
      <4>2. QED BY <3>1, <4>1 DEF BlockedInv, WaitsForEarliest
    <3>4. SwitchPenalty = IF threadID = lastIssued THEN 0 ELSE sw
      BY <2>2, <3>2, <3>3 DEF SwitchPenalty
    <3>5. cyclesNum' = instNum' + idles' + paid
                       + (IF threadID' = lastIssued' THEN 0 ELSE sw)
      BY <2>1, <3>1, <3>2, <3>4
    <3>6. QED BY <2>2, <2>3, <3>1, <3>5 DEF Account, CyclesAccounted
  <2>14. CASE Exit
    <3>1. threadID # lastIssued
      <4>1. threadID = NoThread
        BY <2>14 DEF Exit, BlockedInv, NoThreadWhenDone
      <4>2. QED BY <2>1, <4>1 DEF Threads, NoThread
    <3>2. cyclesNum = instNum + idles + paid + sw
      BY <2>2, <2>3, <2>14, <3>1 DEF Exit, Account
    <3>3. cyclesNum' = instNum + idles + paid
      BY <2>1, <2>2, <2>14, <3>2 DEF Exit
    <3>4. QED
      BY <2>2, <2>3, <2>14, <3>3 DEF Exit, history, Account, CyclesAccounted
  <2>15. CASE UNCHANGED vars
    BY <2>15 DEF vars, history, Account, CyclesAccounted
  <2>16. QED
    BY <2>6, <2>7, <2>8, <2>9, <2>10, <2>11, <2>12, <2>13, <2>14, <2>15
       DEF Next, Step, Returned
<1>3. Account => CyclesAccounted
  BY DEF Account
<1>4. QED BY <1>1, <1>2, <1>3, BlockedInvariance, PTL DEF Spec

-----------------------------------------------------------------------------
(* The operators of MTCore are the same in the instance of SCThreads.      *)
LEMMA SameCore ==
  /\ SC!Threads = Threads /\ SC!Regs = Regs /\ SC!AluOps = AluOps
  /\ \A in, r : /\ SC!AluResult(in, r) = AluResult(in, r)
               /\ SC!LoadAddr(in, r) = LoadAddr(in, r)
               /\ SC!StoreAddr(in, r) = StoreAddr(in, r)
  /\ \A addr : SC!InData(addr) = InData(addr)
  /\ \A mem, addr, val :
       /\ SC!SIM_MemDataRead(mem, addr) = SIM_MemDataRead(mem, addr)
       /\ SC!SIM_MemDataWrite(mem, addr, val) = SIM_MemDataWrite(mem, addr, val)
<1> USE DEF SC!Wrap, Wrap
<1>1. SC!Threads = Threads /\ SC!Regs = Regs /\ SC!AluOps = AluOps /\ SC!Cells = Cells
  BY DEF SC!Threads, Threads, SC!Regs, Regs, SC!AluOps, AluOps, SC!Cells, Cells
<1>2. \A in, r : SC!Src2(in, r) = Src2(in, r)
  BY DEF SC!Src2, Src2
<1>3. \A in, r : SC!AluResult(in, r) = AluResult(in, r)
  BY <1>2 DEF SC!AluResult, AluResult
<1>4. \A in, r : /\ SC!LoadAddr(in, r) = LoadAddr(in, r)
                /\ SC!StoreAddr(in, r) = StoreAddr(in, r)
  BY <1>2 DEF SC!LoadAddr, LoadAddr, SC!StoreAddr, StoreAddr
<1>5. \A addr : SC!DataIndex(addr) = DataIndex(addr)
  BY DEF SC!DataIndex, DataIndex, SC!DataIndexFrom, DataIndexFrom
<1>6. \A addr : SC!InData(addr) = InData(addr)
  BY <1>1, <1>5 DEF SC!InData, InData
<1>7. \A mem, addr, val :
        /\ SC!SIM_MemDataRead(mem, addr) = SIM_MemDataRead(mem, addr)
        /\ SC!SIM_MemDataWrite(mem, addr, val) = SIM_MemDataWrite(mem, addr, val)
  BY <1>5 DEF SC!SIM_MemDataRead, SIM_MemDataRead, SC!SIM_MemDataWrite, SIM_MemDataWrite
<1>8. QED BY <1>1, <1>3, <1>4, <1>6, <1>7

(* An instruction issues: its thread, and no other, has its next line      *)
(* behind it, although instId may lag until Resume.                        *)
LEMMA IssueAdvances ==
  ASSUME BlockedInv, NEW lat, Issue(lat),
         \/ phase' = "loop" /\ instId' = [instId EXCEPT ![threadID] = @ + 1]
         \/ phase' = "wait" /\ instId' = instId
  PROVE  /\ threadID \in Threads
         /\ SC!Advance(threadID) /\ SC!Fetch(threadID) = Inst
<1>1. threadID \in Threads /\ ~done[threadID] /\ phase = "loop"
      /\ currThreadID' = threadID /\ img' = img
  BY IssueContext DEF Issue
<1>2. instId \in [Threads -> Nat]
  BY DEF BlockedInv, TypeOK
<1>3. \A t \in Threads : NextLine(t) = instId[t]
  BY <1>1 DEF NextLine
<1>4. \A t \in Threads : NextLine(t)' = IF t = threadID THEN instId[t] + 1 ELSE instId[t]
  BY <1>1, <1>2 DEF NextLine
<1>5. [t \in Threads |-> NextLine(t)]'
        = [[t \in Threads |-> NextLine(t)] EXCEPT ![threadID] = @ + 1]
  BY <1>1, <1>3, <1>4
<1>6. SC!Advance(threadID)
  BY <1>1, <1>5 DEF SC!Advance
<1>7. SC!Fetch(threadID) = Inst
  BY <1>1, <1>3 DEF SC!Fetch, Inst
<1>8. QED BY <1>1, <1>6, <1>7

(* A step of the core is a step of SCThreads or invisible there.           *)
LEMMA BlockedStepSC == BlockedInv /\ [Next]_vars => [SC!Next]_(SC!vars)
<1> SUFFICES ASSUME BlockedInv, [Next]_vars PROVE [SC!Next]_(SC!vars)
  OBVIOUS
<1>1. ASSUME UNCHANGED <<img, done, regs, data>>,
             \A t \in Threads : NextLine(t)' = NextLine(t)
      PROVE  UNCHANGED SC!vars
  <2>1. [t \in Threads |-> NextLine(t)]' = [t \in Threads |-> NextLine(t)]
    BY <1>1
  <2>2. QED BY <1>1, <2>1 DEF SC!vars
<1>2. CASE ExecNop
  <2>1. /\ Issue(0) /\ phase' = phase /\ done' = done
        /\ instId' = [instId EXCEPT ![threadID] = @ + 1]
    BY <1>2 DEF ExecNop, FinishIteration
  <2>2. /\ threadID \in Threads /\ ~done[threadID]
        /\ SC!Advance(threadID) /\ SC!Fetch(threadID) = Inst
    BY <2>1, IssueAdvances, IssueContext DEF Issue
  <2>3. SC!Nop(threadID)
    BY <1>2, <2>2 DEF ExecNop, SC!Nop
  <2>4. QED BY <2>2, <2>3, SameCore DEF SC!Next, SC!Step
<1>3. CASE ExecAlu
  <2>1. /\ Issue(1) /\ phase' = phase /\ done' = done
        /\ instId' = [instId EXCEPT ![threadID] = @ + 1]
    BY <1>3 DEF ExecAlu, FinishIteration
  <2>2. /\ threadID \in Threads /\ ~done[threadID]
        /\ SC!Advance(threadID) /\ SC!Fetch(threadID) = Inst
    BY <2>1, IssueAdvances, IssueContext DEF Issue
  <2>3. SC!Alu(threadID)
    BY <1>3, <2>2, SameCore DEF ExecAlu, SC!Alu
  <2>4. QED BY <2>2, <2>3, SameCore DEF SC!Next, SC!Step
<1>4. ASSUME NEW lat, NEW doneAfter, StandBy(lat, doneAfter)
      PROVE  /\ threadID \in Threads /\ ~done[threadID] /\ done' = doneAfter
             /\ SC!Advance(threadID) /\ SC!Fetch(threadID) = Inst
  BY <1>4, IssueAdvances, IssueContext DEF StandBy, Issue
<1>5. CASE ExecLoad
  <2>1. SC!Load(threadID)
    BY <1>4, <1>5, SameCore DEF ExecLoad, SC!Load
  <2>2. QED BY <1>4, <1>5, <2>1, SameCore DEF ExecLoad, SC!Next, SC!Step
<1>6. CASE ExecStore
  <2>1. SC!Store(threadID)
    BY <1>4, <1>6, SameCore DEF ExecStore, SC!Store
  <2>2. QED BY <1>4, <1>6, <2>1, SameCore DEF ExecStore, SC!Next, SC!Step
<1>7. CASE ExecHalt
  <2>1. SC!Halt(threadID)
    BY <1>4, <1>7, SameCore DEF ExecHalt, SC!Halt
  <2>2. QED BY <1>4, <1>7, <2>1, SameCore DEF ExecHalt, SC!Next, SC!Step
<1>8. CASE Idle
  BY <1>1, <1>8 DEF Idle, NextLine
<1>9. CASE SpinOnNoThread
  BY <1>1, <1>9 DEF SpinOnNoThread, NextLine
<1>10. CASE Resume
  <2>1. /\ phase = "wait" /\ phase' = "loop" /\ currThreadID' = currThreadID
        /\ instId' = [instId EXCEPT ![currThreadID] = @ + 1]
        /\ UNCHANGED <<img, done, regs, data>>
    BY <1>10 DEF Resume, FinishIteration
  <2>2. instId \in [Threads -> Nat] /\ currThreadID \in Threads
    BY DEF BlockedInv, TypeOK
  <2>3. \A t \in Threads : NextLine(t)' = NextLine(t)
    BY <2>1, <2>2 DEF NextLine
  <2>4. QED BY <1>1, <2>1, <2>3
<1>11. CASE Exit
  BY <1>1, <1>11 DEF Exit, NextLine
<1>12. CASE UNCHANGED vars
  BY <1>1, <1>12 DEF vars, NextLine
<1>13. QED
  BY <1>2, <1>3, <1>5, <1>6, <1>7, <1>8, <1>9, <1>10, <1>11, <1>12
     DEF Next, Step, Returned

(* The safety part of ImplementsSC: every thread executes its program in   *)
(* order on the shared memory, each instruction once and whole, although   *)
(* the core changes threads in the middle of an iteration                  *)
(* (core_api.cpp:127-208).                                                 *)
THEOREM BlockedRefinesSC == Spec => SC!Init /\ [][SC!Next]_(SC!vars)
<1>1. Init => SC!Init
  <2> SUFFICES ASSUME Init PROVE SC!Init
    OBVIOUS
  <2>1. [t \in Threads |-> NextLine(t)] = [t \in Threads |-> 0]
    BY DEF Init, InitLocals, NextLine
  <2>2. QED BY <2>1, SameCore DEF Init, InitLocals, SC!Init
<1>2. QED BY <1>1, BlockedStepSC, BlockedInvariance, PTL DEF Spec

-----------------------------------------------------------------------------
(* Seen from the registers, a step either does nothing or executes the     *)
(* next line of one thread, whole.                                         *)
LEMMA BlockedExecutes ==
  ASSUME BlockedInv, [Next]_vars
  PROVE  /\ img' = img
         /\ \/ /\ UNCHANGED <<done, regs, data>>
               /\ \A u \in Threads : NextLine(u)' = NextLine(u)
            \/ \E t \in Threads :
                 LET in == img.code[t][NextLine(t)] IN
                 /\ ~done[t]
                 /\ \A u \in Threads :
                      NextLine(u)' = IF u = t THEN NextLine(t) + 1 ELSE NextLine(u)
                 /\ done' = [done EXCEPT ![t] = in.opcode = "HALT"]
                 /\ regs' = [regs EXCEPT ![t] = Outcome(in, regs[t], data)]
                 /\ data' = Stored(in, regs[t], data)
                 /\ in.opcode = "LOAD" => InData(LoadAddr(in, regs[t]))
                 /\ in.opcode = "STORE" => InData(StoreAddr(in, regs[t]))
<1> DEFINE lines == [t \in Threads |-> NextLine(t)]
<1>1. CASE UNCHANGED SC!vars
  <2>1. UNCHANGED <<img, done, regs, data>> /\ lines' = lines
    BY <1>1 DEF SC!vars
  <2>2. ASSUME NEW u \in Threads PROVE NextLine(u)' = NextLine(u)
    <3>1. lines'[u] = NextLine(u)' /\ lines[u] = NextLine(u)
      OBVIOUS
    <3>2. QED BY <2>1, <3>1
  <2>3. QED BY <2>1, <2>2
<1>2. CASE SC!Next
  <2>1. PICK t \in Threads : SC!Step(t)
    BY <1>2, SameCore DEF SC!Next
  <2> DEFINE in == img.code[t][NextLine(t)]
  <2>2. SC!Fetch(t) = in
    BY DEF SC!Fetch
  <2>3. ~done[t] /\ SC!Advance(t)
    BY <2>1 DEF SC!Step, SC!Nop, SC!Alu, SC!Load, SC!Store, SC!Halt
  <2>4. img' = img /\ lines' = [lines EXCEPT ![t] = @ + 1]
    BY <2>3 DEF SC!Advance
  <2>5. ASSUME NEW u \in Threads
        PROVE  NextLine(u)' = IF u = t THEN NextLine(t) + 1 ELSE NextLine(u)
    <3>1. lines'[u] = NextLine(u)' /\ lines[u] = NextLine(u)
      OBVIOUS
    <3>2. [lines EXCEPT ![t] = @ + 1][u] = IF u = t THEN lines[t] + 1 ELSE lines[u]
      OBVIOUS
    <3>3. QED BY <2>4, <3>1, <3>2
  <2>6. done \in [Threads -> BOOLEAN] /\ regs \in [Threads -> [Regs -> Word]]
    BY DEF BlockedInv, TypeOK
  <2>7. ASSUME in.opcode # "HALT", done' = done
        PROVE  done' = [done EXCEPT ![t] = in.opcode = "HALT"]
    BY <2>3, <2>6, <2>7, Zenon
  <2>8. ASSUME in.opcode \notin AluOps, in.opcode # "LOAD", regs' = regs
        PROVE  regs' = [regs EXCEPT ![t] = Outcome(in, regs[t], data)]
    BY <2>6, <2>8 DEF Outcome
  <2>9. /\ done' = [done EXCEPT ![t] = in.opcode = "HALT"]
        /\ regs' = [regs EXCEPT ![t] = Outcome(in, regs[t], data)]
        /\ data' = Stored(in, regs[t], data)
        /\ in.opcode = "LOAD" => InData(LoadAddr(in, regs[t]))
        /\ in.opcode = "STORE" => InData(StoreAddr(in, regs[t]))
    <3>1. CASE SC!Nop(t)
      BY <2>2, <2>7, <2>8, <3>1 DEF SC!Nop, AluOps, Stored
    <3>2. CASE SC!Alu(t)
      BY <2>2, <2>7, <3>2, SameCore DEF SC!Alu, Outcome, Stored, AluOps
    <3>3. CASE SC!Load(t)
      <4>1. /\ in.opcode = "LOAD" /\ done' = done /\ data' = data
            /\ InData(LoadAddr(in, regs[t]))
            /\ regs' = [regs EXCEPT ![t][in.dst]
                         = SIM_MemDataRead(data, LoadAddr(in, regs[t]))]
        BY <2>2, <3>3, SameCore DEF SC!Load
      <4>2. Outcome(in, regs[t], data)
            = [regs[t] EXCEPT ![in.dst] = SIM_MemDataRead(data, LoadAddr(in, regs[t]))]
        BY <4>1 DEF Outcome, AluOps
      <4>3. QED BY <2>7, <4>1, <4>2 DEF Stored
    <3>4. CASE SC!Store(t)
      BY <2>2, <2>7, <2>8, <3>4, SameCore DEF SC!Store, Stored, AluOps
    <3>5. CASE SC!Halt(t)
      BY <2>2, <2>8, <3>5 DEF SC!Halt, Stored, AluOps
    <3>6. SC!Nop(t) \/ SC!Alu(t) \/ SC!Load(t) \/ SC!Store(t) \/ SC!Halt(t)
      BY <2>1 DEF SC!Step
    <3>7. QED BY <3>1, <3>2, <3>3, <3>4, <3>5, <3>6, Zenon
  <2>10. QED BY <2>3, <2>4, <2>5, <2>9
<1>3. QED BY <1>1, <1>2, BlockedStepSC

(* Whoever runs beside the core may change the data memory.                *)
LEMMA BlockedFrame ==
  ASSUME BlockedInv, data' \in [Cells -> Word],
         UNCHANGED <<img, sbTimer, done, instId, threadID, currThreadID, regs,
                     cyclesNum, instNum, phase, ghostTimer, history>>
  PROVE  BlockedInv' /\ \A t \in Threads : NextLine(t)' = NextLine(t)
BY DEF history, BlockedInv, TypeOK, ReadyAtLoopHead, WaitsForEarliest,
       NoThreadWhenDone, LinesExist, NextLine, isRunningThreads

(* The core only returns when every thread is done.                        *)
LEMMA BlockedEnds ==
  ASSUME [Next]_vars, phase = "end" => ~isRunningThreads(done)
  PROVE  phase' = "end" => ~isRunningThreads(done')
BY DEF Next, Step, Returned, ExecNop, ExecAlu, ExecLoad, ExecStore, ExecHalt,
       StandBy, Issue, Idle, SpinOnNoThread, Resume, Exit, vars, isRunningThreads
=============================================================================
