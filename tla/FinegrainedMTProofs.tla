-------------------------- MODULE FinegrainedMTProofs --------------------------
(***************************************************************************)
(* The invariants of the fine-grained core, and that it implements the     *)
(* safety part of SCThreads, for every image, every number of threads and  *)
(* registers and all latencies.                                            *)
(***************************************************************************)
EXTENDS FinegrainedMT, MTCoreTheorems

(* What an image provides.                                                 *)
LEMMA ImageFacts ==
  ASSUME NEW im \in Images
  PROVE  /\ im.load \in Nat /\ im.store \in Nat
         /\ im.data \in [Cells -> Word]
         /\ \A t \in Threads :
              /\ 0 \in DOMAIN im.code[t]
              /\ \A line \in DOMAIN im.code[t] :
                   /\ line \in Nat
                   /\ WellFormedInstruction(im.code[t][line])
                   /\ im.code[t][line].opcode # "HALT" =>
                        line + 1 \in DOMAIN im.code[t]
BY ImagesAssumption DEF WellFormedImage, WellFormedProgram

(* While threads are running, the chosen one is live and before all others *)
(* in the order of the search.                                             *)
LEMMA Chosen ==
  ASSUME FineInv, phase = "loop", isRunningThreads(done)
  PROVE  /\ lastIssued \in Threads /\ RRpolicy(lastIssued) \in Threads
         /\ threadID \in Threads /\ ~done[threadID]
         /\ \A u \in Threads :
              ~done[u] => Before(RRpolicy(lastIssued), sbTimer, threadID, u)
<1>1. /\ lastIssued \in Threads /\ sbTimer \in [Threads -> Nat]
      /\ done \in [Threads -> BOOLEAN]
      /\ threadID = getNextThreadFine(lastIssued, sbTimer, done)
  BY DEF FineInv, TypeOK, ChoiceStands
<1>2. RRpolicy(lastIssued) \in Threads
  BY <1>1, RRpolicyThread
<1>3. threadID = FirstReady(RRpolicy(lastIssued), sbTimer, done)
  BY <1>1 DEF getNextThreadFine
<1>4. QED BY <1>1, <1>2, <1>3, FirstReadyIsFirst

(* Whoever issues is live and stands on a well-formed instruction.         *)
LEMMA IssueContext ==
  ASSUME FineInv, phase = "loop", isRunningThreads(done)
  PROVE  /\ threadID \in Threads /\ ~done[threadID]
         /\ instId[threadID] \in DOMAIN img.code[threadID]
         /\ WellFormedInstruction(Inst)
         /\ Inst.opcode # "HALT" =>
              instId[threadID] + 1 \in DOMAIN img.code[threadID]
         /\ regs[threadID] \in [Regs -> Word]
<1>1. threadID \in Threads /\ ~done[threadID]
  BY Chosen
<1>2. instId[threadID] \in DOMAIN img.code[threadID]
  BY <1>1 DEF FineInv, LinesExist
<1>3. img \in Images /\ regs[threadID] \in [Regs -> Word]
  BY <1>1 DEF FineInv, TypeOK
<1>4. QED BY <1>1, <1>2, <1>3, ImageFacts DEF Inst

-----------------------------------------------------------------------------
LEMMA FineInit == Init => FineInv
<1> SUFFICES ASSUME Init PROVE FineInv
  OBVIOUS
<1> USE DEF Init, InitLocals
<1>1. 0 \in Threads /\ N - 1 \in Threads /\ 0 \in Word
  BY SizesAssumption DEF Threads, Word
<1>2. data \in [Cells -> Word]
  BY ImageFacts
<1>3. TypeOK
  BY <1>1, <1>2 DEF TypeOK
<1>4. ChoiceStands
  <2>1. RRpolicy(lastIssued) = 0
    BY DEF RRpolicy
  <2>2. \A u \in Threads : ~done[u] => Before(0, sbTimer, 0, u)
    BY <1>1, SizesAssumption DEF Before, RRDistance, Threads
  <2>3. FirstReady(0, sbTimer, done) = 0
    BY <1>1, <1>3, <2>2, FirstReadyIs DEF TypeOK
  <2>4. QED BY <2>1, <2>3 DEF ChoiceStands, getNextThreadFine
<1>5. LinesExist
  BY ImageFacts DEF LinesExist
<1>6. QED BY <1>3, <1>4, <1>5 DEF FineInv

(* The timers behind an instruction that costs `timer' cycles in all.      *)
LEMMA TimersLeft ==
  ASSUME FineInv, NEW timer \in Nat, NEW doneAfter, Issue(timer, doneAfter)
  PROVE  /\ sbTimer' \in [Threads -> Nat]
         /\ sbTimer'[threadID] = IF timer > 1 THEN timer - 1 ELSE 0
         /\ \A t \in Threads \ {threadID} :
              sbTimer'[t] = IF sbTimer[t] > 1 THEN sbTimer[t] - 1 ELSE 0
<1> DEFINE mid == [sbTimer EXCEPT ![threadID] = timer]
<1>1. threadID \in Threads /\ sbTimer \in [Threads -> Nat]
  BY Chosen DEF Issue, FineInv, TypeOK
<1>2. mid \in [Threads -> Nat] /\ mid[threadID] = timer
      /\ \A t \in Threads \ {threadID} : mid[t] = sbTimer[t]
  BY <1>1
<1>3. sbTimer' = sbTimerHandler(mid, 1)
  BY DEF Issue
<1>4. QED
  <2> HIDE DEF mid
  <2> QED BY <1>1, <1>2, <1>3, HandlerType

LEMMA IssueStep ==
  ASSUME FineInv, NEW timer \in Nat, NEW doneAfter, Issue(timer, doneAfter),
         \/ doneAfter = done /\ Inst.opcode # "HALT"
         \/ doneAfter = [done EXCEPT ![threadID] = TRUE],
         regs' \in [Threads -> [Regs -> Word]],
         data' \in [Cells -> Word]
  PROVE  FineInv'
<1>1. /\ threadID \in Threads
      /\ instId[threadID] \in DOMAIN img.code[threadID]
      /\ Inst.opcode # "HALT" =>
           instId[threadID] + 1 \in DOMAIN img.code[threadID]
  BY IssueContext DEF Issue
<1>2. /\ sbTimer' \in [Threads -> Nat]
      /\ done' = doneAfter /\ done' \in [Threads -> BOOLEAN]
      /\ instId' = [instId EXCEPT ![threadID] = @ + 1]
      /\ instId \in [Threads -> Nat] /\ instId' \in [Threads -> Nat]
      /\ img' = img /\ phase' = "loop" /\ lastIssued' = threadID
  <2>1. /\ done \in [Threads -> BOOLEAN] /\ instId \in [Threads -> Nat]
    BY DEF FineInv, TypeOK
  <2>2. /\ done' = doneAfter /\ instId' = [instId EXCEPT ![threadID] = @ + 1]
        /\ img' = img /\ phase' = "loop" /\ lastIssued' = threadID
    BY DEF Issue
  <2>3. doneAfter \in [Threads -> BOOLEAN]
    BY <2>1
  <2>4. instId' \in [Threads -> Nat]
    BY <1>1, <2>1, <2>2
  <2>5. sbTimer' \in [Threads -> Nat]
    BY TimersLeft
  <2>6. QED BY <2>1, <2>2, <2>3, <2>4, <2>5
<1>3. threadID' = getNextThreadFine(threadID, sbTimer', done')
  BY DEF Issue
<1>4. threadID' \in Threads \cup {NoThread}
  <2>1. RRpolicy(threadID) \in Threads
    BY <1>1, RRpolicyThread
  <2>2. CASE isRunningThreads(done')
    BY <1>2, <1>3, <2>1, <2>2, FirstReadyIsFirst DEF getNextThreadFine
  <2>3. CASE ~isRunningThreads(done')
    BY <1>3, <2>3 DEF getNextThreadFine, FirstReady
  <2>4. QED BY <2>2, <2>3
<1>5. overtaken' \in [Threads -> [Threads -> Nat]]
  <2>1. overtaken \in [Threads -> [Threads -> Nat]]
    BY DEF FineInv, TypeOK
  <2>2. QED BY <2>1 DEF Issue, Overtake
<1>6. TypeOK'
  <2>1. /\ img \in Images /\ instNum \in Nat /\ cyclesNum \in Nat
        /\ due \in [Threads -> Nat]
    BY DEF FineInv, TypeOK
  <2>2. /\ instNum' = instNum + 1 /\ cyclesNum' = cyclesNum + 1
        /\ due' = [due EXCEPT ![threadID] = cyclesNum + timer]
    BY DEF Issue
  <2>3. instNum' \in Nat /\ cyclesNum' \in Nat /\ due' \in [Threads -> Nat]
    BY <1>1, <2>1, <2>2
  <2>4. QED BY <1>1, <1>2, <1>4, <1>5, <2>1, <2>3 DEF TypeOK
<1>7. ChoiceStands'
  BY <1>2, <1>3 DEF ChoiceStands
<1>8. LinesExist'
  <2> SUFFICES ASSUME NEW t \in Threads, ~done'[t]
               PROVE  instId'[t] \in DOMAIN img.code[t]
    BY <1>2 DEF LinesExist
  <2>1. done \in [Threads -> BOOLEAN] /\ LinesExist
    BY DEF FineInv, TypeOK
  <2>2. CASE t = threadID
    BY <1>1, <1>2, <2>1, <2>2
  <2>3. CASE t # threadID
    BY <1>1, <1>2, <2>1, <2>3 DEF LinesExist
  <2>4. QED BY <2>2, <2>3
<1>9. QED BY <1>6, <1>7, <1>8 DEF FineInv

(* What an idle cycle does to the timers of live threads, all above zero.  *)
LEMMA IdleTimers ==
  ASSUME FineInv, Idle
  PROVE  /\ sbTimer' \in [Threads -> Nat]
         /\ \A t \in Threads : sbTimer'[t] = IF sbTimer[t] > 1 THEN sbTimer[t] - 1 ELSE 0
         /\ \A t \in Threads : ~done[t] => sbTimer[t] # 0 /\ sbTimer'[t] = sbTimer[t] - 1
<1>1. /\ threadID \in Threads /\ sbTimer[threadID] # 0
      /\ \A u \in Threads :
           ~done[u] => Before(RRpolicy(lastIssued), sbTimer, threadID, u)
  BY Chosen DEF Idle
<1>2. sbTimer \in [Threads -> Nat] /\ sbTimer' = sbTimerHandler(sbTimer, 1)
  BY DEF Idle, FineInv, TypeOK
<1>3. /\ sbTimer' \in [Threads -> Nat]
      /\ \A t \in Threads : sbTimer'[t] = IF sbTimer[t] > 1 THEN sbTimer[t] - 1 ELSE 0
  BY <1>2, HandlerType
<1>4. \A t \in Threads : ~done[t] => sbTimer[t] # 0
  BY <1>1, <1>2 DEF Before
<1>5. QED
  <2> SUFFICES ASSUME NEW t \in Threads, ~done[t] PROVE sbTimer'[t] = sbTimer[t] - 1
    BY <1>3, <1>4
  <2>1. sbTimer[t] \in Nat /\ sbTimer[t] # 0
    BY <1>2, <1>4
  <2>2. QED BY <1>3, <2>1

LEMMA IdleStep ==
  ASSUME FineInv, Idle
  PROVE  FineInv'
<1>1. /\ phase = "loop" /\ isRunningThreads(done)
      /\ UNCHANGED <<img, done, instId, threadID, regs, data, instNum, phase,
                     due, lastIssued, overtaken>>
      /\ cyclesNum' = cyclesNum + 1
  BY DEF Idle, history
<1>2. /\ sbTimer' \in [Threads -> Nat]
      /\ \A t \in Threads : ~done[t] => sbTimer[t] # 0 /\ sbTimer'[t] = sbTimer[t] - 1
  BY IdleTimers
<1>3. TypeOK'
  BY <1>1, <1>2 DEF FineInv, TypeOK
<1>4. ChoiceStands'
  <2> DEFINE p == RRpolicy(lastIssued)
  <2>1. /\ p \in Threads /\ threadID \in Threads /\ ~done[threadID]
        /\ sbTimer \in [Threads -> Nat] /\ done \in [Threads -> BOOLEAN]
        /\ \A u \in Threads : ~done[u] => Before(p, sbTimer, threadID, u)
    BY <1>1, Chosen DEF FineInv, TypeOK
  <2>2. ASSUME NEW u \in Threads, ~done[u]
        PROVE  Before(p, sbTimer', threadID, u)
    <3>1. Before(p, sbTimer, threadID, u)
      BY <2>1, <2>2
    <3>2. /\ sbTimer'[threadID] = sbTimer[threadID] - 1 /\ sbTimer'[u] = sbTimer[u] - 1
          /\ sbTimer[threadID] \in Nat /\ sbTimer[u] \in Nat
      BY <1>2, <2>1, <2>2
    <3> HIDE DEF p
    <3>3. QED BY <3>1, <3>2 DEF Before
  <2>3. FirstReady(p, sbTimer', done) = threadID
    <3> HIDE DEF p
    <3> QED BY <1>2, <2>1, <2>2, FirstReadyIs
  <2>4. QED BY <1>1, <2>3 DEF ChoiceStands, getNextThreadFine
<1>5. LinesExist'
  BY <1>1 DEF FineInv, LinesExist
<1>6. QED BY <1>3, <1>4, <1>5 DEF FineInv

LEMMA FineStep == FineInv /\ [Next]_vars => FineInv'
<1> SUFFICES ASSUME FineInv, [Next]_vars PROVE FineInv'
  OBVIOUS
<1>1. /\ img \in Images /\ regs \in [Threads -> [Regs -> Word]]
      /\ data \in [Cells -> Word]
  BY DEF FineInv, TypeOK
<1>2. CASE ExecNop
  <2>1. Issue(0, done) /\ Inst.opcode # "HALT"
    BY <1>2 DEF ExecNop
  <2>2. regs' = regs /\ data' = data
    BY <1>2 DEF ExecNop
  <2>3. QED BY <1>1, <2>1, <2>2, IssueStep
<1>3. CASE ExecAlu
  <2>1. threadID \in Threads /\ WellFormedInstruction(Inst)
        /\ regs[threadID] \in [Regs -> Word] /\ Inst.opcode \in AluOps
    BY <1>3, IssueContext DEF ExecAlu, Issue
  <2>2. AluResult(Inst, regs[threadID]) \in Word
    BY <2>1, AluWord
  <2>3. regs' \in [Threads -> [Regs -> Word]] /\ data' = data
    BY <1>1, <1>3, <2>1, <2>2, OperandWords DEF ExecAlu
  <2>4. Inst.opcode # "HALT" /\ Issue(1, done)
    BY <1>3, <2>1 DEF AluOps, ExecAlu
  <2>5. QED BY <1>1, <2>3, <2>4, IssueStep
<1>4. CASE ExecLoad
  <2> DEFINE addr == LoadAddr(Inst, regs[threadID])
  <2>1. /\ Issue(img.load + 1, done) /\ Inst.opcode = "LOAD" /\ InData(addr)
        /\ regs' = [regs EXCEPT ![threadID][Inst.dst] = SIM_MemDataRead(data, addr)]
        /\ data' = data
    BY <1>4 DEF ExecLoad
  <2>2. threadID \in Threads /\ WellFormedInstruction(Inst)
        /\ regs[threadID] \in [Regs -> Word]
    BY <2>1, IssueContext DEF Issue
  <2>3. \A val \in Word : SIM_MemDataRead(data, addr) \in Word
    BY <1>1, <2>1, MemoryWords
  <2>4. SIM_MemDataRead(data, addr) \in Word
    BY <2>2, <2>3, OperandWords
  <2>5. regs' \in [Threads -> [Regs -> Word]]
    BY <1>1, <2>1, <2>2, <2>4, OperandWords
  <2>6. img.load + 1 \in Nat /\ Inst.opcode # "HALT"
    BY <1>1, <2>1, ImageFacts
  <2>7. QED BY <1>1, <2>1, <2>5, <2>6, IssueStep
<1>5. CASE ExecStore
  <2> DEFINE addr == StoreAddr(Inst, regs[threadID])
             val == regs[threadID][Inst.src1]
  <2>1. /\ Issue(img.store + 1, done) /\ Inst.opcode = "STORE" /\ InData(addr)
        /\ data' = SIM_MemDataWrite(data, addr, val)
        /\ regs' = regs
    BY <1>5 DEF ExecStore
  <2>2. threadID \in Threads /\ WellFormedInstruction(Inst)
        /\ regs[threadID] \in [Regs -> Word]
    BY <2>1, IssueContext DEF Issue
  <2>3. val \in Word
    BY <2>2, OperandWords
  <2>4. data' \in [Cells -> Word]
    BY <1>1, <2>1, <2>3, MemoryWords
  <2>5. img.store + 1 \in Nat /\ Inst.opcode # "HALT"
    BY <1>1, <2>1, ImageFacts
  <2>6. QED BY <1>1, <2>1, <2>4, <2>5, IssueStep
<1>6. CASE ExecHalt
  <2>1. Issue(1, [done EXCEPT ![threadID] = TRUE]) /\ regs' = regs /\ data' = data
    BY <1>6 DEF ExecHalt
  <2>2. QED BY <1>1, <2>1, IssueStep
<1>7. CASE Idle
  BY <1>7, IdleStep
<1>8. CASE Exit
  BY <1>8 DEF Exit, history, FineInv, TypeOK, ChoiceStands, LinesExist
<1>9. CASE UNCHANGED vars
  BY <1>9 DEF vars, history, FineInv, TypeOK, ChoiceStands, LinesExist
<1>10. QED
  BY <1>2, <1>3, <1>4, <1>5, <1>6, <1>7, <1>8, <1>9 DEF Next, Step, Returned

(* The inductive invariant holds in every reachable state of the           *)
(* fine-grained core (core_api.cpp:269-325).                               *)
THEOREM FineInvariance == Spec => []FineInv
BY FineInit, FineStep, PTL DEF Spec

(* Registers and data memory hold words, timers and line numbers never     *)
(* leave their ranges, whatever the image (core_api.cpp:269-325).          *)
THEOREM FineTypes == Spec => []TypeOK
<1>1. FineInv => TypeOK
  BY DEF FineInv
<1>2. QED BY <1>1, FineInvariance, PTL

(* The else branch of the main loop need not choose again: the choice made *)
(* when the last instruction issued stands while the core idles            *)
(* (core_api.cpp:320).                                                     *)
THEOREM FineChoiceStands == Spec => []ChoiceStands
<1>1. FineInv => ChoiceStands
  BY DEF FineInv
<1>2. QED BY <1>1, FineInvariance, PTL

(* A cycle is idle only when no live thread is ready (core_api.cpp:320).   *)
THEOREM FineNeverIdles == Spec => NeverIdlesWhileReady
<1> DEFINE A == cyclesNum' # cyclesNum /\ instNum' = instNum =>
                  \A t \in Threads : ~done[t] => sbTimer[t] # 0
<1>1. FineInv /\ [Next]_vars => [A]_vars
  <2> SUFFICES ASSUME FineInv, Next, cyclesNum' # cyclesNum, instNum' = instNum
               PROVE  \A t \in Threads : ~done[t] => sbTimer[t] # 0
    BY DEF vars, history
  <2>1. instNum' # instNum + 1
    BY DEF FineInv, TypeOK
  <2>2. Idle
    BY <2>1 DEF Next, Step, Returned, vars, Exit, ExecNop, ExecAlu, ExecLoad,
                ExecStore, ExecHalt, Issue
  <2>3. QED BY <2>2, IdleTimers
<1>2. QED BY <1>1, FineInvariance, PTL DEF Spec, NeverIdlesWhileReady

-----------------------------------------------------------------------------
(* Steps in which an instruction issues, whatever it does.                 *)
LEMMA IssueOrIdle ==
  ASSUME FineInv, Next
  PROVE  \/ \E timer \in Nat, doneAfter \in {done, [done EXCEPT ![threadID] = TRUE]} :
              Issue(timer, doneAfter)
         \/ Idle
         \/ UNCHANGED <<sbTimer, done, cyclesNum, due, lastIssued, overtaken>>
<1>1. img.load + 1 \in Nat /\ img.store + 1 \in Nat
  BY ImageFacts DEF FineInv, TypeOK
<1>2. QED
  BY <1>1 DEF Next, Step, Returned, vars, history, ExecNop, ExecAlu, ExecLoad,
              ExecStore, ExecHalt, Exit

(* A live thread's timer is exactly the rest of its last instruction and   *)
(* its latency (core_api.cpp:284, 293, 314).                               *)
THEOREM FineTimersExact == Spec => []TimerMeetsDeadline
<1>1. Init => TimerMeetsDeadline
  BY DEF Init, InitLocals, TimerMeetsDeadline
<1>2. FineInv /\ TimerMeetsDeadline /\ [Next]_vars => TimerMeetsDeadline'
  <2> SUFFICES ASSUME FineInv, TimerMeetsDeadline, Next PROVE TimerMeetsDeadline'
    BY DEF TimerMeetsDeadline, vars, history
  <2>1. /\ sbTimer \in [Threads -> Nat] /\ due \in [Threads -> Nat]
        /\ done \in [Threads -> BOOLEAN] /\ cyclesNum \in Nat
    BY DEF FineInv, TypeOK
  <2>2. ASSUME NEW timer \in Nat, NEW doneAfter,
               doneAfter \in {done, [done EXCEPT ![threadID] = TRUE]},
               Issue(timer, doneAfter)
        PROVE  TimerMeetsDeadline'
    <3> SUFFICES ASSUME NEW t \in Threads, ~done'[t]
                 PROVE  sbTimer'[t] = IF due'[t] > cyclesNum' THEN due'[t] - cyclesNum' ELSE 0
      BY DEF TimerMeetsDeadline
    <3>1. /\ done' = doneAfter /\ cyclesNum' = cyclesNum + 1
          /\ due' = [due EXCEPT ![threadID] = cyclesNum + timer]
      BY <2>2 DEF Issue
    <3>2. /\ sbTimer'[threadID] = IF timer > 1 THEN timer - 1 ELSE 0
          /\ \A u \in Threads \ {threadID} :
               sbTimer'[u] = IF sbTimer[u] > 1 THEN sbTimer[u] - 1 ELSE 0
      BY <2>2, TimersLeft
    <3>3. CASE t = threadID
      BY <2>1, <3>1, <3>2, <3>3
    <3>4. CASE t # threadID
      <4>1. ~done[t] /\ due'[t] = due[t]
        BY <2>1, <2>2, <3>1, <3>4
      <4>2. sbTimer[t] = IF due[t] > cyclesNum THEN due[t] - cyclesNum ELSE 0
        BY <4>1 DEF TimerMeetsDeadline
      <4>3. due[t] \in Nat
        BY <2>1
      <4>4. sbTimer'[t] = IF sbTimer[t] > 1 THEN sbTimer[t] - 1 ELSE 0
        BY <3>2, <3>4
      <4>5. QED BY <2>1, <3>1, <4>1, <4>2, <4>3, <4>4
    <3>5. QED BY <3>3, <3>4
  <2>3. CASE Idle
    <3> SUFFICES ASSUME NEW t \in Threads, ~done'[t]
                 PROVE  sbTimer'[t] = IF due'[t] > cyclesNum' THEN due'[t] - cyclesNum' ELSE 0
      BY DEF TimerMeetsDeadline
    <3>1. due' = due /\ done' = done /\ cyclesNum' = cyclesNum + 1
      BY <2>3 DEF Idle, history
    <3>2. sbTimer[t] = IF due[t] > cyclesNum THEN due[t] - cyclesNum ELSE 0
      BY <3>1 DEF TimerMeetsDeadline
    <3>3. sbTimer'[t] = IF sbTimer[t] > 1 THEN sbTimer[t] - 1 ELSE 0
      BY <2>3, IdleTimers
    <3>4. due[t] \in Nat
      BY <2>1
    <3>5. QED BY <2>1, <3>1, <3>2, <3>3, <3>4
  <2>4. CASE UNCHANGED <<sbTimer, done, cyclesNum, due, lastIssued, overtaken>>
    BY <2>4 DEF TimerMeetsDeadline
  <2>5. QED BY <2>2, <2>3, <2>4, IssueOrIdle
<1>3. QED BY <1>1, <1>2, FineInvariance, PTL DEF Spec

-----------------------------------------------------------------------------
(* Starting the numbering behind thread c puts c last and keeps the order  *)
(* of the threads that came after it.                                      *)
LEMMA Turned ==
  ASSUME NEW p \in Threads, NEW c \in Threads, NEW t \in Threads,
         NEW u \in Threads
  PROVE  /\ t # c => RRDistance(RRpolicy(c), t) < RRDistance(RRpolicy(c), c)
         /\ RRDistance(p, c) < RRDistance(p, t) /\ RRDistance(p, t) < RRDistance(p, u) =>
              RRDistance(RRpolicy(c), t) < RRDistance(RRpolicy(c), u)
BY SizesAssumption DEF Threads, RRDistance, RRpolicy

(* Round robin (core_api.cpp:221): a thread that is ready is overtaken by  *)
(* each other thread at most once before it issues.                        *)
THEOREM FineOvertaken == Spec => []OvertakenAtMostOnce
<1>1. Init => OvertakenIsNext
  BY DEF Init, InitLocals, OvertakenIsNext
<1>2. FineInv /\ OvertakenIsNext /\ [Next]_vars => OvertakenIsNext'
  <2> SUFFICES ASSUME FineInv, OvertakenIsNext, Next PROVE OvertakenIsNext'
    BY DEF OvertakenIsNext, vars, history
  <2>1. /\ sbTimer \in [Threads -> Nat] /\ done \in [Threads -> BOOLEAN]
        /\ overtaken \in [Threads -> [Threads -> Nat]]
    BY DEF FineInv, TypeOK
  <2>2. ASSUME NEW timer \in Nat, NEW doneAfter,
               doneAfter \in {done, [done EXCEPT ![threadID] = TRUE]},
               Issue(timer, doneAfter)
        PROVE  OvertakenIsNext'
    <3> DEFINE p == RRpolicy(lastIssued)
    <3> SUFFICES ASSUME NEW t \in Threads, NEW u \in Threads,
                        ~done'[t], overtaken'[t][u] # 0
                 PROVE  /\ overtaken'[t][u] = 1
                        /\ sbTimer'[t] = 0
                        /\ RRDistance(RRpolicy(lastIssued'), t)
                             < RRDistance(RRpolicy(lastIssued'), u)
      BY DEF OvertakenIsNext
    <3>1. /\ p \in Threads /\ threadID \in Threads /\ ~done[threadID]
          /\ sbTimer[threadID] = 0 /\ lastIssued' = threadID
          /\ \A v \in Threads : ~done[v] => Before(p, sbTimer, threadID, v)
      BY <2>2, Chosen DEF Issue
    <3>2. t # threadID /\ ~done[t]
      BY <2>1, <2>2, <3>1 DEF Issue, Overtake
    <3>3. overtaken'[t][u] = IF u = threadID /\ Ready(t) THEN overtaken[t][u] + 1
                             ELSE overtaken[t][u]
      BY <2>2, <3>2 DEF Issue, Overtake
    <3>4. overtaken[t][u] # 0 =>
            /\ overtaken[t][u] = 1 /\ sbTimer[t] = 0
            /\ RRDistance(p, t) < RRDistance(p, u)
      BY <3>2 DEF OvertakenIsNext
    <3>5. sbTimer[t] = 0
      BY <3>3, <3>4 DEF Ready
    <3>6. sbTimer'[t] = 0
      BY <2>2, <3>2, <3>5, TimersLeft
    <3>7. RRDistance(p, threadID) < RRDistance(p, t)
      <4>1. Before(p, sbTimer, threadID, t)
        BY <3>1, <3>2
      <4>2. RRDistance(p, threadID) <= RRDistance(p, t)
        BY <3>1, <3>5, <4>1 DEF Before
      <4>3. /\ RRDistance(p, threadID) # RRDistance(p, t)
            /\ RRDistance(p, threadID) \in Int /\ RRDistance(p, t) \in Int
        <5> HIDE DEF p
        <5> QED BY <3>1, <3>2, DistanceInjective
      <4> HIDE DEF p
      <4>4. QED BY <4>2, <4>3
    <3>8. CASE u = threadID
      <4>1. overtaken[t][u] = 0
        <5>1. ~(RRDistance(p, t) < RRDistance(p, u))
          <6>1. RRDistance(p, t) \in Int /\ RRDistance(p, u) \in Int
            <7> HIDE DEF p
            <7> QED BY <3>1, DistanceInjective
          <6> HIDE DEF p
          <6>2. QED BY <3>7, <3>8, <6>1
        <5>2. QED BY <3>4, <5>1
      <4>2. RRDistance(RRpolicy(threadID), t) < RRDistance(RRpolicy(threadID), threadID)
        BY <3>1, <3>2, Turned
      <4>3. overtaken'[t][u] = 1
        BY <3>2, <3>3, <3>5, <3>8, <4>1 DEF Ready
      <4>4. QED BY <3>1, <3>6, <3>8, <4>2, <4>3
    <3>9. CASE u # threadID
      <4>1. overtaken'[t][u] = overtaken[t][u] /\ overtaken[t][u] # 0
        BY <3>3, <3>9
      <4>2. RRDistance(RRpolicy(threadID), t) < RRDistance(RRpolicy(threadID), u)
        <5> HIDE DEF p
        <5> QED BY <3>1, <3>4, <3>7, <4>1, Turned
      <4>3. QED BY <3>1, <3>4, <3>6, <4>1, <4>2
    <3>10. QED BY <3>8, <3>9
  <2>3. CASE Idle
    <3> SUFFICES ASSUME NEW t \in Threads, NEW u \in Threads,
                        ~done'[t], overtaken'[t][u] # 0
                 PROVE  FALSE
      BY DEF OvertakenIsNext
    <3>1. overtaken' = overtaken /\ done' = done
      BY <2>3 DEF Idle, history
    <3>2. sbTimer[t] = 0
      BY <3>1 DEF OvertakenIsNext
    <3>3. sbTimer[t] # 0
      BY <2>3, <3>1, IdleTimers
    <3>4. QED BY <3>2, <3>3
  <2>4. CASE UNCHANGED <<sbTimer, done, cyclesNum, due, lastIssued, overtaken>>
    BY <2>4 DEF OvertakenIsNext
  <2>5. QED BY <2>2, <2>3, <2>4, IssueOrIdle
<1>3. FineInv /\ OvertakenIsNext => OvertakenAtMostOnce
  <2> SUFFICES ASSUME FineInv, OvertakenIsNext, NEW t \in Threads, NEW u \in Threads,
                      ~done[t]
               PROVE  overtaken[t][u] <= 1
    BY DEF OvertakenAtMostOnce
  <2>1. overtaken[t][u] = 0 \/ overtaken[t][u] = 1
    BY DEF OvertakenIsNext
  <2>2. QED BY <2>1
<1>4. QED BY <1>1, <1>2, <1>3, FineInvariance, PTL DEF Spec

-----------------------------------------------------------------------------
(* The operators of MTCore are the same in the instance of SCThreads.      *)
LEMMA SameCore ==
  /\ SC!Threads = Threads /\ SC!Regs = Regs /\ SC!AluOps = AluOps
  /\ \A in, r : /\ SC!AluResult(in, r) = AluResult(in, r)
               /\ SC!LoadAddr(in, r) = LoadAddr(in, r)
               /\ SC!StoreAddr(in, r) = StoreAddr(in, r)
  /\ \A addr : SC!InData(addr) = InData(addr)
  /\ \A mem, addr, val :
       /\ SC!SIM_MemDataRead(mem, addr) = SIM_MemDataRead(mem, addr)
       /\ SC!SIM_MemDataWrite(mem, addr, val) = SIM_MemDataWrite(mem, addr, val)
<1> USE DEF SC!Wrap, Wrap
<1>1. SC!Threads = Threads /\ SC!Regs = Regs /\ SC!AluOps = AluOps /\ SC!Cells = Cells
  BY DEF SC!Threads, Threads, SC!Regs, Regs, SC!AluOps, AluOps, SC!Cells, Cells
<1>2. \A in, r : SC!Src2(in, r) = Src2(in, r)
  BY DEF SC!Src2, Src2
<1>3. \A in, r : SC!AluResult(in, r) = AluResult(in, r)
  BY <1>2 DEF SC!AluResult, AluResult
<1>4. \A in, r : /\ SC!LoadAddr(in, r) = LoadAddr(in, r)
                /\ SC!StoreAddr(in, r) = StoreAddr(in, r)
  BY <1>2 DEF SC!LoadAddr, LoadAddr, SC!StoreAddr, StoreAddr
<1>5. \A addr : SC!DataIndex(addr) = DataIndex(addr)
  BY DEF SC!DataIndex, DataIndex, SC!DataIndexFrom, DataIndexFrom
<1>6. \A addr : SC!InData(addr) = InData(addr)
  BY <1>1, <1>5 DEF SC!InData, InData
<1>7. \A mem, addr, val :
        /\ SC!SIM_MemDataRead(mem, addr) = SIM_MemDataRead(mem, addr)
        /\ SC!SIM_MemDataWrite(mem, addr, val) = SIM_MemDataWrite(mem, addr, val)
  BY <1>5 DEF SC!SIM_MemDataRead, SIM_MemDataRead, SC!SIM_MemDataWrite, SIM_MemDataWrite
<1>8. QED BY <1>1, <1>3, <1>4, <1>6, <1>7

(* A step of the core is a step of SCThreads or invisible there.           *)
LEMMA FineStepSC == FineInv /\ [Next]_vars => [SC!Next]_(SC!vars)
<1> SUFFICES ASSUME FineInv, Next PROVE [SC!Next]_(SC!vars)
  BY DEF vars, SC!vars
<1>1. ASSUME NEW timer, NEW doneAfter, Issue(timer, doneAfter)
      PROVE  /\ threadID \in Threads /\ ~done[threadID]
             /\ SC!Advance(threadID) /\ SC!Fetch(threadID) = Inst
             /\ done' = doneAfter
  BY <1>1, Chosen DEF Issue, SC!Advance, SC!Fetch, Inst
<1>2. CASE ExecNop
  <2>1. SC!Nop(threadID)
    BY <1>1, <1>2, SameCore DEF ExecNop, SC!Nop
  <2>2. QED BY <1>1, <1>2, <2>1, SameCore DEF ExecNop, SC!Next, SC!Step
<1>3. CASE ExecAlu
  <2>1. SC!Alu(threadID)
    BY <1>1, <1>3, SameCore DEF ExecAlu, SC!Alu
  <2>2. QED BY <1>1, <1>3, <2>1, SameCore DEF ExecAlu, SC!Next, SC!Step
<1>4. CASE ExecLoad
  <2>1. SC!Load(threadID)
    BY <1>1, <1>4, SameCore DEF ExecLoad, SC!Load
  <2>2. QED BY <1>1, <1>4, <2>1, SameCore DEF ExecLoad, SC!Next, SC!Step
<1>5. CASE ExecStore
  <2>1. SC!Store(threadID)
    BY <1>1, <1>5, SameCore DEF ExecStore, SC!Store
  <2>2. QED BY <1>1, <1>5, <2>1, SameCore DEF ExecStore, SC!Next, SC!Step
<1>6. CASE ExecHalt
  <2>1. SC!Halt(threadID)
    BY <1>1, <1>6, SameCore DEF ExecHalt, SC!Halt
  <2>2. QED BY <1>1, <1>6, <2>1, SameCore DEF ExecHalt, SC!Next, SC!Step
<1>7. CASE Idle
  BY <1>7 DEF Idle, SC!vars
<1>8. CASE Exit
  BY <1>8 DEF Exit, SC!vars
<1>9. CASE Returned
  BY <1>9 DEF Returned, vars, SC!vars
<1>10. QED
  BY <1>2, <1>3, <1>4, <1>5, <1>6, <1>7, <1>8, <1>9 DEF Next, Step

(* The safety part of ImplementsSC: every thread executes its program in   *)
(* order on the shared memory, each instruction once and whole             *)
(* (core_api.cpp:269-318).                                                 *)
THEOREM FineRefinesSC == Spec => SC!Init /\ [][SC!Next]_(SC!vars)
<1>1. Init => SC!Init
  BY SameCore DEF Init, InitLocals, SC!Init
<1>2. QED BY <1>1, FineStepSC, FineInvariance, PTL DEF Spec

-----------------------------------------------------------------------------
(* Seen from the registers, a step either does nothing or executes the     *)
(* next line of one thread, whole.                                         *)
LEMMA FineExecutes ==
  ASSUME FineInv, [Next]_vars
  PROVE  /\ img' = img
         /\ \/ UNCHANGED <<done, instId, regs, data>>
            \/ \E t \in Threads :
                 LET in == img.code[t][instId[t]] IN
                 /\ ~done[t]
                 /\ \A u \in Threads :
                      instId'[u] = IF u = t THEN instId[t] + 1 ELSE instId[u]
                 /\ done' = [done EXCEPT ![t] = in.opcode = "HALT"]
                 /\ regs' = [regs EXCEPT ![t] = Outcome(in, regs[t], data)]
                 /\ data' = Stored(in, regs[t], data)
                 /\ in.opcode = "LOAD" => InData(LoadAddr(in, regs[t]))
                 /\ in.opcode = "STORE" => InData(StoreAddr(in, regs[t]))
<1>1. CASE UNCHANGED SC!vars
  BY <1>1 DEF SC!vars
<1>2. CASE SC!Next
  <2>1. PICK t \in Threads : SC!Step(t)
    BY <1>2, SameCore DEF SC!Next
  <2> DEFINE in == img.code[t][instId[t]]
  <2>2. SC!Fetch(t) = in
    BY DEF SC!Fetch
  <2>3. ~done[t] /\ SC!Advance(t)
    BY <2>1 DEF SC!Step, SC!Nop, SC!Alu, SC!Load, SC!Store, SC!Halt
  <2>4. img' = img /\ instId' = [instId EXCEPT ![t] = @ + 1]
    BY <2>3 DEF SC!Advance
  <2>5. ASSUME NEW u \in Threads
        PROVE  instId'[u] = IF u = t THEN instId[t] + 1 ELSE instId[u]
    BY <2>4 DEF FineInv, TypeOK
  <2>6. done \in [Threads -> BOOLEAN] /\ regs \in [Threads -> [Regs -> Word]]
    BY DEF FineInv, TypeOK
  <2>7. ASSUME in.opcode # "HALT", done' = done
        PROVE  done' = [done EXCEPT ![t] = in.opcode = "HALT"]
    BY <2>3, <2>6, <2>7, Zenon
  <2>8. ASSUME in.opcode \notin AluOps, in.opcode # "LOAD", regs' = regs
        PROVE  regs' = [regs EXCEPT ![t] = Outcome(in, regs[t], data)]
    BY <2>6, <2>8 DEF Outcome
  <2>9. /\ done' = [done EXCEPT ![t] = in.opcode = "HALT"]
        /\ regs' = [regs EXCEPT ![t] = Outcome(in, regs[t], data)]
        /\ data' = Stored(in, regs[t], data)
        /\ in.opcode = "LOAD" => InData(LoadAddr(in, regs[t]))
        /\ in.opcode = "STORE" => InData(StoreAddr(in, regs[t]))
    <3>1. CASE SC!Nop(t)
      BY <2>2, <2>7, <2>8, <3>1 DEF SC!Nop, AluOps, Stored
    <3>2. CASE SC!Alu(t)
      BY <2>2, <2>7, <3>2, SameCore DEF SC!Alu, Outcome, Stored, AluOps
    <3>3. CASE SC!Load(t)
      <4>1. /\ in.opcode = "LOAD" /\ done' = done /\ data' = data
            /\ InData(LoadAddr(in, regs[t]))
            /\ regs' = [regs EXCEPT ![t][in.dst]
                         = SIM_MemDataRead(data, LoadAddr(in, regs[t]))]
        BY <2>2, <3>3, SameCore DEF SC!Load
      <4>2. Outcome(in, regs[t], data)
            = [regs[t] EXCEPT ![in.dst] = SIM_MemDataRead(data, LoadAddr(in, regs[t]))]
        BY <4>1 DEF Outcome, AluOps
      <4>3. QED BY <2>7, <4>1, <4>2 DEF Stored
    <3>4. CASE SC!Store(t)
      BY <2>2, <2>7, <2>8, <3>4, SameCore DEF SC!Store, Stored, AluOps
    <3>5. CASE SC!Halt(t)
      BY <2>2, <2>8, <3>5 DEF SC!Halt, Stored, AluOps
    <3>6. SC!Nop(t) \/ SC!Alu(t) \/ SC!Load(t) \/ SC!Store(t) \/ SC!Halt(t)
      BY <2>1 DEF SC!Step
    <3>7. QED BY <3>1, <3>2, <3>3, <3>4, <3>5, <3>6, Zenon
  <2>10. QED BY <2>3, <2>4, <2>5, <2>9
<1>3. QED BY <1>1, <1>2, FineStepSC

(* Whoever runs beside the core may change the data memory.                *)
LEMMA FineFrame ==
  ASSUME FineInv, data' \in [Cells -> Word],
         UNCHANGED <<img, sbTimer, done, instId, threadID, regs, cyclesNum,
                     instNum, phase, history>>
  PROVE  FineInv'
BY DEF history, FineInv, TypeOK, ChoiceStands, LinesExist

(* The core only returns when every thread is done.                        *)
LEMMA FineEnds ==
  ASSUME [Next]_vars, phase = "end" => ~isRunningThreads(done)
  PROVE  phase' = "end" => ~isRunningThreads(done')
BY DEF Next, Step, Returned, ExecNop, ExecAlu, ExecLoad, ExecStore, ExecHalt,
       Issue, Idle, Exit, vars, isRunningThreads
=============================================================================
