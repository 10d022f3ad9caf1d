------------------------------ MODULE MTSimProofs ------------------------------
(***************************************************************************)
(* main of HW4 and the search loops both its cores use: for both cores a   *)
(* thread computes what it computes alone, for every image without a race, *)
(* and the two loops of getNextThread return FirstReady, for any number of *)
(* threads and any timers.                                                 *)
(***************************************************************************)
EXTENDS MTSim, NextThreadSearch, MTCoreTheorems

(* The proofs about the cores, for the two cores of main.                  *)
BP == INSTANCE BlockedMTProofs WITH
  sbTimer <- bTimer, done <- bDone, instId <- bInstId, threadID <- bThread,
  currThreadID <- bCurrThread, regs <- statsBlockedRegs, cyclesNum <- bCycles,
  instNum <- bInsts, phase <- bPhase, ghostTimer <- bGhost, due <- bDue,
  idles <- bIdles, lastIssued <- bLastIssued, switches <- bSwitches

FP == INSTANCE FinegrainedMTProofs WITH
  sbTimer <- fTimer, done <- fDone, instId <- fInstId, threadID <- fThread,
  regs <- statsFineRegs, cyclesNum <- fCycles, instNum <- fInsts,
  phase <- fPhase, due <- fDue, lastIssued <- fLastIssued,
  overtaken <- fOvertaken

-----------------------------------------------------------------------------
(* The search loops.                                                       *)

(* Going round from thread f: after k steps the walk is at the thread k    *)
(* steps behind f, and back at f after N.                                  *)
LEMMA AroundStep ==
  ASSUME NEW f \in Threads, NEW k \in 1 .. N
  PROVE  /\ Around(f, k) \in Threads
         /\ k < N => RRDistance(f, Around(f, k)) = k
         /\ k = N => Around(f, k) = f
         /\ RRpolicy(Around(f, k)) = Around(f, k + 1)
BY SizesAssumption DEF Threads, Around, RRDistance, RRpolicy

(* Distances add up along the round.                                       *)
LEMMA DistanceAdds ==
  ASSUME NEW s \in Threads, NEW f \in Threads, NEW t \in Threads,
         RRDistance(s, f) <= RRDistance(s, t)
  PROVE  RRDistance(s, t) = RRDistance(s, f) + RRDistance(f, t)
BY SizesAssumption DEF Threads, RRDistance

LEMMA SearchInvInit == Init => SearchInv
<1> SUFFICES ASSUME Init PROVE SearchInv
  OBVIOUS
<1>1. TypeOK
  BY SizesAssumption, GarbageAssumption DEF Init, TypeOK, Threads, NoThread
<1>2. PassedAreDone
  BY <1>1, SizesAssumption, DistanceInjective
     DEF Init, TypeOK, PassedAreDone, Threads, RRDistance
<1>3. QED BY <1>1, <1>2 DEF Init, SearchInv, MinOfVisited, ReturnAtEnd

(* The typing of one step, loop by loop.                                   *)
LEMMA TypeStep == TypeOK /\ [Next]_vars => TypeOK'
<1> SUFFICES ASSUME TypeOK, [Next]_vars PROVE TypeOK'
  OBVIOUS
<1>1. i \in Nat /\ N \in Nat /\ nextThreadID \in Threads
  BY SizesAssumption DEF TypeOK
<1>2. RRpolicy(nextThreadID) \in Threads /\ 0 \in 0 .. N
  BY <1>1, RRpolicyThread
<1>3. sbTimer[nextThreadID] \in Int
  <2>1. sbTimer[nextThreadID] \in Timers
    BY <1>1 DEF TypeOK
  <2>2. sbTimer[nextThreadID] \in Nat
    BY <2>1, TimersAssumption
  <2>3. QED BY <2>2
<1>4. CASE SkipDone
  BY <1>1, <1>2, <1>4 DEF TypeOK, SkipDone, inputs
<1>5. CASE FoundLive
  BY <1>1, <1>2, <1>3, <1>5 DEF TypeOK, FoundLive, StartScan, inputs
<1>6. CASE NoneLive
  BY <1>1, <1>2, <1>6 DEF TypeOK, NoneLive, StartScan, inputs
<1>7. CASE TakeBetter
  BY <1>1, <1>2, <1>3, <1>7 DEF TypeOK, TakeBetter, ScanNext, inputs
<1>8. CASE KeepMin
  BY <1>1, <1>2, <1>8 DEF TypeOK, KeepMin, ScanNext, inputs
<1>9. CASE Return
  BY <1>9 DEF TypeOK, Return, inputs
<1>10. CASE Returned \/ UNCHANGED vars
  BY <1>10 DEF TypeOK, Returned, vars, inputs
<1>11. QED
  BY <1>4, <1>5, <1>6, <1>7, <1>8, <1>9, <1>10 DEF Next

(* The first loop: whoever has been passed is done, so the first live      *)
(* thread it meets is the first of all.                                    *)
LEMMA FindStep ==
  ASSUME SearchInv, SkipDone \/ FoundLive \/ NoneLive, TypeOK'
  PROVE  PassedAreDone' /\ MinOfVisited' /\ ReturnAtEnd'
<1> USE SizesAssumption
<1>0. PICK n \in Threads : n = nextThreadID
  BY DEF SearchInv, TypeOK
<1>1. /\ from \in Threads /\ n \in Threads /\ i \in 0 .. N
      /\ sbTimer \in [Threads -> Timers] /\ done \in [Threads -> BOOLEAN]
      /\ pc = "find" /\ minTimerThread = NoThread
      /\ n = nextThreadID
      /\ RRDistance(from, n) = (IF i = N THEN 0 ELSE i)
      /\ \A u \in Threads : RRDistance(from, u) < i => done[u]
  BY <1>0 DEF SearchInv, TypeOK, PassedAreDone, SkipDone, FoundLive, NoneLive
<1>2. CASE SkipDone
  <2>1. RRDistance(from, RRpolicy(n)) = (IF i + 1 = N THEN 0 ELSE i + 1)
    BY <1>1, <1>2 DEF SkipDone, Threads, RRDistance, RRpolicy
  <2>2. ASSUME NEW u \in Threads, RRDistance(from, u) < i + 1
        PROVE  done[u]
    <3>1. RRDistance(from, u) < i \/ RRDistance(from, u) = RRDistance(from, n)
      BY <1>1, <1>2, <2>2, DistanceInjective DEF SkipDone
    <3>2. QED BY <3>1, <1>1, <1>2, DistanceInjective DEF SkipDone
  <2>3. QED
    BY <1>1, <1>2, <2>1, <2>2
       DEF SkipDone, PassedAreDone, MinOfVisited, ReturnAtEnd, inputs
<1>3. CASE FoundLive
  <2>1. FirstLive(n)
    <3>1. ASSUME NEW u \in Threads, ~done[u]
          PROVE  RRDistance(from, n) <= RRDistance(from, u)
      BY <1>1, <1>3, <3>1, DistanceInjective DEF FoundLive
    <3>2. QED BY <3>1, <1>0, <1>3 DEF FirstLive, FoundLive
  <2>2. RRpolicy(n) = Around(n, 1)
    BY <1>1 DEF Around, RRpolicy, Threads
  <2>3. ASSUME NEW u \in Threads, RRDistance(n, u) = 0 \/ RRDistance(n, u) <= 0
        PROVE  u = n
    BY <1>1, <2>3 DEF RRDistance, Threads
  <2>4. RRDistance(n, n) = 0 /\ Before(from, sbTimer, n, n)
    BY <1>1, TimersAssumption, DistanceInjective
       DEF RRDistance, Threads, Before
  <2>5. n # NoThread
    BY <1>1 DEF Threads, NoThread
  <2>6. PassedAreDone' /\ ReturnAtEnd'
    BY <1>3 DEF FoundLive, StartScan, PassedAreDone, ReturnAtEnd
  <2>7. MinOfVisited'
    <3>1. /\ minTimerThread' = n /\ minTimer' = sbTimer[n] /\ i' = 0
          /\ nextThreadID' = RRpolicy(n) /\ pc' = "scan"
          /\ from' = from /\ sbTimer' = sbTimer /\ done' = done
      BY <1>0, <1>3 DEF FoundLive, StartScan, inputs
    <3>2. FirstLive(n)'
      BY <2>1, <3>1 DEF FirstLive
    <3>3. nextThreadID' = Around(n, i' + 1)
      BY <2>2, <3>1
    <3>4. Visited(n, n)'
      BY <2>4 DEF Visited
    <3>5. \A u \in Threads : ~done'[u] /\ Visited(n, u)' =>
            Before(from', sbTimer', n, u)
      BY <2>3, <2>4, <3>1 DEF Visited
    <3>6. ~done'[n]
      BY <1>3, <3>1 DEF FoundLive
    <3>7. QED
      BY <1>1, <2>5, <3>1, <3>2, <3>3, <3>4, <3>5, <3>6 DEF MinOfVisited
  <2>8. QED BY <2>6, <2>7
<1>4. CASE NoneLive
  <2>1. \A u \in Threads : done[u]
    BY <1>1, <1>4, DistanceInjective DEF NoneLive
  <2>2. QED
    BY <1>1, <1>4, <2>1
       DEF NoneLive, StartScan, PassedAreDone, MinOfVisited, ReturnAtEnd, inputs
<1>5. QED BY <1>2, <1>3, <1>4

(* The second loop: a thread it takes is strictly sooner than all visited, *)
(* a thread it leaves is no sooner than the minimum and, if as soon, comes *)
(* later in the round.                                                     *)
LEMMA ScanStep ==
  ASSUME SearchInv, TakeBetter \/ KeepMin, TypeOK'
  PROVE  PassedAreDone' /\ MinOfVisited' /\ ReturnAtEnd'
<1> USE SizesAssumption
<1>1. PICK n \in Threads : n = nextThreadID
  BY DEF SearchInv, TypeOK
<1> sbTimer \in [Threads -> Nat]
  BY TimersAssumption DEF SearchInv, TypeOK
<1>2. /\ from \in Threads /\ i \in 0 .. N - 1 /\ pc = "scan"
      /\ sbTimer \in [Threads -> Nat] /\ done \in [Threads -> BOOLEAN]
      /\ from' = from /\ sbTimer' = sbTimer /\ done' = done
      /\ nextThreadID' = RRpolicy(n) /\ i' = i + 1 /\ pc' = "scan"
  BY <1>1
     DEF SearchInv, TypeOK, TakeBetter, KeepMin, ScanNext, inputs
<1>3. PassedAreDone' /\ ReturnAtEnd'
  BY <1>2 DEF PassedAreDone, ReturnAtEnd
<1>4. CASE minTimerThread = NoThread
  <2>1. \A u \in Threads : done[u]
    BY <1>2, <1>4 DEF SearchInv, MinOfVisited
  <2>2. KeepMin
    BY <1>1, <2>1 DEF TakeBetter, Better
  <2>3. QED BY <1>2, <1>3, <1>4, <2>1, <2>2 DEF KeepMin, MinOfVisited
<1>5. CASE minTimerThread # NoThread
  <2>1. PICK m \in Threads : m = minTimerThread
    BY <1>5 DEF SearchInv, TypeOK
  <2>2. PICK f \in Threads :
           /\ FirstLive(f)
           /\ n = Around(f, i + 1)
           /\ ~done[m]
           /\ Visited(f, m)
           /\ minTimer = sbTimer[m]
           /\ \A u \in Threads : ~done[u] /\ Visited(f, u) =>
                Before(from, sbTimer, m, u)
    BY <1>1, <1>2, <1>5, <2>1 DEF SearchInv, MinOfVisited
  <2>3. /\ i + 1 < N => RRDistance(f, n) = i + 1
        /\ i + 1 = N => n = f
        /\ nextThreadID' = Around(f, i' + 1)
    BY <1>2, <2>2, AroundStep
  <2>4. ASSUME NEW u \in Threads, RRDistance(f, u) = 0 \/ RRDistance(f, u) <= i + 1
        PROVE  Visited(f, u) \/ u = n
    <3>1. CASE Visited(f, u)
      BY <3>1
    <3>2. CASE ~Visited(f, u)
      <4>1. RRDistance(f, u) = i + 1
        BY <1>2, <2>4, <3>2, DistanceInjective DEF Visited
      <4>2. i + 1 < N
        BY <1>2, <4>1, DistanceInjective
      <4>3. QED BY <2>3, <4>1, <4>2, DistanceInjective
    <3>3. QED BY <3>1, <3>2
  <2>5. FirstLive(f)'
    BY <1>2, <2>2 DEF FirstLive
  <2>6. Visited(f, n)' /\ Visited(f, m)'
    <3>1. RRDistance(f, n) = 0 \/ RRDistance(f, n) <= i + 1
      BY <1>2, <2>3 DEF RRDistance, Threads
    <3>2. RRDistance(f, m) = 0 \/ RRDistance(f, m) <= i + 1
      BY <1>2, <2>2, DistanceInjective DEF Visited
    <3>3. QED BY <1>2, <3>1, <3>2 DEF Visited
  <2>7. sbTimer[n] \in Nat /\ sbTimer[m] \in Nat
    BY <1>2
  <2>8. CASE TakeBetter
    <3>1. /\ minTimerThread' = n /\ minTimer' = sbTimer[n] /\ ~done[n]
          /\ sbTimer[n] < sbTimer[m]
      BY <1>1, <2>2, <2>8 DEF TakeBetter, Better
    <3>2. ASSUME NEW u \in Threads, ~done[u], Visited(f, u) \/ u = n
          PROVE  Before(from, sbTimer, n, u)
      <4>1. CASE Visited(f, u)
        <5>1. sbTimer[m] <= sbTimer[u] /\ sbTimer[u] \in Nat
          BY <1>2, <2>2, <2>7, <3>2, <4>1 DEF Before
        <5>2. QED BY <2>7, <3>1, <5>1 DEF Before
      <4>2. CASE u = n
        BY <1>2, <2>7, <4>2, DistanceInjective DEF Before
      <4>3. QED BY <3>2, <4>1, <4>2
    <3>3. \A u \in Threads : ~done'[u] /\ Visited(f, u)' =>
            Before(from', sbTimer', n, u)
      BY <1>2, <2>4, <3>2 DEF Visited
    <3>4. n # NoThread
      BY DEF Threads, NoThread
    <3>5. MinOfVisited'
      BY <1>2, <2>3, <2>5, <2>6, <3>1, <3>3, <3>4 DEF MinOfVisited
    <3>6. QED BY <1>3, <3>5
  <2>9. CASE KeepMin
    <3>1. minTimerThread' = m /\ minTimer' = sbTimer[m]
      BY <2>1, <2>2, <2>9 DEF KeepMin
    <3>2. ASSUME ~done[n] PROVE Before(from, sbTimer, m, n)
      <4>1. sbTimer[m] <= sbTimer[n]
        BY <1>1, <2>2, <2>7, <2>9, <3>2 DEF KeepMin, Better
      <4>2. CASE i + 1 = N
        <5>1. Visited(f, n)
          BY <2>3, <4>2 DEF Visited, RRDistance, Threads
        <5>2. QED BY <2>2, <3>2, <5>1
      <4>3. CASE i + 1 # N
        <5>1. RRDistance(f, n) = i + 1
          BY <1>2, <2>3, <4>3
        <5>2. RRDistance(f, m) <= RRDistance(f, n)
          BY <1>2, <2>2, <5>1, DistanceInjective DEF Visited
        <5>3. RRDistance(from, m) = RRDistance(from, f) + RRDistance(f, m)
          BY <1>2, <2>2, DistanceAdds DEF FirstLive
        <5>4. RRDistance(from, n) = RRDistance(from, f) + RRDistance(f, n)
          BY <1>2, <2>2, <3>2, DistanceAdds DEF FirstLive
        <5>5. RRDistance(from, m) <= RRDistance(from, n)
          BY <1>2, <5>2, <5>3, <5>4, DistanceInjective
        <5>6. QED BY <2>7, <4>1, <5>5 DEF Before
      <4>4. QED BY <4>2, <4>3
    <3>3. \A u \in Threads : ~done'[u] /\ Visited(f, u)' =>
            Before(from', sbTimer', m, u)
      BY <1>2, <2>2, <2>4, <3>2 DEF Visited
    <3>4. MinOfVisited'
      BY <1>2, <1>5, <2>1, <2>2, <2>3, <2>5, <2>6, <3>1, <3>3 DEF MinOfVisited
    <3>5. QED BY <1>3, <3>4
  <2>10. QED BY <2>8, <2>9
<1>6. QED BY <1>4, <1>5

LEMMA SearchInvStep == SearchInv /\ [Next]_vars => SearchInv'
<1> SUFFICES ASSUME SearchInv, [Next]_vars PROVE SearchInv'
  OBVIOUS
<1>1. TypeOK'
  BY TypeStep DEF SearchInv
<1>2. CASE SkipDone \/ FoundLive \/ NoneLive
  BY <1>1, <1>2, FindStep DEF SearchInv
<1>3. CASE TakeBetter \/ KeepMin
  BY <1>1, <1>3, ScanStep DEF SearchInv
<1>4. CASE Return
  BY <1>1, <1>4
     DEF Return, SearchInv, PassedAreDone, MinOfVisited, ReturnAtEnd, inputs,
         FirstLive, Visited
<1>5. CASE Returned \/ UNCHANGED vars
  BY <1>1, <1>5
     DEF Returned, vars, SearchInv, PassedAreDone, MinOfVisited, ReturnAtEnd,
         inputs, FirstLive, Visited
<1>6. QED BY <1>2, <1>3, <1>4, <1>5 DEF Next

(* The loop invariants hold throughout every search (core_api.cpp:73-95).  *)
THEOREM SearchInvariance == Spec => []SearchInv
BY SearchInvInit, SearchInvStep, PTL DEF Spec

(* getNextThread returns the first live thread in the order of timer and   *)
(* round, or -1 if all are done, for every number of threads.              *)
THEOREM SearchIsCorrect == Spec => []SearchCorrect
<1>1. SearchInv => SearchCorrect
  <2> SUFFICES ASSUME SearchInv, pc = "return"
               PROVE  minTimerThread = FirstReady(from, sbTimer, done)
    BY DEF SearchCorrect
  <2>1. /\ from \in Threads /\ i = N
        /\ sbTimer \in [Threads -> Nat] /\ done \in [Threads -> BOOLEAN]
    BY TimersAssumption DEF SearchInv, TypeOK, ReturnAtEnd
  <2>2. CASE minTimerThread = NoThread
    BY <2>2 DEF SearchInv, MinOfVisited, FirstReady, isRunningThreads
  <2>3. CASE minTimerThread # NoThread
    <3>1. PICK f \in Threads :
             /\ ~done[minTimerThread]
             /\ \A u \in Threads : ~done[u] /\ Visited(f, u) =>
                  Before(from, sbTimer, minTimerThread, u)
      BY <2>3 DEF SearchInv, MinOfVisited
    <3>2. \A u \in Threads : Visited(f, u)
      BY <2>1, SizesAssumption, DistanceInjective DEF Visited
    <3>3. minTimerThread \in Threads
      BY <2>3 DEF SearchInv, TypeOK
    <3>4. QED BY <2>1, <3>1, <3>2, <3>3, FirstReadyIs
  <2>4. QED BY <2>2, <2>3
<1>2. QED BY <1>1, SearchInvariance, PTL

(* The second loop never compares with the uninitialised minTimer.         *)
THEOREM MinTimerIsInitialised == Spec => []MinTimerInitialised
<1>1. SearchInv => MinTimerInitialised
  BY DEF SearchInv, TypeOK, MinOfVisited, MinTimerInitialised
<1>2. QED BY <1>1, SearchInvariance, PTL

-----------------------------------------------------------------------------
(* The course of a thread that runs alone, unfolded.                       *)

Begin(mem) == [regs |-> [r \in Regs |-> 0], mem |-> mem]

Course(f, code, mem, n) ==
  f = [j \in 0 .. n |-> IF j = 0 THEN Begin(mem) ELSE After(code[j - 1], f[j - 1])]

LEMMA CourseExtended ==
  ASSUME NEW code, NEW mem, NEW n \in Nat, NEW f, Course(f, code, mem, n)
  PROVE  \E g : Course(g, code, mem, n + 1)
<1> DEFINE g == [j \in 0 .. n + 1 |-> IF j = n + 1 THEN After(code[n], f[n]) ELSE f[j]]
<1>1. \A j \in 0 .. n : f[j] = IF j = 0 THEN Begin(mem) ELSE After(code[j - 1], f[j - 1])
  BY DEF Course
<1>2. ASSUME NEW j \in 0 .. n + 1
      PROVE  g[j] = IF j = 0 THEN Begin(mem) ELSE After(code[j - 1], g[j - 1])
  <2>1. CASE j = n + 1
    <3>1. j # 0 /\ j - 1 = n /\ n \in 0 .. n + 1 /\ n # n + 1
      BY <2>1
    <3>2. g[j] = After(code[n], f[n]) /\ g[j - 1] = f[n]
      BY <2>1, <3>1
    <3>3. QED BY <2>1, <3>1, <3>2
  <2>2. CASE j = 0
    <3>1. 0 \in 0 .. n /\ 0 # n + 1
      OBVIOUS
    <3>2. g[j] = f[0] /\ f[0] = Begin(mem)
      BY <1>1, <2>2, <3>1
    <3>3. QED BY <2>2, <3>2
  <2>3. CASE j \in 1 .. n
    <3>1. j \in 0 .. n /\ j - 1 \in 0 .. n + 1 /\ j # n + 1 /\ j - 1 # n + 1 /\ j # 0
      BY <2>3
    <3>2. g[j] = f[j] /\ g[j - 1] = f[j - 1]
      BY <3>1
    <3> HIDE DEF g
    <3>3. QED BY <1>1, <3>1, <3>2
  <2>4. QED BY <2>1, <2>2, <2>3
<1>3. Course(g, code, mem, n + 1)
  <2>1. g = [j \in 0 .. n + 1 |-> g[j]]
    OBVIOUS
  <2> HIDE DEF g
  <2>2. QED BY <1>2, <2>1, Zenon DEF Course
<1>4. QED BY <1>3

LEMMA CourseExists ==
  ASSUME NEW code, NEW mem, NEW n \in Nat
  PROVE  \E f : Course(f, code, mem, n)
<1> DEFINE T == {m \in Nat : \E f : Course(f, code, mem, m)}
<1>1. 0 \in T
  <2> DEFINE f == [j \in 0 .. 0 |-> Begin(mem)]
  <2>1. \A j \in 0 .. 0 : j = 0
    OBVIOUS
  <2>2. [j \in 0 .. 0 |-> IF j = 0 THEN Begin(mem) ELSE After(code[j - 1], f[j - 1])] = f
    BY <2>1, Zenon
  <2>3. Course(f, code, mem, 0)
    BY <2>2 DEF Course
  <2>4. QED BY <2>3
<1>2. \A m \in Nat : m \in T => m + 1 \in T
  BY CourseExtended
<1>3. Nat \subseteq T
  <2> HIDE DEF T
  <2>1. QED BY <1>1, <1>2, InductiveNaturals
<1>4. QED BY <1>3

LEMMA AloneIs ==
  ASSUME NEW code, NEW mem, NEW n \in Nat
  PROVE  \E f : Course(f, code, mem, n) /\ Alone(code, mem, n) = f[n]
<1> DEFINE f == CHOOSE f : Course(f, code, mem, n)
<1>1. Course(f, code, mem, n)
  BY CourseExists
<1>2. Alone(code, mem, n) = f[n]
  BY DEF Alone, Course, Begin
<1>3. QED BY <1>1, <1>2

(* How the course begins, and how it goes on.                              *)
LEMMA AloneUnfolds ==
  ASSUME NEW code, NEW mem, NEW n \in Nat
  PROVE  /\ Alone(code, mem, 0) = Begin(mem)
         /\ Alone(code, mem, n + 1) = After(code[n], Alone(code, mem, n))
<1>1. PICK e : Course(e, code, mem, 0) /\ Alone(code, mem, 0) = e[0]
  BY AloneIs
<1>2. PICK f : Course(f, code, mem, n) /\ Alone(code, mem, n) = f[n]
  BY AloneIs
<1>3. PICK g : Course(g, code, mem, n + 1) /\ Alone(code, mem, n + 1) = g[n + 1]
  BY AloneIs
<1>4. /\ e[0] = Begin(mem)
      /\ \A j \in 0 .. n : f[j] = IF j = 0 THEN Begin(mem) ELSE After(code[j - 1], f[j - 1])
      /\ \A j \in 0 .. n + 1 : g[j] = IF j = 0 THEN Begin(mem) ELSE After(code[j - 1], g[j - 1])
  BY <1>1, <1>2, <1>3 DEF Course
<1> DEFINE T == {j \in Nat : j <= n => f[j] = g[j]}
<1>5. 0 \in T
  <2>1. 0 \in 0 .. n /\ 0 \in 0 .. n + 1
    OBVIOUS
  <2>2. f[0] = Begin(mem) /\ g[0] = Begin(mem)
    BY <1>4, <2>1
  <2>3. QED BY <2>2
<1>6. ASSUME NEW j \in Nat, j \in T PROVE j + 1 \in T
  <2>1. SUFFICES ASSUME j + 1 <= n PROVE f[j + 1] = g[j + 1]
    OBVIOUS
  <2>2. f[j] = g[j]
    BY <1>6, <2>1
  <2>3. j + 1 \in 0 .. n /\ j + 1 \in 0 .. n + 1 /\ j + 1 # 0 /\ j + 1 - 1 = j
    BY <2>1
  <2>4. f[j + 1] = After(code[j], f[j]) /\ g[j + 1] = After(code[j], g[j])
    BY <1>4, <2>3
  <2>5. QED BY <2>2, <2>4
<1>7. Nat \subseteq T
  <2> HIDE DEF T
  <2>1. QED BY <1>5, <1>6, InductiveNaturals
<1>8. g[n + 1] = After(code[n], g[n])
  <2>1. n + 1 \in 0 .. n + 1 /\ n + 1 # 0 /\ n + 1 - 1 = n
    OBVIOUS
  <2>2. QED BY <1>4, <2>1
<1>9. QED BY <1>1, <1>2, <1>3, <1>4, <1>7, <1>8

-----------------------------------------------------------------------------
(* Threads that do not notice each other.                                  *)

(* A core that is about to execute the lines line[t], holds the registers  *)
(* rg[t] and knows of the HALTs dn[t] has brought every thread as far as   *)
(* it comes alone, from the memory start[t].                               *)
OnCourse(im, start, line, dn, rg) ==
  \A t \in Threads :
    /\ line[t] \in Nat
    /\ rg[t] = Alone(im.code[t], start[t], line[t]).regs
    /\ \A n \in 0 .. line[t] - 1 :
         im.code[t][n].opcode = "HALT" => n + 1 = line[t] /\ dn[t]
    /\ dn[t] => /\ line[t] - 1 \in DOMAIN im.code[t]
                /\ im.code[t][line[t] - 1].opcode = "HALT"

(* What a thread may load is what it would find if it were alone.          *)
Sees(im, start, line, mem) ==
  \A t \in Threads :
    LET own == Alone(im.code[t], start[t], line[t]).mem IN
    /\ DOMAIN own = Cells
    /\ \A c \in Cells \cap CellsLoaded(im, t) : mem[c] = own[c]

FirstStart(im)  == [t \in Threads |-> im.data]
SecondStart(im) ==
  [t \in Threads |-> FirstRun(im, t, HaltLine(im.code[t])).mem]

(* A core executes the next line of thread t and leaves the other threads  *)
(* alone.                                                                  *)
Executes(im, t, line, dn, rg, mem, line2, dn2, rg2, mem2) ==
  LET in == im.code[t][line[t]] IN
  /\ ~dn[t]
  /\ line[t] \in DOMAIN im.code[t]
  /\ \A u \in Threads :
       /\ line2[u] = IF u = t THEN line[u] + 1 ELSE line[u]
       /\ dn2[u] <=> IF u = t THEN in.opcode = "HALT" ELSE dn[u]
       /\ rg2[u] = IF u = t THEN Outcome(in, rg[t], mem) ELSE rg[u]
  /\ mem2 = Stored(in, rg[t], mem)
  /\ in.opcode = "LOAD" => InData(LoadAddr(in, rg[t]))
  /\ in.opcode = "STORE" => InData(StoreAddr(in, rg[t]))

(* Without races every thread stays on its course.                         *)
LEMMA GoesOn ==
  ASSUME NEW im, RaceFree(im),
         \A u \in Threads : DOMAIN im.code[u] \subseteq Nat,
         NEW start,
         \A u \in Threads : \A n \in Nat :
           Alone(im.code[u], start[u], n).regs \in RegsAt(im, u, n),
         NEW line, NEW dn, NEW rg, NEW mem \in [Cells -> Word],
         OnCourse(im, start, line, dn, rg), Sees(im, start, line, mem),
         NEW t \in Threads, NEW line2, NEW dn2, NEW rg2, NEW mem2,
         Executes(im, t, line, dn, rg, mem, line2, dn2, rg2, mem2)
  PROVE  OnCourse(im, start, line2, dn2, rg2) /\ Sees(im, start, line2, mem2)
<1> DEFINE in == im.code[t][line[t]]
           own(u) == Alone(im.code[u], start[u], line[u])
           load == DataIndex(LoadAddr(in, rg[t]))
           store == DataIndex(StoreAddr(in, rg[t]))
<1>1. /\ ~dn[t] /\ line[t] \in DOMAIN im.code[t]
      /\ \A u \in Threads :
           /\ line2[u] = IF u = t THEN line[u] + 1 ELSE line[u]
           /\ dn2[u] <=> IF u = t THEN in.opcode = "HALT" ELSE dn[u]
           /\ rg2[u] = IF u = t THEN Outcome(in, rg[t], mem) ELSE rg[u]
      /\ mem2 = Stored(in, rg[t], mem)
      /\ in.opcode = "LOAD" => load \in Cells
      /\ in.opcode = "STORE" => store \in Cells
  BY DEF Executes, InData
<1>2. \A u \in Threads :
        /\ line[u] \in Nat
        /\ rg[u] = own(u).regs
        /\ \A n \in 0 .. line[u] - 1 :
             im.code[u][n].opcode = "HALT" => n + 1 = line[u] /\ dn[u]
        /\ dn[u] => /\ line[u] - 1 \in DOMAIN im.code[u]
                    /\ im.code[u][line[u] - 1].opcode = "HALT"
  BY DEF OnCourse
<1>3. \A u \in Threads :
        /\ DOMAIN own(u).mem = Cells
        /\ \A c \in Cells \cap CellsLoaded(im, u) : mem[c] = own(u).mem[c]
  BY DEF Sees
<1>4. /\ Alone(im.code[t], start[t], line[t] + 1) = After(in, own(t))
      /\ After(in, own(t)).regs = Outcome(in, rg[t], own(t).mem)
      /\ After(in, own(t)).mem = Stored(in, rg[t], own(t).mem)
  BY <1>2, AloneUnfolds DEF After
<1>5. /\ in.opcode = "LOAD" => load \in CellsLoaded(im, t)
      /\ in.opcode = "STORE" => store \in CellsStored(im, t)
  <2>1. line[t] \in Lines(im.code[t])
    BY <1>1, <1>2 DEF Lines
  <2>2. rg[t] \in RegsAt(im, t, line[t])
    BY <1>2
  <2>3. in.opcode = "LOAD" => line[t] \in LinesOf(im, t, "LOAD")
    BY <2>1 DEF LinesOf
  <2>4. in.opcode = "STORE" => line[t] \in LinesOf(im, t, "STORE")
    BY <2>1 DEF LinesOf
  <2>5. QED BY <2>2, <2>3, <2>4 DEF CellsLoaded, CellsStored
<1> HIDE DEF own
<1>6. Outcome(in, rg[t], mem) = Outcome(in, rg[t], own(t).mem)
  <2>1. in.opcode = "LOAD" => mem[load] = own(t).mem[load]
    BY <1>1, <1>3, <1>5
  <2>2. QED BY <2>1 DEF Outcome, SIM_MemDataRead
<1> HIDE DEF in, load, store
<1>7. ASSUME NEW u \in Threads
      PROVE  /\ line2[u] \in Nat
             /\ rg2[u] = Alone(im.code[u], start[u], line2[u]).regs
             /\ \A n \in 0 .. line2[u] - 1 :
                  im.code[u][n].opcode = "HALT" => n + 1 = line2[u] /\ dn2[u]
             /\ dn2[u] => /\ line2[u] - 1 \in DOMAIN im.code[u]
                          /\ im.code[u][line2[u] - 1].opcode = "HALT"
  <2>1. CASE u # t
    BY <1>1, <1>2, <2>1 DEF own
  <2>2. CASE u = t
    <3>1. ASSUME NEW n \in 0 .. line2[u] - 1, im.code[u][n].opcode = "HALT"
          PROVE  n + 1 = line2[u] /\ dn2[u]
      <4>1. CASE n = line[u]
        BY <1>1, <1>2, <2>2, <3>1, <4>1 DEF in
      <4>2. CASE n # line[u]
        <5>1. n \in 0 .. line[u] - 1
          BY <1>1, <1>2, <2>2, <4>2
        <5>2. QED BY <1>1, <1>2, <2>2, <3>1, <5>1
      <4>3. QED BY <4>1, <4>2
    <3>2. line2[u] = line[u] + 1 /\ line[u] \in Nat /\ line2[u] - 1 = line[u]
      BY <1>1, <1>2, <2>2
    <3>3. dn2[u] => im.code[u][line2[u] - 1].opcode = "HALT"
      BY <1>1, <2>2, <3>2 DEF in
    <3>4. rg2[u] = Alone(im.code[u], start[u], line2[u]).regs
      BY <1>1, <1>4, <1>6, <2>2, <3>2
    <3>5. QED BY <1>1, <2>2, <3>1, <3>2, <3>3, <3>4
  <2>3. QED BY <2>1, <2>2
<1>8. ASSUME NEW u \in Threads
      PROVE  /\ DOMAIN Alone(im.code[u], start[u], line2[u]).mem = Cells
             /\ \A c \in Cells \cap CellsLoaded(im, u) :
                  mem2[c] = Alone(im.code[u], start[u], line2[u]).mem[c]
  <2>1. CASE u = t
    <3>1. Alone(im.code[u], start[u], line2[u]).mem = Stored(in, rg[t], own(t).mem)
      BY <1>1, <1>4, <2>1
    <3>2. DOMAIN own(t).mem = Cells /\ DOMAIN mem = Cells
      BY <1>3
    <3>3. CASE in.opcode = "STORE"
      <4>1. /\ Stored(in, rg[t], own(t).mem) = [own(t).mem EXCEPT ![store] = rg[t][in.src1]]
            /\ mem2 = [mem EXCEPT ![store] = rg[t][in.src1]]
        BY <1>1, <3>3 DEF Stored, SIM_MemDataWrite, store
      <4>2. QED BY <1>3, <2>1, <3>1, <3>2, <4>1
    <3>4. CASE in.opcode # "STORE"
      BY <1>1, <1>3, <2>1, <3>1, <3>4 DEF Stored
    <3>5. QED BY <3>3, <3>4
  <2>2. CASE u # t
    <3>1. Alone(im.code[u], start[u], line2[u]) = own(u)
      BY <1>1, <2>2 DEF own
    <3>2. ASSUME NEW c \in Cells \cap CellsLoaded(im, u) PROVE mem2[c] = mem[c]
      <4>1. CASE in.opcode = "STORE"
        <5>1. store # c
          BY <1>5, <2>2, <4>1 DEF RaceFree
        <5>2. mem2 = [mem EXCEPT ![store] = rg[t][in.src1]]
          BY <1>1, <4>1 DEF Stored, SIM_MemDataWrite, store
        <5>3. QED BY <5>1, <5>2
      <4>2. CASE in.opcode # "STORE"
        BY <1>1, <4>2 DEF Stored
      <4>3. QED BY <4>1, <4>2
    <3>3. QED BY <1>3, <3>1, <3>2
  <2>3. QED BY <2>1, <2>2
<1>9. QED BY <1>7, <1>8 DEF OnCourse, Sees

(* A thread that is done has come to the HALT of its program.              *)
LEMMA AtHalt ==
  ASSUME NEW im, NEW start, NEW line, NEW dn, NEW rg,
         OnCourse(im, start, line, dn, rg),
         NEW t \in Threads, dn[t], DOMAIN im.code[t] \subseteq Nat
  PROVE  /\ rg[t] = Alone(im.code[t], start[t], HaltLine(im.code[t])).regs
         /\ Alone(im.code[t], start[t], line[t]).mem
            = Alone(im.code[t], start[t], HaltLine(im.code[t])).mem
<1> DEFINE code == im.code[t]
           last == line[t] - 1
<1>1. /\ line[t] \in Nat
      /\ rg[t] = Alone(code, start[t], line[t]).regs
      /\ \A n \in 0 .. line[t] - 1 : code[n].opcode = "HALT" => n + 1 = line[t]
      /\ last \in DOMAIN code /\ code[last].opcode = "HALT"
  BY DEF OnCourse
<1>2. last \in Nat /\ line[t] = last + 1
  BY <1>1
<1>3. last \in Lines(code)
  BY <1>1, <1>2 DEF Lines
<1>4. ASSUME NEW n \in Lines(code), code[n].opcode = "HALT" PROVE n = last
  <2>1. n \in Nat /\ \A m \in 0 .. n - 1 : code[m].opcode # "HALT"
    BY DEF Lines
  <2>2. ~(last < n)
    BY <1>1, <1>2, <2>1
  <2>3. ~(n < last)
    BY <1>1, <1>2, <1>4, <2>1
  <2>4. QED BY <1>2, <2>1, <2>2, <2>3
<1>5. HaltLine(code) = last
  BY <1>1, <1>3, <1>4 DEF HaltLine
<1> HIDE DEF code, last
<1>6. /\ Alone(code, start[t], line[t]).regs = Alone(code, start[t], last).regs
      /\ Alone(code, start[t], line[t]).mem = Alone(code, start[t], last).mem
  <2>1. Alone(code, start[t], last + 1) = After(code[last], Alone(code, start[t], last))
    BY <1>2, AloneUnfolds
  <2>2. \A s : /\ After(code[last], s).regs = s.regs
              /\ After(code[last], s).mem = s.mem
    BY <1>1 DEF After, Outcome, Stored, AluOps
  <2> HIDE DEF After
  <2>3. QED BY <1>2, <2>1, <2>2
<1>7. QED BY <1>1, <1>5, <1>6 DEF code

(* The fine-grained core takes the memory over as the blocked core leaves  *)
(* it.                                                                     *)
LEMMA TakesOver ==
  ASSUME NEW im, \A t \in Threads : DOMAIN im.code[t] \subseteq Nat,
         NEW line, NEW dn, NEW rg, NEW mem,
         OnCourse(im, FirstStart(im), line, dn, rg),
         Sees(im, FirstStart(im), line, mem),
         \A t \in Threads : dn[t],
         NEW line2, NEW dn2, NEW rg2,
         \A t \in Threads : /\ line2[t] = 0 /\ ~dn2[t]
                            /\ rg2[t] = [r \in Regs |-> 0]
  PROVE  /\ OnCourse(im, SecondStart(im), line2, dn2, rg2)
         /\ Sees(im, SecondStart(im), line2, mem)
<1>1. ASSUME NEW t \in Threads
      PROVE  /\ Alone(im.code[t], SecondStart(im)[t], line2[t]).regs = rg2[t]
             /\ Alone(im.code[t], SecondStart(im)[t], line2[t]).mem
                = Alone(im.code[t], FirstStart(im)[t], line[t]).mem
  <2>1. Alone(im.code[t], SecondStart(im)[t], 0) = Begin(SecondStart(im)[t])
    BY AloneUnfolds
  <2>2. Alone(im.code[t], FirstStart(im)[t], line[t]).mem
        = Alone(im.code[t], FirstStart(im)[t], HaltLine(im.code[t])).mem
    BY AtHalt
  <2>3. QED BY <2>1, <2>2 DEF Begin, SecondStart, FirstStart, FirstRun
<1>2. OnCourse(im, SecondStart(im), line2, dn2, rg2)
  BY <1>1 DEF OnCourse
<1>3. Sees(im, SecondStart(im), line2, mem)
  BY <1>1 DEF Sees
<1>4. QED BY <1>2, <1>3

-----------------------------------------------------------------------------
(* The cores of main.                                                      *)

(* The cores of main are the cores of the proofs: the two instances of a   *)
(* module have the same definitions.                                       *)
LEMMA SameBlocked ==
  /\ Blocked!InitLocals => BP!InitLocals
  /\ Blocked!Step => BP!Step
<1>1. Blocked!InitLocals => BP!InitLocals
  BY DEF Blocked!InitLocals, BP!InitLocals, Blocked!Threads, BP!Threads,
         Blocked!Regs, BP!Regs
<1>2. Blocked!Step => BP!Step
  BY DEF Blocked!Step, BP!Step, Blocked!ExecNop, BP!ExecNop,
         Blocked!ExecAlu, BP!ExecAlu, Blocked!ExecLoad, BP!ExecLoad,
         Blocked!ExecStore, BP!ExecStore, Blocked!ExecHalt, BP!ExecHalt,
         Blocked!Idle, BP!Idle, Blocked!SpinOnNoThread, BP!SpinOnNoThread,
         Blocked!Resume, BP!Resume, Blocked!Exit, BP!Exit,
         Blocked!StandBy, BP!StandBy, Blocked!Issue, BP!Issue,
         Blocked!FinishIteration, BP!FinishIteration, Blocked!Inst, BP!Inst,
         Blocked!SwitchPenalty, BP!SwitchPenalty,
         Blocked!history, BP!history, Blocked!Threads, BP!Threads,
         Blocked!Regs, BP!Regs, Blocked!AluOps, BP!AluOps,
         Blocked!Cells, BP!Cells, Blocked!NoThread, BP!NoThread,
         Blocked!Wrap, BP!Wrap, Blocked!Src2, BP!Src2,
         Blocked!AluResult, BP!AluResult, Blocked!LoadAddr, BP!LoadAddr,
         Blocked!StoreAddr, BP!StoreAddr,
         Blocked!DataIndexFrom, BP!DataIndexFrom,
         Blocked!DataIndex, BP!DataIndex, Blocked!InData, BP!InData,
         Blocked!SIM_MemDataRead, BP!SIM_MemDataRead,
         Blocked!SIM_MemDataWrite, BP!SIM_MemDataWrite,
         Blocked!isRunningThreads, BP!isRunningThreads,
         Blocked!sbTimerHandler, BP!sbTimerHandler,
         Blocked!RRpolicy, BP!RRpolicy, Blocked!RRDistance, BP!RRDistance,
         Blocked!Before, BP!Before, Blocked!FirstReady, BP!FirstReady,
         Blocked!getNextThread, BP!getNextThread
<1>3. QED BY <1>1, <1>2

(* The same for the other core.                                            *)
LEMMA SameFine ==
  /\ Fine!InitLocals => FP!InitLocals
  /\ Fine!Step => FP!Step
<1>1. Fine!InitLocals => FP!InitLocals
  BY DEF Fine!InitLocals, FP!InitLocals, Fine!Threads, FP!Threads,
         Fine!Regs, FP!Regs
<1>2. Fine!Step => FP!Step
  BY DEF Fine!Step, FP!Step, Fine!ExecNop, FP!ExecNop,
         Fine!ExecAlu, FP!ExecAlu, Fine!ExecLoad, FP!ExecLoad,
         Fine!ExecStore, FP!ExecStore, Fine!ExecHalt, FP!ExecHalt,
         Fine!Idle, FP!Idle, Fine!Exit, FP!Exit, Fine!Issue, FP!Issue,
         Fine!Inst, FP!Inst, Fine!Ready, FP!Ready,
         Fine!Overtake, FP!Overtake, Fine!history, FP!history,
         Fine!Threads, FP!Threads, Fine!Regs, FP!Regs,
         Fine!AluOps, FP!AluOps, Fine!Cells, FP!Cells,
         Fine!NoThread, FP!NoThread, Fine!Wrap, FP!Wrap, Fine!Src2, FP!Src2,
         Fine!AluResult, FP!AluResult, Fine!LoadAddr, FP!LoadAddr,
         Fine!StoreAddr, FP!StoreAddr, Fine!DataIndexFrom, FP!DataIndexFrom,
         Fine!DataIndex, FP!DataIndex, Fine!InData, FP!InData,
         Fine!SIM_MemDataRead, FP!SIM_MemDataRead,
         Fine!SIM_MemDataWrite, FP!SIM_MemDataWrite,
         Fine!isRunningThreads, FP!isRunningThreads,
         Fine!sbTimerHandler, FP!sbTimerHandler, Fine!RRpolicy, FP!RRpolicy,
         Fine!RRDistance, FP!RRDistance, Fine!Before, FP!Before,
         Fine!FirstReady, FP!FirstReady,
         Fine!getNextThreadFine, FP!getNextThreadFine
<1>3. QED BY <1>1, <1>2

(* The operators of MTCore mean the same in both.                          *)
LEMMA SameMTCore ==
  /\ BP!Threads = Threads /\ FP!Threads = Threads
  /\ BP!Regs = Regs /\ FP!Regs = Regs
  /\ \A in, r, mem : /\ BP!Outcome(in, r, mem) = Outcome(in, r, mem)
                     /\ FP!Outcome(in, r, mem) = Outcome(in, r, mem)
                     /\ BP!Stored(in, r, mem) = Stored(in, r, mem)
                     /\ FP!Stored(in, r, mem) = Stored(in, r, mem)
  /\ \A in, r : /\ BP!LoadAddr(in, r) = LoadAddr(in, r)
                /\ FP!LoadAddr(in, r) = LoadAddr(in, r)
                /\ BP!StoreAddr(in, r) = StoreAddr(in, r)
                /\ FP!StoreAddr(in, r) = StoreAddr(in, r)
  /\ \A addr : /\ BP!InData(addr) <=> InData(addr)
               /\ FP!InData(addr) <=> InData(addr)
  /\ \A dn : /\ BP!isRunningThreads(dn) <=> isRunningThreads(dn)
             /\ FP!isRunningThreads(dn) <=> isRunningThreads(dn)
<1>1. /\ BP!Threads = Threads /\ FP!Threads = Threads
      /\ BP!Regs = Regs /\ FP!Regs = Regs
  BY DEF Threads, BP!Threads, FP!Threads, Regs, BP!Regs, FP!Regs
<1>2. \A in, r : /\ BP!LoadAddr(in, r) = LoadAddr(in, r)
                 /\ FP!LoadAddr(in, r) = LoadAddr(in, r)
                 /\ BP!StoreAddr(in, r) = StoreAddr(in, r)
                 /\ FP!StoreAddr(in, r) = StoreAddr(in, r)
  BY DEF Wrap, BP!Wrap, FP!Wrap, Src2, BP!Src2, FP!Src2,
         LoadAddr, BP!LoadAddr, FP!LoadAddr, StoreAddr, BP!StoreAddr, FP!StoreAddr
<1>3. \A addr : /\ BP!DataIndex(addr) = DataIndex(addr)
                /\ FP!DataIndex(addr) = DataIndex(addr)
  BY DEF DataIndexFrom, BP!DataIndexFrom, FP!DataIndexFrom, Wrap, BP!Wrap, FP!Wrap,
         DataIndex, BP!DataIndex, FP!DataIndex
<1>4. \A addr : /\ BP!InData(addr) <=> InData(addr)
                /\ FP!InData(addr) <=> InData(addr)
  BY <1>3 DEF InData, BP!InData, FP!InData, Cells, BP!Cells, FP!Cells
<1>5. \A in, r : /\ BP!AluResult(in, r) = AluResult(in, r)
                 /\ FP!AluResult(in, r) = AluResult(in, r)
  BY DEF AluResult, BP!AluResult, FP!AluResult, Wrap, BP!Wrap, FP!Wrap,
         Src2, BP!Src2, FP!Src2
<1>6. \A mem, addr, val :
        /\ BP!SIM_MemDataRead(mem, addr) = SIM_MemDataRead(mem, addr)
        /\ FP!SIM_MemDataRead(mem, addr) = SIM_MemDataRead(mem, addr)
        /\ BP!SIM_MemDataWrite(mem, addr, val) = SIM_MemDataWrite(mem, addr, val)
        /\ FP!SIM_MemDataWrite(mem, addr, val) = SIM_MemDataWrite(mem, addr, val)
  BY <1>3
     DEF SIM_MemDataRead, BP!SIM_MemDataRead, FP!SIM_MemDataRead,
         SIM_MemDataWrite, BP!SIM_MemDataWrite, FP!SIM_MemDataWrite
<1>7. \A in, r, mem : /\ BP!Outcome(in, r, mem) = Outcome(in, r, mem)
                      /\ FP!Outcome(in, r, mem) = Outcome(in, r, mem)
  BY <1>2, <1>5, <1>6
     DEF Outcome, BP!Outcome, FP!Outcome, AluOps, BP!AluOps, FP!AluOps
<1>8. \A in, r, mem : /\ BP!Stored(in, r, mem) = Stored(in, r, mem)
                      /\ FP!Stored(in, r, mem) = Stored(in, r, mem)
  BY <1>2, <1>6 DEF Stored, BP!Stored, FP!Stored
<1>9. \A dn : /\ BP!isRunningThreads(dn) <=> isRunningThreads(dn)
              /\ FP!isRunningThreads(dn) <=> isRunningThreads(dn)
  BY <1>1 DEF isRunningThreads, BP!isRunningThreads, FP!isRunningThreads
<1>10. QED BY <1>1, <1>2, <1>4, <1>7, <1>8, <1>9

(* The assumptions under which the theorems about the cores hold.          *)
LEMMA CoreAssumptions ==
  /\ N \in Nat \ {0} /\ NumRegs \in Nat \ {0} /\ HalfWord \in Nat \ {0}
  /\ DataWords \in Nat \ {0} /\ DataStart \in Int
  /\ GhostTimers \subseteq Int /\ MaxCycles \in Nat
  /\ \A im \in Images : BP!WellFormedImage(im)
  /\ \A im \in Images : FP!WellFormedImage(im)
<1>1. \A im \in Images : BP!WellFormedImage(im)
  BY ImagesAssumption
     DEF WellFormedImage, BP!WellFormedImage, WellFormedProgram,
         BP!WellFormedProgram, WellFormedInstruction, BP!WellFormedInstruction,
         Instruction, BP!Instruction, Opcodes, BP!Opcodes, AluOps, BP!AluOps,
         MemoryOps, BP!MemoryOps, Threads, BP!Threads, Regs, BP!Regs,
         Word, BP!Word, Cells, BP!Cells
<1>2. \A im \in Images : FP!WellFormedImage(im)
  BY ImagesAssumption
     DEF WellFormedImage, FP!WellFormedImage, WellFormedProgram,
         FP!WellFormedProgram, WellFormedInstruction, FP!WellFormedInstruction,
         Instruction, FP!Instruction, Opcodes, FP!Opcodes, AluOps, FP!AluOps,
         MemoryOps, FP!MemoryOps, Threads, FP!Threads, Regs, FP!Regs,
         Word, FP!Word, Cells, FP!Cells
<1>3. QED BY <1>1, <1>2, SizesAssumption, GhostAssumption, CyclesAssumption

-----------------------------------------------------------------------------
bLines == [t \in Threads |-> BP!NextLine(t)]

(* Each core is in a state of its own run, one runs after the other, and   *)
(* without races every thread is on its course for the core that runs, and *)
(* sees no other thread in the memory.                                     *)
OnCourseBlocked ==
  OnCourse(img, FirstStart(img), bLines, bDone, statsBlockedRegs)
OnCourseFine ==
  OnCourse(img, SecondStart(img), fInstId, fDone, statsFineRegs)

SimInv ==
  /\ BP!BlockedInv
  /\ FP!FineInv
  /\ bPhase = "end" => ~isRunningThreads(bDone)
  /\ fPhase = "end" => bPhase = "end" /\ ~isRunningThreads(fDone)
  /\ bPhase # "end" =>
       \A t \in Threads : /\ fInstId[t] = 0 /\ ~fDone[t]
                          /\ statsFineRegs[t] = [r \in Regs |-> 0]
  /\ RaceFree(img) =>
       /\ OnCourseBlocked
       /\ bPhase # "end" => Sees(img, FirstStart(img), bLines, data)
       /\ bPhase = "end" => /\ OnCourseFine
                            /\ Sees(img, SecondStart(img), fInstId, data)

(* What the two invariants say about types.                                *)
LEMMA SimTypes ==
  ASSUME BP!BlockedInv, FP!FineInv
  PROVE  /\ img \in Images
         /\ data \in [Cells -> Word]
         /\ bLines \in [Threads -> Nat] /\ fInstId \in [Threads -> Nat]
         /\ bDone \in [Threads -> BOOLEAN] /\ fDone \in [Threads -> BOOLEAN]
         /\ DOMAIN statsBlockedRegs = Threads /\ DOMAIN statsFineRegs = Threads
         /\ statsBlockedRegs = [t \in Threads |-> statsBlockedRegs[t]]
         /\ statsFineRegs = [t \in Threads |-> statsFineRegs[t]]
         /\ \A t \in Threads : bLines[t] = BP!NextLine(t)
         /\ \A t \in Threads : ~bDone[t] => bLines[t] \in DOMAIN img.code[t]
         /\ \A t \in Threads : ~fDone[t] => fInstId[t] \in DOMAIN img.code[t]
         /\ \A t \in Threads : DOMAIN img.code[t] \subseteq Nat
<1>1. /\ img \in Images /\ data \in [BP!Cells -> BP!Word]
      /\ bInstId \in [Threads -> Nat] /\ fInstId \in [Threads -> Nat]
      /\ bDone \in [Threads -> BOOLEAN] /\ fDone \in [Threads -> BOOLEAN]
      /\ statsBlockedRegs \in [Threads -> [Regs -> BP!Word]]
      /\ statsFineRegs \in [Threads -> [Regs -> FP!Word]]
  BY SameMTCore DEF BP!BlockedInv, BP!TypeOK, FP!FineInv, FP!TypeOK
<1>2. BP!Cells = Cells /\ BP!Word = Word
  BY DEF BP!Cells, Cells, BP!Word, Word
<1>3. \A t \in Threads : BP!NextLine(t) \in Nat
  BY <1>1 DEF BP!NextLine
<1>4. /\ \A t \in Threads : ~bDone[t] => BP!NextLine(t) \in DOMAIN img.code[t]
      /\ \A t \in Threads : ~fDone[t] => fInstId[t] \in DOMAIN img.code[t]
  BY SameMTCore DEF BP!BlockedInv, BP!LinesExist, FP!FineInv, FP!LinesExist
<1>5. \A t \in Threads : DOMAIN img.code[t] \subseteq Nat
  BY <1>1, ImagesAssumption DEF WellFormedImage, WellFormedProgram
<1>6. QED BY <1>1, <1>2, <1>3, <1>4, <1>5 DEF bLines

(* At the start nothing has been executed.                                 *)
LEMMA SimInitInv == SimInit => SimInv
<1> SUFFICES ASSUME SimInit PROVE SimInv
  OBVIOUS
<1>1. img \in Images /\ data = img.data /\ BP!InitLocals /\ FP!InitLocals
  BY SameBlocked, SameFine DEF SimInit
<1>2. BP!BlockedInv
  <2>1. BP!Init
    BY <1>1 DEF BP!Init
  <2>2. QED BY <2>1, BP!BlockedInit, CoreAssumptions
<1>3. FP!FineInv
  <2>1. FP!Init
    BY <1>1 DEF FP!Init
  <2>2. QED BY <2>1, FP!FineInit, CoreAssumptions
<1>4. /\ bDone = [t \in Threads |-> FALSE] /\ bPhase = "loop"
      /\ fDone = [t \in Threads |-> FALSE] /\ fPhase = "loop"
      /\ bInstId = [t \in Threads |-> 0] /\ fInstId = [t \in Threads |-> 0]
      /\ statsBlockedRegs = [t \in Threads |-> [r \in Regs |-> 0]]
      /\ statsFineRegs = [t \in Threads |-> [r \in Regs |-> 0]]
  BY <1>1, SameMTCore DEF BP!InitLocals, FP!InitLocals
<1>5. \A t \in Threads : bLines[t] = 0
  BY <1>4 DEF bLines, BP!NextLine
<1>6. \A t \in Threads : Alone(img.code[t], FirstStart(img)[t], bLines[t]) = Begin(img.data)
  BY <1>5, AloneUnfolds DEF FirstStart
<1>7. OnCourseBlocked
  BY <1>4, <1>5, <1>6 DEF OnCourseBlocked, OnCourse, Begin
<1>8. Sees(img, FirstStart(img), bLines, data)
  <2>1. DOMAIN img.data = Cells
    BY <1>1, ImagesAssumption DEF WellFormedImage
  <2>2. QED BY <1>1, <1>6, <2>1 DEF Sees, Begin
<1>9. QED BY <1>1, <1>2, <1>3, <1>4, <1>7, <1>8 DEF SimInv

(* The courses are those that RaceFree looks at.                           *)
LEMMA StartsSeen ==
  ASSUME NEW im, NEW u \in Threads, NEW n \in Nat
  PROVE  /\ Alone(im.code[u], FirstStart(im)[u], n).regs \in RegsAt(im, u, n)
         /\ Alone(im.code[u], SecondStart(im)[u], n).regs \in RegsAt(im, u, n)
BY DEF FirstStart, SecondStart, RegsAt, FirstRun, SecondRun

(* While the blocked core runs, the other one has not begun.  When the     *)
(* last HALT is behind it, the memory is what every thread left alone.     *)
LEMMA BlockedCoreStep ==
  ASSUME SimInv, RunBlocked
  PROVE  SimInv'
<1>1. /\ BP!BlockedInv /\ FP!FineInv /\ [BP!Next]_(BP!vars)
      /\ UNCHANGED <<fTimer, fDone, fInstId, fThread, statsFineRegs, fCycles,
                     fInsts, fPhase, fDue, fLastIssued, fOvertaken>>
  BY SameBlocked DEF SimInv, RunBlocked, fLocals, BP!Next
<1>2. BP!BlockedInv'
  BY <1>1, BP!BlockedStep, CoreAssumptions
<1>3. /\ img' = img
      /\ \/ /\ UNCHANGED <<bDone, statsBlockedRegs, data>>
            /\ \A u \in Threads : BP!NextLine(u)' = BP!NextLine(u)
         \/ \E t \in Threads :
              LET in == img.code[t][BP!NextLine(t)] IN
              /\ ~bDone[t]
              /\ \A u \in Threads :
                   BP!NextLine(u)' = IF u = t THEN BP!NextLine(t) + 1 ELSE BP!NextLine(u)
              /\ bDone' = [bDone EXCEPT ![t] = in.opcode = "HALT"]
              /\ statsBlockedRegs' = [statsBlockedRegs EXCEPT
                                        ![t] = Outcome(in, statsBlockedRegs[t], data)]
              /\ data' = Stored(in, statsBlockedRegs[t], data)
              /\ in.opcode = "LOAD" => InData(LoadAddr(in, statsBlockedRegs[t]))
              /\ in.opcode = "STORE" => InData(StoreAddr(in, statsBlockedRegs[t]))
  BY <1>1, BP!BlockedExecutes, CoreAssumptions, SameMTCore
<1>4. FP!FineInv'
  <2>1. data' \in [FP!Cells -> FP!Word]
    BY <1>2 DEF BP!BlockedInv, BP!TypeOK, BP!Cells, BP!Word, FP!Cells, FP!Word
  <2>2. UNCHANGED <<img, fTimer, fDone, fInstId, fThread, statsFineRegs, fCycles,
                    fInsts, fPhase, FP!history>>
    BY <1>1, <1>3 DEF FP!history
  <2>3. QED BY <1>1, <2>1, <2>2, FP!FineFrame, CoreAssumptions
<1>5. bPhase' = "end" => ~isRunningThreads(bDone')
  BY <1>1, BP!BlockedEnds, CoreAssumptions, SameMTCore DEF SimInv
<1>6. bPhase # "end"
  BY DEF RunBlocked, Blocked!Step, Blocked!ExecNop, Blocked!ExecAlu,
         Blocked!ExecLoad, Blocked!ExecStore, Blocked!ExecHalt,
         Blocked!StandBy, Blocked!Issue, Blocked!Idle, Blocked!SpinOnNoThread,
         Blocked!Resume, Blocked!Exit
<1>7. /\ fPhase' # "end"
      /\ \A t \in Threads : /\ fInstId'[t] = 0 /\ ~fDone'[t]
                            /\ statsFineRegs'[t] = [r \in Regs |-> 0]
  BY <1>1, <1>6 DEF SimInv
<1> DEFINE start == FirstStart(img)
<1>8. ASSUME RaceFree(img)
      PROVE  /\ OnCourse(img, start, bLines', bDone', statsBlockedRegs')
             /\ Sees(img, start, bLines', data')
  <2>1. /\ OnCourse(img, start, bLines, bDone, statsBlockedRegs)
        /\ Sees(img, start, bLines, data)
    BY <1>6, <1>8 DEF SimInv, OnCourseBlocked
  <2> HIDE DEF start
  <2>2. CASE /\ UNCHANGED <<bDone, statsBlockedRegs, data>>
             /\ \A u \in Threads : BP!NextLine(u)' = BP!NextLine(u)
    <3>1. bLines' = bLines
      BY <2>2 DEF bLines
    <3>2. QED BY <2>1, <2>2, <3>1
  <2>3. ASSUME NEW t \in Threads,
               ~bDone[t],
               \A u \in Threads :
                 BP!NextLine(u)' = IF u = t THEN BP!NextLine(t) + 1 ELSE BP!NextLine(u),
               bDone' = [bDone EXCEPT ![t] = img.code[t][BP!NextLine(t)].opcode = "HALT"],
               statsBlockedRegs' = [statsBlockedRegs EXCEPT
                  ![t] = Outcome(img.code[t][BP!NextLine(t)], statsBlockedRegs[t], data)],
               LET in == img.code[t][BP!NextLine(t)] IN
               /\ data' = Stored(in, statsBlockedRegs[t], data)
               /\ in.opcode = "LOAD" => InData(LoadAddr(in, statsBlockedRegs[t]))
               /\ in.opcode = "STORE" => InData(StoreAddr(in, statsBlockedRegs[t]))
        PROVE  /\ OnCourse(img, start, bLines', bDone', statsBlockedRegs')
               /\ Sees(img, start, bLines', data')
    <3> DEFINE in == img.code[t][bLines[t]]
    <3>1. bLines[t] = BP!NextLine(t) /\ bLines[t] \in DOMAIN img.code[t]
      BY <1>1, <2>3, SimTypes
    <3>2. ASSUME NEW u \in Threads
          PROVE  /\ bLines'[u] = IF u = t THEN bLines[u] + 1 ELSE bLines[u]
                 /\ bDone'[u] <=> IF u = t THEN in.opcode = "HALT" ELSE bDone[u]
                 /\ statsBlockedRegs'[u] = IF u = t THEN Outcome(in, statsBlockedRegs[t], data)
                                           ELSE statsBlockedRegs[u]
      <4>1. /\ bDone \in [Threads -> BOOLEAN] /\ DOMAIN statsBlockedRegs = Threads
            /\ bDone' = [bDone EXCEPT ![t] = in.opcode = "HALT"]
            /\ statsBlockedRegs' = [statsBlockedRegs EXCEPT
                                      ![t] = Outcome(in, statsBlockedRegs[t], data)]
        BY <1>1, <2>3, <3>1, SimTypes
      <4>2. bLines'[u] = BP!NextLine(u)' /\ bLines[u] = BP!NextLine(u)
        BY DEF bLines
      <4> HIDE DEF in
      <4>3. bLines'[u] = IF u = t THEN bLines[u] + 1 ELSE bLines[u]
        BY <2>3, <4>2
      <4>4. bDone'[u] <=> IF u = t THEN in.opcode = "HALT" ELSE bDone[u]
        BY <4>1, Zenon
      <4>5. QED BY <4>1, <4>3, <4>4
    <3>3. /\ data' = Stored(in, statsBlockedRegs[t], data)
          /\ in.opcode = "LOAD" => InData(LoadAddr(in, statsBlockedRegs[t]))
          /\ in.opcode = "STORE" => InData(StoreAddr(in, statsBlockedRegs[t]))
      BY <2>3, <3>1
    <3>4. Executes(img, t, bLines, bDone, statsBlockedRegs, data,
                   bLines', bDone', statsBlockedRegs', data')
      <4> HIDE DEF in
      <4>1. QED BY <2>3, <3>1, <3>2, <3>3 DEF Executes, in
    <3>5. \A u \in Threads : \A n \in Nat :
            Alone(img.code[u], start[u], n).regs \in RegsAt(img, u, n)
      BY StartsSeen DEF start
    <3>6. /\ \A u \in Threads : DOMAIN img.code[u] \subseteq Nat
          /\ data \in [Cells -> Word]
      BY <1>1, SimTypes
    <3>7. QED BY <1>8, <2>1, <3>4, <3>5, <3>6, GoesOn
  <2>4. CASE \E t \in Threads :
               LET in == img.code[t][BP!NextLine(t)] IN
               /\ ~bDone[t]
               /\ \A u \in Threads :
                    BP!NextLine(u)' = IF u = t THEN BP!NextLine(t) + 1 ELSE BP!NextLine(u)
               /\ bDone' = [bDone EXCEPT ![t] = in.opcode = "HALT"]
               /\ statsBlockedRegs' = [statsBlockedRegs EXCEPT
                                         ![t] = Outcome(in, statsBlockedRegs[t], data)]
               /\ data' = Stored(in, statsBlockedRegs[t], data)
               /\ in.opcode = "LOAD" => InData(LoadAddr(in, statsBlockedRegs[t]))
               /\ in.opcode = "STORE" => InData(StoreAddr(in, statsBlockedRegs[t]))
    BY <2>3, <2>4
  <2>5. QED BY <1>3, <2>2, <2>4
<1>9. ASSUME RaceFree(img), bPhase' = "end"
      PROVE  /\ OnCourse(img, SecondStart(img), fInstId', fDone', statsFineRegs')
             /\ Sees(img, SecondStart(img), fInstId', data')
  <2>1. \A t \in Threads : bDone'[t]
    BY <1>5, <1>9 DEF isRunningThreads
  <2>2. \A t \in Threads : DOMAIN img.code[t] \subseteq Nat
    BY <1>1, SimTypes
  <2>3. QED BY <1>7, <1>8, <1>9, <2>1, <2>2, TakesOver
<1>10. QED BY <1>2, <1>3, <1>4, <1>5, <1>7, <1>8, <1>9
       DEF SimInv, OnCourseBlocked, OnCourseFine

(* The fine-grained core runs when the other one is at its end.            *)
LEMMA FineCoreStep ==
  ASSUME SimInv, RunFine
  PROVE  SimInv'
<1>1. /\ BP!BlockedInv /\ FP!FineInv /\ [FP!Next]_(FP!vars)
      /\ UNCHANGED <<bTimer, bDone, bInstId, bThread, bCurrThread,
                     statsBlockedRegs, bCycles, bInsts, bPhase, bGhost, bDue,
                     bIdles, bLastIssued, bSwitches>>
      /\ bPhase = "end"
  BY SameFine DEF SimInv, RunFine, bLocals, FP!Next
<1>2. FP!FineInv'
  BY <1>1, FP!FineStep, CoreAssumptions
<1>3. /\ img' = img
      /\ \/ UNCHANGED <<fDone, fInstId, statsFineRegs, data>>
         \/ \E t \in Threads :
              LET in == img.code[t][fInstId[t]] IN
              /\ ~fDone[t]
              /\ \A u \in Threads :
                   fInstId'[u] = IF u = t THEN fInstId[t] + 1 ELSE fInstId[u]
              /\ fDone' = [fDone EXCEPT ![t] = in.opcode = "HALT"]
              /\ statsFineRegs' = [statsFineRegs EXCEPT
                                     ![t] = Outcome(in, statsFineRegs[t], data)]
              /\ data' = Stored(in, statsFineRegs[t], data)
              /\ in.opcode = "LOAD" => InData(LoadAddr(in, statsFineRegs[t]))
              /\ in.opcode = "STORE" => InData(StoreAddr(in, statsFineRegs[t]))
  BY <1>1, FP!FineExecutes, CoreAssumptions, SameMTCore
<1>4. BP!BlockedInv' /\ \A t \in Threads : BP!NextLine(t)' = BP!NextLine(t)
  <2>1. data' \in [BP!Cells -> BP!Word]
    BY <1>2 DEF FP!FineInv, FP!TypeOK, BP!Cells, BP!Word, FP!Cells, FP!Word
  <2>2. UNCHANGED <<img, bTimer, bDone, bInstId, bThread, bCurrThread,
                    statsBlockedRegs, bCycles, bInsts, bPhase, bGhost, BP!history>>
    BY <1>1, <1>3 DEF BP!history
  <2>3. QED BY <1>1, <2>1, <2>2, BP!BlockedFrame, CoreAssumptions, SameMTCore
<1>5. fPhase' = "end" => ~isRunningThreads(fDone')
  BY <1>1, FP!FineEnds, CoreAssumptions, SameMTCore DEF SimInv
<1>6. bLines' = bLines
  BY <1>4 DEF bLines
<1> DEFINE start == SecondStart(img)
<1>7. ASSUME RaceFree(img)
      PROVE  /\ OnCourse(img, start, fInstId', fDone', statsFineRegs')
             /\ Sees(img, start, fInstId', data')
  <2>1. /\ OnCourse(img, start, fInstId, fDone, statsFineRegs)
        /\ Sees(img, start, fInstId, data)
    BY <1>1, <1>7 DEF SimInv, OnCourseFine
  <2> HIDE DEF start
  <2>2. CASE UNCHANGED <<fDone, fInstId, statsFineRegs, data>>
    BY <2>1, <2>2
  <2>3. ASSUME NEW t \in Threads,
               ~fDone[t],
               \A u \in Threads :
                 fInstId'[u] = IF u = t THEN fInstId[t] + 1 ELSE fInstId[u],
               fDone' = [fDone EXCEPT ![t] = img.code[t][fInstId[t]].opcode = "HALT"],
               statsFineRegs' = [statsFineRegs EXCEPT
                  ![t] = Outcome(img.code[t][fInstId[t]], statsFineRegs[t], data)],
               LET in == img.code[t][fInstId[t]] IN
               /\ data' = Stored(in, statsFineRegs[t], data)
               /\ in.opcode = "LOAD" => InData(LoadAddr(in, statsFineRegs[t]))
               /\ in.opcode = "STORE" => InData(StoreAddr(in, statsFineRegs[t]))
        PROVE  /\ OnCourse(img, start, fInstId', fDone', statsFineRegs')
               /\ Sees(img, start, fInstId', data')
    <3> DEFINE in == img.code[t][fInstId[t]]
    <3>1. fInstId[t] \in DOMAIN img.code[t]
      BY <1>1, <2>3, SimTypes
    <3>2. ASSUME NEW u \in Threads
          PROVE  /\ fInstId'[u] = IF u = t THEN fInstId[u] + 1 ELSE fInstId[u]
                 /\ fDone'[u] <=> IF u = t THEN in.opcode = "HALT" ELSE fDone[u]
                 /\ statsFineRegs'[u] = IF u = t THEN Outcome(in, statsFineRegs[t], data)
                                        ELSE statsFineRegs[u]
      <4>1. /\ fDone \in [Threads -> BOOLEAN] /\ DOMAIN statsFineRegs = Threads
            /\ fDone' = [fDone EXCEPT ![t] = in.opcode = "HALT"]
            /\ statsFineRegs' = [statsFineRegs EXCEPT
                                   ![t] = Outcome(in, statsFineRegs[t], data)]
        BY <1>1, <2>3, SimTypes
      <4> HIDE DEF in
      <4>2. fDone'[u] <=> IF u = t THEN in.opcode = "HALT" ELSE fDone[u]
        BY <4>1, Zenon
      <4>3. QED BY <2>3, <4>1, <4>2
    <3>3. /\ data' = Stored(in, statsFineRegs[t], data)
          /\ in.opcode = "LOAD" => InData(LoadAddr(in, statsFineRegs[t]))
          /\ in.opcode = "STORE" => InData(StoreAddr(in, statsFineRegs[t]))
      BY <2>3
    <3>4. Executes(img, t, fInstId, fDone, statsFineRegs, data,
                   fInstId', fDone', statsFineRegs', data')
      <4> HIDE DEF in
      <4>1. QED BY <2>3, <3>1, <3>2, <3>3 DEF Executes, in
    <3>5. \A u \in Threads : \A n \in Nat :
            Alone(img.code[u], start[u], n).regs \in RegsAt(img, u, n)
      BY StartsSeen DEF start
    <3>6. /\ \A u \in Threads : DOMAIN img.code[u] \subseteq Nat
          /\ data \in [Cells -> Word]
      BY <1>1, SimTypes
    <3>7. QED BY <1>7, <2>1, <3>4, <3>5, <3>6, GoesOn
  <2>4. CASE \E t \in Threads :
               LET in == img.code[t][fInstId[t]] IN
               /\ ~fDone[t]
               /\ \A u \in Threads :
                    fInstId'[u] = IF u = t THEN fInstId[t] + 1 ELSE fInstId[u]
               /\ fDone' = [fDone EXCEPT ![t] = in.opcode = "HALT"]
               /\ statsFineRegs' = [statsFineRegs EXCEPT
                                      ![t] = Outcome(in, statsFineRegs[t], data)]
               /\ data' = Stored(in, statsFineRegs[t], data)
               /\ in.opcode = "LOAD" => InData(LoadAddr(in, statsFineRegs[t]))
               /\ in.opcode = "STORE" => InData(StoreAddr(in, statsFineRegs[t]))
    BY <2>3, <2>4
  <2>5. QED BY <1>3, <2>2, <2>4
<1>8. RaceFree(img) => OnCourseBlocked'
  BY <1>1, <1>3, <1>6 DEF SimInv, OnCourseBlocked
<1>9. QED BY <1>1, <1>2, <1>3, <1>4, <1>5, <1>7, <1>8
      DEF SimInv, OnCourseFine

LEMMA SimStep == SimInv /\ [SimNext]_allVars => SimInv'
<1> SUFFICES ASSUME SimInv, [SimNext]_allVars PROVE SimInv'
  OBVIOUS
<1>1. CASE RunBlocked
  BY <1>1, BlockedCoreStep
<1>2. CASE RunFine
  BY <1>2, FineCoreStep
<1>3. CASE UNCHANGED allVars
  <2>1. /\ UNCHANGED <<img, data, bTimer, bDone, bInstId, bThread, bCurrThread,
                       statsBlockedRegs, bCycles, bInsts, bPhase, bGhost, bDue,
                       bIdles, bLastIssued, bSwitches>>
        /\ UNCHANGED <<fTimer, fDone, fInstId, fThread, statsFineRegs, fCycles,
                       fInsts, fPhase, fDue, fLastIssued, fOvertaken>>
    BY <1>3 DEF allVars, bLocals, fLocals
  <2>2. BP!BlockedInv' /\ \A t \in Threads : BP!NextLine(t)' = BP!NextLine(t)
    <3>1. data' \in [BP!Cells -> BP!Word]
      BY <2>1 DEF SimInv, BP!BlockedInv, BP!TypeOK
    <3>2. UNCHANGED BP!history
      BY <2>1 DEF BP!history
    <3>3. QED BY <2>1, <3>1, <3>2, BP!BlockedFrame, CoreAssumptions, SameMTCore DEF SimInv
  <2>3. FP!FineInv'
    <3>1. data' \in [FP!Cells -> FP!Word]
      BY <2>1 DEF SimInv, FP!FineInv, FP!TypeOK
    <3>2. UNCHANGED FP!history
      BY <2>1 DEF FP!history
    <3>3. QED BY <2>1, <3>1, <3>2, FP!FineFrame, CoreAssumptions DEF SimInv
  <2>4. bLines' = bLines
    BY <2>2 DEF bLines
  <2>5. QED BY <2>1, <2>2, <2>3, <2>4 DEF SimInv, OnCourseBlocked, OnCourseFine
<1>4. QED BY <1>1, <1>2, <1>3 DEF SimNext, Finished

(* In a program without races every thread computes what it computes when  *)
(* it runs alone (main.c:35, 46), first on the data of the image and then  *)
(* on the memory that its first run left behind: data[] is not reset       *)
(* between the two cores (main.c:40), and neither core lets a thread notice*)
(* when the others run.                                                    *)
THEOREM ThreadsRunAloneAlways == SimSpec => []ThreadsRunAlone
<1>1. SimInv => ThreadsRunAlone
  <2> SUFFICES ASSUME SimInv, fPhase = "end", RaceFree(img), NEW t \in Threads
               PROVE  LET halt == HaltLine(img.code[t]) IN
                      /\ statsBlockedRegs[t] = FirstRun(img, t, halt).regs
                      /\ statsFineRegs[t] = SecondRun(img, t, halt).regs
    BY DEF ThreadsRunAlone
  <2>1. /\ OnCourse(img, FirstStart(img), bLines, bDone, statsBlockedRegs)
        /\ OnCourse(img, SecondStart(img), fInstId, fDone, statsFineRegs)
        /\ bDone[t] /\ fDone[t]
    BY DEF SimInv, OnCourseBlocked, OnCourseFine, isRunningThreads
  <2>2. DOMAIN img.code[t] \subseteq Nat
    BY SimTypes DEF SimInv
  <2>3. /\ statsBlockedRegs[t]
           = Alone(img.code[t], FirstStart(img)[t], HaltLine(img.code[t])).regs
        /\ statsFineRegs[t]
           = Alone(img.code[t], SecondStart(img)[t], HaltLine(img.code[t])).regs
    BY <2>1, <2>2, AtHalt
  <2>4. QED BY <2>3 DEF FirstRun, SecondRun, FirstStart, SecondStart
<1>2. QED BY <1>1, SimInitInv, SimStep, PTL DEF SimSpec
===============================================================================
