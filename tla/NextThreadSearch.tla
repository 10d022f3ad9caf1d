--------------------------- MODULE NextThreadSearch ---------------------------
(***************************************************************************)
(* getNextThread, loop by loop.  The first loop looks for a live thread in *)
(* round-robin order, the second walks once around all threads and keeps   *)
(* the one with the strictly smallest timer.  getNextThreadFine holds the  *)
(* same two loops and differs only in where it starts.                     *)
(* The cores use the outcome, FirstReady of MTCore, as one step; this      *)
(* module is why they may.                                                 *)
(***************************************************************************)
EXTENDS MTCore

CONSTANTS
  Timers,   \* the timers a search may meet
  Garbage   \* what the uninitialised minTimer may hold

ASSUME TimersAssumption  == Timers \subseteq Nat
ASSUME GarbageAssumption == Garbage \subseteq Int

VARIABLES
  from,            \* the thread the search starts at
  sbTimer, done,   \* the threads, which a search only reads
  nextThreadID,
  minTimer,        \* not initialised by the code
  minTimerThread,
  i,               \* the counter of the loop that is running
  pc               \* "find", "scan" or "return"

vars == <<from, sbTimer, done, nextThreadID, minTimer, minTimerThread, i, pc>>
inputs == <<from, sbTimer, done>>

Init ==
  /\ from \in Threads
  /\ sbTimer \in [Threads -> Timers]
  /\ done \in [Threads -> BOOLEAN]
  /\ nextThreadID = from
  /\ minTimer \in Garbage
  /\ minTimerThread = NoThread
  /\ i = 0
  /\ pc = "find"

(* Leave the first loop: step over the thread it stopped at and start the  *)
(* second one.                                                             *)
StartScan ==
  /\ nextThreadID' = RRpolicy(nextThreadID)
  /\ i' = 0
  /\ pc' = "scan"

SkipDone ==
  /\ pc = "find" /\ i < N
  /\ done[nextThreadID]
  /\ nextThreadID' = RRpolicy(nextThreadID)
  /\ i' = i + 1
  /\ UNCHANGED <<inputs, minTimer, minTimerThread, pc>>

(* Mistake: the minimum is not initialised with the first live thread.     *)
FoundLive_NoTimer ==
  /\ pc = "find" /\ i < N
  /\ ~done[nextThreadID]
  /\ minTimerThread' = nextThreadID
  /\ StartScan
  /\ UNCHANGED <<inputs, minTimer>>

FoundLive ==
  /\ pc = "find" /\ i < N
  /\ ~done[nextThreadID]
  /\ minTimer' = sbTimer[nextThreadID]
  /\ minTimerThread' = nextThreadID
  /\ StartScan
  /\ UNCHANGED inputs

NoneLive ==
  /\ pc = "find" /\ i = N
  /\ StartScan
  /\ UNCHANGED <<inputs, minTimer, minTimerThread>>

(* Mistake: the last of several equal timers wins.                         *)
Better_OrEqual == ~done[nextThreadID] /\ sbTimer[nextThreadID] <= minTimer

Better == ~done[nextThreadID] /\ sbTimer[nextThreadID] < minTimer

(* Mistake: the loop does not count.                                       *)
ScanNext_NoCount ==
  /\ nextThreadID' = RRpolicy(nextThreadID)
  /\ UNCHANGED <<inputs, i, pc>>

ScanNext ==
  /\ nextThreadID' = RRpolicy(nextThreadID)
  /\ i' = i + 1
  /\ UNCHANGED <<inputs, pc>>

TakeBetter ==
  /\ pc = "scan" /\ i < N
  /\ Better
  /\ minTimer' = sbTimer[nextThreadID]
  /\ minTimerThread' = nextThreadID
  /\ ScanNext

KeepMin ==
  /\ pc = "scan" /\ i < N
  /\ ~Better
  /\ UNCHANGED <<minTimer, minTimerThread>>
  /\ ScanNext

Return ==
  /\ pc = "scan" /\ i = N
  /\ pc' = "return"
  /\ UNCHANGED <<inputs, nextThreadID, minTimer, minTimerThread, i>>

Returned == pc = "return" /\ UNCHANGED vars

Next ==
  \/ SkipDone \/ FoundLive \/ NoneLive
  \/ TakeBetter \/ KeepMin
  \/ Return \/ Returned

Spec == Init /\ [][Next]_vars /\ WF_vars(Next)

-----------------------------------------------------------------------------
TypeOK ==
  /\ from \in Threads
  /\ sbTimer \in [Threads -> Timers]
  /\ done \in [Threads -> BOOLEAN]
  /\ nextThreadID \in Threads
  /\ minTimer \in Int
  /\ minTimerThread \in Threads \cup {NoThread}
  /\ i \in 0 .. N
  /\ pc \in {"find", "scan", "return"}

(* The two loops return the live thread with the shortest stand-by time,   *)
(* the first such thread in round-robin order among equals, and -1 exactly *)
(* when every thread is done (core_api.cpp:72).                            *)
SearchCorrect ==
  pc = "return" => minTimerThread = FirstReady(from, sbTimer, done)

(* The comparison of the second loop (core_api.cpp:87) never depends on    *)
(* the uninitialised minTimer: whenever a live thread is compared, the     *)
(* minimum is the timer of a live thread already found.                    *)
MinTimerInitialised ==
  pc = "scan" /\ i < N /\ ~done[nextThreadID] =>
    /\ minTimerThread \in Threads
    /\ ~done[minTimerThread]
    /\ minTimer = sbTimer[minTimerThread]

(* The search always returns: neither loop can run for ever.               *)
SearchReturns == <>(pc = "return")

-----------------------------------------------------------------------------
(* The loop invariants that make SearchCorrect inductive.                  *)

(* Threads the first loop has passed are done.                             *)
PassedAreDone ==
  pc = "find" =>
    /\ minTimerThread = NoThread
    /\ RRDistance(from, nextThreadID) = (IF i = N THEN 0 ELSE i)
    /\ \A u \in Threads : RRDistance(from, u) < i => done[u]

(* The thread where the second loop began its walk was the first live one, *)
(* so a walk that has made i steps stands i + 1 behind it.                 *)
FirstLive(f) ==
  /\ ~done[f]
  /\ \A u \in Threads : ~done[u] => RRDistance(from, f) <= RRDistance(from, u)

Around(f, steps) ==
  LET t == f + steps
  IN  IF t >= 2 * N THEN t - 2 * N ELSE IF t >= N THEN t - N ELSE t

Visited(f, u) == RRDistance(f, u) = 0 \/ RRDistance(f, u) <= i

MinOfVisited ==
  pc \in {"scan", "return"} =>
    IF minTimerThread = NoThread
    THEN \A u \in Threads : done[u]
    ELSE \E f \in Threads :
           /\ FirstLive(f)
           /\ nextThreadID = Around(f, i + 1)
           /\ ~done[minTimerThread]
           /\ Visited(f, minTimerThread)
           /\ minTimer = sbTimer[minTimerThread]
           /\ \A u \in Threads : ~done[u] /\ Visited(f, u) =>
                Before(from, sbTimer, minTimerThread, u)

ReturnAtEnd == pc = "return" => i = N

SearchInv == TypeOK /\ PassedAreDone /\ MinOfVisited /\ ReturnAtEnd
=============================================================================
