-------------------------------- MODULE MTSim --------------------------------
(***************************************************************************)
(* main of HW4: load an image, run CORE_BlockedMT, then CORE_FinegrainedMT.*)
(* Each core has its own threads, registers and statistics; both work on   *)
(* the one data[] of sim_api.c, and nothing resets it in between, so the   *)
(* fine-grained core starts on the memory the blocked core leaves behind.  *)
(***************************************************************************)
EXTENDS MTCore

CONSTANTS GhostTimers, MaxCycles

ASSUME GhostAssumption == GhostTimers \subseteq Int
ASSUME CyclesAssumption == MaxCycles \in Nat

VARIABLES
  img, data,
  (* CORE_BlockedMT *)
  bTimer, bDone, bInstId, bThread, bCurrThread, statsBlockedRegs, bCycles,
  bInsts, bPhase, bGhost, bDue, bIdles, bLastIssued, bSwitches,
  (* CORE_FinegrainedMT *)
  fTimer, fDone, fInstId, fThread, statsFineRegs, fCycles, fInsts, fPhase,
  fDue, fLastIssued, fOvertaken

bLocals == <<bTimer, bDone, bInstId, bThread, bCurrThread, statsBlockedRegs,
             bCycles, bInsts, bPhase, bGhost, bDue, bIdles, bLastIssued,
             bSwitches>>
fLocals == <<fTimer, fDone, fInstId, fThread, statsFineRegs, fCycles, fInsts,
             fPhase, fDue, fLastIssued, fOvertaken>>
allVars == <<img, data, bLocals, fLocals>>

Blocked == INSTANCE BlockedMT WITH
  sbTimer <- bTimer, done <- bDone, instId <- bInstId, threadID <- bThread,
  currThreadID <- bCurrThread, regs <- statsBlockedRegs, cyclesNum <- bCycles,
  instNum <- bInsts, phase <- bPhase, ghostTimer <- bGhost, due <- bDue,
  idles <- bIdles, lastIssued <- bLastIssued, switches <- bSwitches

Fine == INSTANCE FinegrainedMT WITH
  sbTimer <- fTimer, done <- fDone, instId <- fInstId, threadID <- fThread,
  regs <- statsFineRegs, cyclesNum <- fCycles, instNum <- fInsts,
  phase <- fPhase, due <- fDue, lastIssued <- fLastIssued,
  overtaken <- fOvertaken

(* The fine-grained core initialises its own variables, and not data, when *)
(* it starts; before that nobody looks at them.                            *)
SimInit ==
  /\ img \in Images
  /\ data = img.data
  /\ Blocked!InitLocals
  /\ Fine!InitLocals

RunBlocked == Blocked!Step /\ UNCHANGED fLocals

(* Mistake: main resets the data memory before the second simulation.      *)
RunFine_Reset ==
  /\ bPhase = "end"
  /\ UNCHANGED bLocals
  /\ \/ fInsts = 0 /\ data # img.data /\ data' = img.data /\ UNCHANGED <<img, fLocals>>
     \/ (fInsts > 0 \/ data = img.data) /\ Fine!Step

RunFine == bPhase = "end" /\ Fine!Step /\ UNCHANGED bLocals

Finished == fPhase = "end" /\ UNCHANGED allVars

SimNext == RunBlocked \/ RunFine \/ Finished

SimSpec == SimInit /\ [][SimNext]_allVars

-----------------------------------------------------------------------------
(* A thread that runs alone: its registers and the memory after the first  *)
(* n lines of its program, from registers of 0 and this memory.            *)
After(in, s) ==
  [regs |-> Outcome(in, s.regs, s.mem), mem |-> Stored(in, s.regs, s.mem)]

Alone(code, mem, n) ==
  LET s[i \in 0 .. n] ==
        IF i = 0
        THEN [regs |-> [r \in Regs |-> 0], mem |-> mem]
        ELSE After(code[i - 1], s[i - 1])
  IN  s[n]

(* The lines of a program that control reaches, and the last one of them.  *)
Lines(code) ==
  { n \in DOMAIN code : \A m \in 0 .. n - 1 : code[m].opcode # "HALT" }
HaltLine(code) == CHOOSE n \in Lines(code) : code[n].opcode = "HALT"

(* The course of thread t for the blocked core, and once more for the      *)
(* fine-grained core on the memory that this first run leaves behind.      *)
FirstRun(im, t, n) == Alone(im.code[t], im.data, n)
SecondRun(im, t, n) ==
  Alone(im.code[t], FirstRun(im, t, HaltLine(im.code[t])).mem, n)

RegsAt(im, t, n) == {FirstRun(im, t, n).regs, SecondRun(im, t, n).regs}
LinesOf(im, t, opcode) ==
  { n \in Lines(im.code[t]) : im.code[t][n].opcode = opcode }

(* The cells that thread t loads from and stores to in the two runs.       *)
CellsLoaded(im, t) ==
  UNION { { DataIndex(LoadAddr(im.code[t][n], r)) : r \in RegsAt(im, t, n) } :
            n \in LinesOf(im, t, "LOAD") }
CellsStored(im, t) ==
  UNION { { DataIndex(StoreAddr(im.code[t][n], r)) : r \in RegsAt(im, t, n) } :
            n \in LinesOf(im, t, "STORE") }

(* No thread loads from a cell that another one stores to.                 *)
RaceFree(im) ==
  \A t, u \in Threads : t # u => CellsLoaded(im, t) \cap CellsStored(im, u) = {}

(* In a program without races every thread computes what it computes when  *)
(* it runs alone, however the two cores interleave it with the others:     *)
(* what main prints for the blocked core (main.c:35) is its run on the     *)
(* data of the image, and what it prints for the fine-grained core         *)
(* (main.c:46) is its run on the memory that the first run left behind,    *)
(* because nothing resets data[] between them (main.c:40).                 *)
ThreadsRunAlone ==
  fPhase = "end" /\ RaceFree(img) =>
    \A t \in Threads : LET halt == HaltLine(img.code[t]) IN
      /\ statsBlockedRegs[t] = FirstRun(img, t, halt).regs
      /\ statsFineRegs[t] = SecondRun(img, t, halt).regs
=============================================================================
