------------------------------- MODULE DflowMain -------------------------------
(***************************************************************************)
(* The driver of HW3: main reads the latencies and the program, has the    *)
(* program analysed, and answers queries.  What an instruction line says   *)
(* is chosen when the analysis gets to it (Dataflow); while the program is *)
(* read only the number of its instructions matters.  Lines are at most as *)
(* long as the buffer they are read into.                                  *)
(***************************************************************************)
EXTENDS Dataflow, Sequences

CONSTANTS
  LatencyFiles,   \* the files of latencies: a number per line, or NotANumber
  Quota           \* PROG_SIZE_QUOTA (64)

NotANumber == -1

ASSUME MainAssumption ==
  /\ IsFiniteSet(Opcodes) /\ Opcodes = 0 .. Cardinality(Opcodes) - 1
  /\ LatencyFiles \subseteq Seq(Nat \cup {NotANumber})
  /\ Quota \in Nat \ {0}

VARIABLES
  stage,      \* "latencies", "program", "context", "exited"
  opcodeFile,
  numOps,
  lineNum,
  maxInsts,
  status      \* the exit status, once exited

driverVars == <<opcodeFile, numOps, lineNum, maxInsts>>
mainVars == <<vars, stage, driverVars, status>>

MainInit ==
  /\ stage = "latencies"
  /\ opcodeFile \in LatencyFiles
  /\ numOps = 0
  /\ lineNum = 0
  /\ maxInsts = 0
  /\ status = 0
  /\ opsLatency = [op \in Opcodes |-> 0]
  /\ numOfInsts = 0
  /\ InitAnalysis

exit(rc) == stage' = "exited" /\ status' = rc

-----------------------------------------------------------------------------
(* readOpsLatency: one line more than there are opcodes, or one that is no *)
(* number, ends the program.                                               *)

ReadLatency ==
  LET line == opcodeFile[numOps + 1] IN
  /\ stage = "latencies" /\ numOps < Len(opcodeFile)
  /\ IF numOps \in Opcodes /\ line # NotANumber
     THEN /\ opsLatency' = [opsLatency EXCEPT ![numOps] = line]
          /\ numOps' = numOps + 1
          /\ UNCHANGED <<stage, status>>
     ELSE exit(1) /\ UNCHANGED <<opsLatency, numOps>>
  /\ UNCHANGED <<numOfInsts, analysisVars, opcodeFile, lineNum, maxInsts>>

LatenciesRead ==
  /\ stage = "latencies" /\ numOps = Len(opcodeFile)
  /\ stage' = "program"
  /\ UNCHANGED <<vars, driverVars, status>>

(* readProgram.  The buffer grows before a line is looked at, also before  *)
(* a comment.                                                              *)

(* Mistake: the buffer grows one line too late.                            *)
Grown_Late == IF lineNum = maxInsts + 1 THEN maxInsts + Quota ELSE maxInsts

Grown == IF lineNum = maxInsts THEN maxInsts + Quota ELSE maxInsts

ReadInstruction ==
  /\ stage = "program" /\ lineNum < MaxInsts
  /\ maxInsts' = Grown
  /\ lineNum' = lineNum + 1
  /\ UNCHANGED <<vars, stage, status, opcodeFile, numOps>>

SkipLine ==
  /\ stage = "program"
  /\ maxInsts' = Grown
  /\ UNCHANGED <<vars, stage, status, opcodeFile, numOps, lineNum>>

BadLine ==
  /\ stage = "program"
  /\ maxInsts' = Grown
  /\ exit(1)
  /\ UNCHANGED <<vars, opcodeFile, numOps, lineNum>>

(* An empty program is an error, others are analysed.                      *)
ProgramRead ==
  /\ stage = "program"
  /\ IF lineNum = 0
     THEN exit(1) /\ UNCHANGED numOfInsts
     ELSE stage' = "context" /\ numOfInsts' = lineNum /\ UNCHANGED status
  /\ UNCHANGED <<opsLatency, analysisVars, driverVars>>

(* analyzeProg, and in the end the release of context and program.         *)
Analysis ==
  /\ stage = "context"
  /\ (\E inst \in InstInfo : Analyze(inst)) \/ Analyzed
  /\ UNCHANGED <<stage, status, driverVars>>

(* Queries that are answered change nothing.  One that is no letter p or d *)
(* and a number ends the program on the spot.                              *)
BadQuery ==
  /\ stage = "context" /\ phase = "query"
  /\ exit(3)
  /\ UNCHANGED <<vars, driverVars>>

Finish ==
  /\ stage = "context"
  /\ freeProgCtx
  /\ exit(0)
  /\ UNCHANGED driverVars

Exited == stage = "exited" /\ UNCHANGED mainVars

MainNext ==
  \/ ReadLatency \/ LatenciesRead
  \/ ReadInstruction \/ SkipLine \/ BadLine \/ ProgramRead
  \/ Analysis \/ BadQuery \/ Finish \/ Exited

MainSpec == MainInit /\ [][MainNext]_mainVars

-----------------------------------------------------------------------------
ProgramFitsBuffer == lineNum <= maxInsts /\ numOfInsts <= lineNum

LatenciesAsInFile ==
  stage \in {"program", "context"} =>
    /\ Len(opcodeFile) <= Cardinality(Opcodes)
    /\ \A op \in Opcodes :
         opsLatency[op] = IF op < Len(opcodeFile) THEN opcodeFile[op + 1] ELSE 0

(* What is analysed is what the files say.  Instructions are stored, and   *)
(* later read, inside the buffer, which grows by a fixed quota when lines  *)
(* are read that may turn out to be comments (dflow_main.c:50-79).  The    *)
(* latencies are those of the file, all of them and in order, and 0 for    *)
(* the opcodes behind its end; a file with more latencies than there are   *)
(* opcodes is never used (dflow_main.c:96, 103-114).                       *)
InputsArrive == ProgramFitsBuffer /\ LatenciesAsInFile
-----------------------------------------------------------------------------
(* What makes these properties inductive: the driver's own variables, and  *)
(* the analysis untouched until the program has been read.                 *)
DriverOK ==
  /\ stage \in {"latencies", "program", "context", "exited"}
  /\ opcodeFile \in LatencyFiles
  /\ numOps \in 0 .. Len(opcodeFile)
  /\ lineNum \in 0 .. MaxInsts
  /\ maxInsts \in Nat
  /\ stage \in {"latencies", "program"} =>
       numOfInsts = 0 /\ i = 0 /\ phase = "analyze"

LatenciesSoFar ==
  stage = "latencies" =>
    /\ numOps <= Cardinality(Opcodes)
    /\ \A op \in Opcodes :
         opsLatency[op] = IF op < numOps THEN opcodeFile[op + 1] ELSE 0

(* An empty program is never analysed.                                     *)
NeverEmpty ==
  /\ stage = "context" => numOfInsts > 0
  /\ phase # "analyze" => i = numOfInsts /\ i > 0

DepthInv == DepthsFollow /\ NeverEmpty

MainInv ==
  /\ TypeOK
  /\ DriverOK
  /\ LatenciesSoFar
  /\ InputsArrive
  /\ WritesRecorded
  /\ DepsAreLastWriters
=============================================================================
