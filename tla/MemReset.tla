-------------------------------- MODULE MemReset --------------------------------
(***************************************************************************)
(* SIM_MemReset of HW4's sim_api.c: its three nested loops over the lines  *)
(* of a memory image, and the accessors that read what it has loaded.  A   *)
(* step reads one line (fgets) and does all that happens before the next   *)
(* one is read; which line it is is up to the image.  N is the largest     *)
(* number of threads an image asks for.                                    *)
(*                                                                         *)
(* A line is a kind, which its first characters decide, and a value: the   *)
(* number after L, S, O, N, T, I@ or D@, the data word, or the written     *)
(* instruction (see Written).  Empty lines and comments are "blank".       *)
(***************************************************************************)
EXTENDS MTCore

CONSTANTS
  InstRoom,   \* instructions a thread has room for (40 in the code)
  Lines,      \* the lines the images are made of
  Separated,  \* whether a blank line ends every block of the images
  Uninitialised   \* what malloc leaves behind

VARIABLES
  phase,        \* the loop the loader is in, "done", or "undefined"
  line,         \* the buffer
  settings,     \* load_store_latency, switch_ and threadnumber
  instructions,
  tid,          \* NoThread: not assigned yet
  inst,
  data_start,
  data,
  data_i,
  seen,         \* history: which of N, T and D@ have been read
  length        \* history: the lines of the current block so far

vars == <<phase, line, settings, instructions, tid, inst, data_start, data, data_i, seen, length>>

Settings == {"L", "S", "O", "N"}
NoNote == -1

(* An instruction as written.  src2Reg: src2 has a $.  note: a number that *)
(* follows a $ in the comment behind it.  spaced: whether a space follows  *)
(* the command, which ends a line of its own otherwise.                    *)
Written == [opcode : Opcodes, dst : Regs, src1 : Regs, src2 : Word,
            src2Reg : BOOLEAN, note : Regs \cup {NoNote}, spaced : BOOLEAN]

Kinds == Settings \cup {"blank", "T", "I@", "D@", "inst", "data"}

ASSUME LinesAssumption ==
  /\ InstRoom \in Nat \ {0}
  /\ NumRegs <= HalfWord
  /\ Separated \in BOOLEAN
  /\ \A l \in Lines :
       /\ l.kind \in Kinds
       /\ l.kind = "inst" => l.val \in Written
       /\ l.kind \in {"T", "N"} => l.val \in 0 .. N
       /\ l.kind \in {"L", "S", "O"} => l.val \in Nat
       /\ l.kind \in {"data", "D@"} => l.val \in Word

Init ==
  /\ phase = "header"
  /\ line = [kind |-> "blank", val |-> 0]
  /\ settings = [s \in Settings |-> 0]
  /\ instructions = [t \in {} |-> 0]
  /\ tid = NoThread
  /\ inst = 0
  /\ data_start = 0
  /\ data = [i \in Cells |-> 0]
  /\ data_i = 0
  /\ seen = {}
  /\ length = 0

-----------------------------------------------------------------------------
(* The images considered.  Their settings come first and N ends them, T    *)
(* comes before the code of a thread, there is one block of data, and      *)
(* nothing but blocks holds instructions and data, as many as there is     *)
(* room for.                                                               *)
InFormat(l) ==
  /\ l.kind \in Settings => "N" \notin seen
  /\ l.kind \in {"T", "I@", "D@"} => "N" \in seen
  /\ l.kind = "T" => l.val < settings["N"]
  /\ l.kind = "I@" => "T" \in seen
  /\ l.kind = "D@" => "D@" \notin seen
  /\ l.kind = "inst" <=> line.kind = "I@" \/ (line.kind = "inst" /\ l.kind = "inst")
  /\ l.kind = "data" <=> line.kind = "D@" \/ (line.kind = "data" /\ l.kind = "data")
  /\ l.kind = "inst" => length < InstRoom
  /\ l.kind = "data" => length < DataWords
  /\ Separated /\ line.kind \in {"inst", "data"} => l.kind \in {line.kind, "blank"}

fgets(l) ==
  /\ InFormat(l)
  /\ line' = l
  /\ seen' = seen \cup ({l.kind} \cap {"N", "T", "D@"})
  /\ length' = IF l.kind \in {"inst", "data"} THEN length + 1 ELSE 0

-----------------------------------------------------------------------------
(* get_inst.  halt gives every field a value, NOP none but the opcode.     *)
(* get_src2_imm takes a $ anywhere behind the second comma for a register. *)

(* Mistake: an immediate is not marked as one.                             *)
Decode_NoFlag(w) ==
  [opcode |-> w.opcode, dst |-> w.dst, src1 |-> w.src1, src2 |-> w.src2,
   isSrc2Imm |-> FALSE]

Decode(w) ==
  CASE w.opcode = "NOP" ->
         [opcode |-> "NOP", dst |-> Uninitialised, src1 |-> Uninitialised,
          src2 |-> Uninitialised, isSrc2Imm |-> Uninitialised]
    [] w.opcode = "HALT" ->
         [opcode |-> "HALT", dst |-> w.dst, src1 |-> 0, src2 |-> 0, isSrc2Imm |-> FALSE]
    [] OTHER ->
         [opcode |-> w.opcode, dst |-> w.dst, src1 |-> w.src1,
          src2 |-> IF ~w.src2Reg /\ w.note # NoNote THEN w.note ELSE w.src2,
          isSrc2Imm |-> ~w.src2Reg /\ w.note = NoNote]

(* A line whose first word is no command runs off the table of commands;   *)
(* so does a command with nothing but the end of its line behind it.       *)
Decodable(l) == l.kind = "inst" /\ l.val.spaced

(* Mistake: the loop that makes room for the threads makes one turn more.  *)
HeaderLine_OneMore(l) ==
  /\ phase = "header"
  /\ fgets(l)
  /\ settings' = IF l.kind \in Settings THEN [settings EXCEPT ![l.kind] = l.val]
                 ELSE settings
  /\ IF l.kind = "N"
     THEN /\ phase' = "blocks"
          /\ instructions' = [t \in 0 .. l.val |->
                                [i \in 0 .. InstRoom - 1 |-> Uninitialised]]
     ELSE UNCHANGED <<phase, instructions>>
  /\ UNCHANGED <<tid, inst, data_start, data, data_i>>

(* The settings are read up to N; the room for the code is not cleared.    *)
HeaderLine(l) ==
  /\ phase = "header"
  /\ fgets(l)
  /\ settings' = IF l.kind \in Settings THEN [settings EXCEPT ![l.kind] = l.val]
                 ELSE settings
  /\ IF l.kind = "N"
     THEN /\ phase' = "blocks"
          /\ instructions' = [t \in 0 .. l.val - 1 |->
                                [i \in 0 .. InstRoom - 1 |-> Uninitialised]]
     ELSE UNCHANGED <<phase, instructions>>
  /\ UNCHANGED <<tid, inst, data_start, data, data_i>>

(* Mistake: the second block of code goes on where the first has stopped.  *)
BlocksLine_KeepCount(l) ==
  /\ phase = "blocks"
  /\ fgets(l)
  /\ tid' = IF l.kind = "T" THEN l.val ELSE tid
  /\ phase' = CASE l.kind = "I@" -> "code" [] l.kind = "D@" -> "data" [] OTHER -> "blocks"
  /\ IF l.kind = "D@" THEN data_start' = l.val /\ data_i' = 0
     ELSE UNCHANGED <<data_start, data_i>>
  /\ UNCHANGED <<settings, instructions, data, inst>>

BlocksLine(l) ==
  /\ phase = "blocks"
  /\ fgets(l)
  /\ tid' = IF l.kind = "T" THEN l.val ELSE tid
  /\ phase' = CASE l.kind = "I@" -> "code" [] l.kind = "D@" -> "data" [] OTHER -> "blocks"
  /\ inst' = IF l.kind = "I@" THEN 0 ELSE inst
  /\ IF l.kind = "D@" THEN data_start' = l.val /\ data_i' = 0
     ELSE UNCHANGED <<data_start, data_i>>
  /\ UNCHANGED <<settings, instructions, data>>

(* A line that ends a block is gone: the outer loop reads the next one.    *)
CodeLine(l) ==
  /\ phase = "code"
  /\ fgets(l)
  /\ IF l.kind \in {"blank", "D@"}
     THEN phase' = "blocks" /\ UNCHANGED <<instructions, inst>>
     ELSE IF Decodable(l) /\ tid \in DOMAIN instructions /\ inst < InstRoom
     THEN /\ instructions' = [instructions EXCEPT ![tid][inst] = Decode(l.val)]
          /\ inst' = inst + 1
          /\ UNCHANGED phase
     ELSE phase' = "undefined" /\ UNCHANGED <<instructions, inst>>
  /\ UNCHANGED <<settings, tid, data_start, data, data_i>>

(* get_data makes a 0 of a line that is no number.                         *)
DataLine(l) ==
  /\ phase = "data"
  /\ fgets(l)
  /\ IF l.kind \in {"blank", "I@"}
     THEN phase' = "blocks" /\ UNCHANGED <<data, data_i>>
     ELSE IF data_i \in Cells
     THEN /\ data' = [data EXCEPT ![data_i] = IF l.kind = "data" THEN l.val ELSE 0]
          /\ data_i' = data_i + 1
          /\ UNCHANGED phase
     ELSE phase' = "undefined" /\ UNCHANGED <<data, data_i>>
  /\ UNCHANGED <<settings, instructions, tid, inst, data_start>>

(* fgets fails.  Behind I@ and D@ that goes unnoticed, but the images      *)
(* considered do not end there.                                            *)
EndOfFile ==
  /\ phase \notin {"done", "undefined"}
  /\ line.kind \notin {"I@", "D@"}
  /\ phase' = "done"
  /\ UNCHANGED <<line, settings, instructions, tid, inst, data_start, data, data_i, seen, length>>

Stopped == phase \in {"done", "undefined"} /\ UNCHANGED vars

Next ==
  \/ \E l \in Lines : HeaderLine(l) \/ BlocksLine(l) \/ CodeLine(l) \/ DataLine(l)
  \/ EndOfFile
  \/ Stopped

Spec == Init /\ [][Next]_vars

-----------------------------------------------------------------------------
Loaded == [opcode : Opcodes, dst : Regs \cup {Uninitialised},
           src1 : Regs \cup {Uninitialised}, src2 : Word \cup {Uninitialised},
           isSrc2Imm : BOOLEAN \cup {Uninitialised}]

TypeOK ==
  /\ phase \in {"header", "blocks", "code", "data", "done", "undefined"}
  /\ line.kind \in Kinds
  /\ settings \in [Settings -> Nat]
  /\ DOMAIN instructions = 0 .. settings["N"] - 1
  /\ \A t \in DOMAIN instructions :
       instructions[t] \in [0 .. InstRoom - 1 -> Loaded \cup {Uninitialised}]
  /\ tid \in Threads \cup {NoThread}
  /\ inst \in 0 .. InstRoom
  /\ data_start \in Word
  /\ data \in [Cells -> Word]
  /\ data_i \in 0 .. DataWords
  /\ seen \subseteq {"N", "T", "D@"}
  /\ length \in Nat

(* An image whose blocks end with a blank line never makes the loader run  *)
(* off its tables, up to a full room of instructions and of data           *)
(* (sim_api.c:147, 200, 17).                                               *)
AlwaysDefined == phase # "undefined"

(* What makes this inductive: which lines each loop can have seen last,    *)
(* and that inside a block the index of its table counts the lines.        *)
InFormatSoFar ==
  /\ settings["N"] <= N
  /\ "N" \notin seen => settings["N"] = 0 /\ "T" \notin seen
  /\ "T" \in seen => tid \in 0 .. settings["N"] - 1

LoopsFollowLines ==
  /\ phase = "header" => "N" \notin seen /\ line.kind \in Settings \cup {"blank"}
  /\ phase \in {"blocks", "code", "data"} => "N" \in seen
  /\ phase = "blocks" => line.kind \in {"N", "T", "blank"}
  /\ phase = "code" => line.kind \in {"I@", "inst"} /\ "T" \in seen /\ inst = length
  /\ phase = "data" => line.kind \in {"D@", "data"} /\ data_i = length
  /\ line.kind \in {"I@", "D@"} => length = 0

LoaderInv == TypeOK /\ InFormatSoFar /\ LoopsFollowLines /\ AlwaysDefined

Addresses == {a \in Word : a % 4 = 0}

InBlock(a) == \E i \in Cells : a = Wrap(data_start + 4 * i)

(* The accessors find the word of an address in data[] exactly if it is    *)
(* one of the block, each at a place of its own, also if the block reaches *)
(* across the middle of the address space (sim_api.c:253-263).             *)
AddressesHitOwnWord ==
  LET index(a) == DataIndexFrom(data_start, a) IN
  \A a \in Addresses :
    /\ index(a) \in Cells <=> InBlock(a)
    /\ \A b \in Addresses : InBlock(a) /\ index(a) = index(b) => a = b

(* Of NOP and HALT only the command means anything.                        *)
Essence(in) ==
  IF in # Uninitialised /\ in.opcode \in {"NOP", "HALT"} THEN [opcode |-> in.opcode] ELSE in

AsWritten(w) ==
  Essence([opcode |-> w.opcode, dst |-> w.dst, src1 |-> w.src1, src2 |-> w.src2,
           isSrc2Imm |-> ~w.src2Reg])

NoCode == [t \in Threads |-> [i \in 0 .. InstRoom - 1 |-> Uninitialised]]

Place ==
  IF phase = "code" THEN inst
  ELSE IF phase = "data" THEN Wrap(data_start + 4 * data_i) ELSE 0

CodeSoFar ==
  [t \in Threads |->
     IF t \in DOMAIN instructions
     THEN [i \in 0 .. InstRoom - 1 |-> Essence(instructions[t][i])]
     ELSE NoCode[t]]

(* The addresses of the words of a block, and what is read there.  Outside *)
(* the block the code checks no bound and reads what lies beside data[],   *)
(* although sim_api.h:36 promises 0 there; of that nothing is said.        *)
BlockAt(start) == {a \in Addresses : \E i \in Cells : a = Wrap(start + 4 * i)}

MemorySoFar ==
  [a \in IF "D@" \in seen THEN BlockAt(data_start) ELSE {} |->
     data[DataIndexFrom(data_start, a)]]

Format == INSTANCE ImageFormat WITH
            thread <- tid, at <- Place, code <- CodeSoFar, memory <- MemorySoFar,
            Meaning <- AsWritten, After <- LAMBDA a : Wrap(a + 4), Room <- BlockAt

(* What the loader has built is at every line what the lines so far say,   *)
(* each instruction and each word of the block in its place                *)
(* (sim_api.c:172-244).                                                    *)
ImplementsFormat == Format!Spec

-----------------------------------------------------------------------------
(* What the theorems assume of the images: a blank line behind each block, *)
(* and a space behind each command.                                        *)
OrdinaryImages ==
  /\ Separated
  /\ \A l \in Lines : l.kind = "inst" => l.val.spaced

(* The block is aligned, and small against the address space.              *)
OrdinaryBlock ==
  /\ HalfWord % 2 = 0
  /\ 4 * DataWords <= HalfWord
  /\ \A l \in Lines : l.kind = "D@" => l.val % 4 = 0

(* Two things the format says and the loader takes no notice of, or takes  *)
(* for something else: code starts at the first instruction of a thread,   *)
(* and no comment behind an instruction has a number behind a $.  And what *)
(* malloc leaves behind is told from an instruction that has been loaded.  *)
PlainImages ==
  /\ \A l \in Lines : l.kind = "I@" => l.val = 0
  /\ \A l \in Lines : l.kind = "inst" => l.val.note = NoNote
  /\ Uninitialised \notin Loaded

-----------------------------------------------------------------------------
(* What sim_api.h:33 says of D@: "Each subsequent line up the the next     *)
(* "@"is data value of a 32 bit (hex.) data word".                         *)
DataLinesLoaded == line.kind = "data" => data_i > 0 /\ data[data_i - 1] = line.val
=============================================================================
