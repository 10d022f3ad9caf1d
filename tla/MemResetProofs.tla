---------------------------- MODULE MemResetProofs ----------------------------
(***************************************************************************)
(* Proofs about SIM_MemReset: images whose blocks end with a blank line    *)
(* keep the loader inside its tables, for any number of threads and any    *)
(* room for instructions and data, and however often code blocks come.     *)
(***************************************************************************)
EXTENDS MemReset, TLAPS

LEMMA LineTypes ==
  ASSUME NEW l \in Lines
  PROVE  /\ l.kind \in {"L", "S", "O", "N", "blank", "T", "I@", "D@", "inst", "data"}
         /\ l.kind = "inst" => l.val \in Written
         /\ l.kind \in {"T", "N"} => l.val \in 0 .. N
         /\ l.kind \in Settings => l.val \in Nat
         /\ l.kind \in {"data", "D@"} => l.val \in Word
<1>1. N \in Nat
  BY SizesAssumption
<1>2. QED BY <1>1, LinesAssumption DEF Kinds, Settings

LEMMA Decoded ==
  ASSUME NEW w \in Written
  PROVE  Decode(w) \in Loaded
<1>1. /\ w.opcode \in Opcodes /\ w.dst \in Regs /\ w.src1 \in Regs /\ w.src2 \in Word
      /\ w.src2Reg \in BOOLEAN /\ w.note \in Regs \cup {NoNote}
  BY DEF Written
<1>2. 0 \in Regs /\ 0 \in Word /\ Regs \subseteq Word
  BY SizesAssumption, LinesAssumption DEF Regs, Word
<1>3. "NOP" \in Opcodes /\ "HALT" \in Opcodes
  BY DEF Opcodes
<1>4. CASE w.opcode = "NOP"
  BY <1>3, <1>4 DEF Decode, Loaded
<1>5. CASE w.opcode = "HALT"
  BY <1>1, <1>2, <1>3, <1>5 DEF Decode, Loaded
<1>6. CASE w.opcode \notin {"NOP", "HALT"}
  <2>1. (IF ~w.src2Reg /\ w.note # NoNote THEN w.note ELSE w.src2) \in Word
    BY <1>1, <1>2
  <2>2. (~w.src2Reg /\ w.note = NoNote) \in BOOLEAN
    OBVIOUS
  <2>3. Decode(w) = [opcode |-> w.opcode, dst |-> w.dst, src1 |-> w.src1,
                     src2 |-> IF ~w.src2Reg /\ w.note # NoNote THEN w.note ELSE w.src2,
                     isSrc2Imm |-> ~w.src2Reg /\ w.note = NoNote]
    BY <1>6 DEF Decode
  <2>4. QED BY <1>1, <2>1, <2>2, <2>3 DEF Loaded
<1>7. QED BY <1>4, <1>5, <1>6

LEMMA InitHolds == Init => LoaderInv
<1> SUFFICES ASSUME Init PROVE LoaderInv
  OBVIOUS
<1>1. N \in Nat \ {0} /\ HalfWord \in Nat \ {0} /\ DataWords \in Nat \ {0}
      /\ InstRoom \in Nat \ {0}
  BY SizesAssumption, LinesAssumption
<1>2. TypeOK
  BY <1>1 DEF Init, TypeOK, Settings, Kinds, Cells, Word, Threads, NoThread
<1>3. InFormatSoFar
  BY <1>1 DEF Init, InFormatSoFar, Settings
<1>4. LoopsFollowLines /\ AlwaysDefined
  BY DEF Init, LoopsFollowLines, AlwaysDefined
<1>5. QED BY <1>2, <1>3, <1>4 DEF LoaderInv

(* What reading a line does, in every loop.                                *)
LEMMA ReadKeeps ==
  ASSUME LoaderInv, NEW l \in Lines, fgets(l)
  PROVE  /\ line'.kind \in Kinds
         /\ seen' \subseteq {"N", "T", "D@"}
         /\ length' \in Nat
         /\ l.kind \in {"I@", "D@"} => length' = 0
<1>1. l.kind \in Kinds
  BY LinesAssumption
<1>2. length \in Nat /\ seen \subseteq {"N", "T", "D@"}
  BY DEF LoaderInv, TypeOK
<1>3. QED BY <1>1, <1>2 DEF fgets

LEMMA HeaderKeeps ==
  ASSUME LoaderInv, NEW l \in Lines, HeaderLine(l)
  PROVE  LoaderInv'
<1>1. N \in Nat \ {0} /\ InstRoom \in Nat \ {0}
  BY SizesAssumption, LinesAssumption
<1>2. /\ line'.kind \in Kinds /\ seen' \subseteq {"N", "T", "D@"} /\ length' \in Nat
      /\ l.kind \in {"I@", "D@"} => length' = 0
  BY ReadKeeps DEF HeaderLine
<1>3. "N" \notin seen /\ "T" \notin seen /\ settings["N"] = 0
      /\ line.kind \in Settings \cup {"blank"} /\ phase = "header"
  BY DEF LoaderInv, LoopsFollowLines, InFormatSoFar, HeaderLine
<1>4. l.kind \in Settings \cup {"blank"} /\ line' = l
  BY <1>3, LineTypes DEF HeaderLine, fgets, InFormat, Settings
<1>5. CASE l.kind = "N"
  <2>1. l.val \in 0 .. N
    BY <1>5, LineTypes
  <2>2. settings' \in [Settings -> Nat] /\ settings'["N"] = l.val
    BY <1>5, <2>1 DEF LoaderInv, TypeOK, HeaderLine, Settings
  <2>3. seen' = seen \cup {"N"}
    BY <1>5 DEF HeaderLine, fgets
  <2>4. /\ phase' = "blocks"
        /\ instructions' = [t \in 0 .. l.val - 1 |->
                              [i \in 0 .. InstRoom - 1 |-> Uninitialised]]
        /\ UNCHANGED <<tid, inst, data_start, data, data_i>>
    BY <1>5 DEF HeaderLine
  <2>5. TypeOK'
    BY <1>2, <2>2, <2>4 DEF LoaderInv, TypeOK
  <2>6. InFormatSoFar'
    BY <1>3, <2>1, <2>2, <2>3 DEF InFormatSoFar
  <2>7. LoopsFollowLines' /\ AlwaysDefined'
    BY <1>4, <1>5, <2>3, <2>4 DEF LoopsFollowLines, AlwaysDefined
  <2>8. QED BY <2>5, <2>6, <2>7 DEF LoaderInv
<1>6. CASE l.kind # "N"
  <2>1. settings' \in [Settings -> Nat] /\ settings'["N"] = 0
    BY <1>3, <1>6, LineTypes DEF LoaderInv, TypeOK, HeaderLine, Settings
  <2>2. seen' = seen
    BY <1>4, <1>6 DEF HeaderLine, fgets, Settings
  <2>3. UNCHANGED <<phase, instructions, tid, inst, data_start, data, data_i>>
    BY <1>6 DEF HeaderLine
  <2>4. TypeOK'
    BY <1>2, <1>3, <2>1, <2>3 DEF LoaderInv, TypeOK
  <2>5. InFormatSoFar'
    BY <1>1, <1>3, <2>1, <2>2 DEF InFormatSoFar
  <2>6. LoopsFollowLines' /\ AlwaysDefined'
    BY <1>3, <1>4, <2>2, <2>3 DEF LoopsFollowLines, AlwaysDefined, Settings
  <2>7. QED BY <2>4, <2>5, <2>6 DEF LoaderInv
<1>7. QED BY <1>5, <1>6

(* Behind the header the number of threads stands.                         *)
LEMMA BodyRead ==
  ASSUME LoaderInv, NEW l \in Lines, fgets(l), "N" \in seen, UNCHANGED settings,
         l.kind # "T" => tid' = tid, l.kind = "T" => tid' = l.val
  PROVE  /\ l.kind \notin Settings
         /\ "N" \in seen' /\ ("T" \in seen => "T" \in seen')
         /\ tid' \in Threads \cup {NoThread}
         /\ InFormatSoFar'
<1>1. l.kind \notin Settings
  BY DEF fgets, InFormat
<1>2. "N" \in seen' /\ (l.kind = "T" => "T" \in seen')
      /\ (l.kind # "T" => ("T" \in seen <=> "T" \in seen'))
  BY DEF fgets
<1>3. l.kind = "T" => l.val \in 0 .. N /\ l.val < settings["N"]
  BY LineTypes DEF fgets, InFormat
<1>4. settings["N"] \in Nat /\ settings["N"] <= N /\ N \in Nat
  BY SizesAssumption DEF LoaderInv, TypeOK, InFormatSoFar, Settings
<1>5. tid' \in Threads \cup {NoThread}
  BY <1>3, <1>4 DEF LoaderInv, TypeOK, Threads
<1>6. "T" \in seen' => tid' \in 0 .. settings["N"] - 1
  BY <1>2, <1>3, <1>4 DEF LoaderInv, InFormatSoFar
<1>7. InFormatSoFar'
  BY <1>2, <1>4, <1>6 DEF InFormatSoFar
<1>8. QED BY <1>1, <1>2, <1>5, <1>7

LEMMA BlocksKeeps ==
  ASSUME LoaderInv, NEW l \in Lines, BlocksLine(l)
  PROVE  LoaderInv'
<1>1. "N" \in seen /\ line.kind \in {"N", "T", "blank"}
  BY DEF LoaderInv, LoopsFollowLines, BlocksLine
<1>2. /\ line'.kind \in Kinds /\ seen' \subseteq {"N", "T", "D@"} /\ length' \in Nat
      /\ l.kind \in {"I@", "D@"} => length' = 0
  BY ReadKeeps DEF BlocksLine
<1>3. /\ l.kind \notin Settings
      /\ "N" \in seen' /\ ("T" \in seen => "T" \in seen')
      /\ tid' \in Threads \cup {NoThread}
      /\ InFormatSoFar'
  BY <1>1, BodyRead DEF BlocksLine
<1>4. l.kind \in {"blank", "T", "I@", "D@"} /\ line' = l
  BY <1>1, <1>3, LineTypes DEF BlocksLine, fgets, InFormat, Settings
<1>5. l.kind = "I@" => "T" \in seen
  BY DEF BlocksLine, fgets, InFormat
<1>6. TypeOK'
  <2>1. 0 \in 0 .. InstRoom /\ 0 \in 0 .. DataWords
    BY SizesAssumption, LinesAssumption
  <2>2. phase' \in {"blocks", "code", "data"}
    BY DEF BlocksLine
  <2>3. inst' \in 0 .. InstRoom
    BY <2>1 DEF LoaderInv, TypeOK, BlocksLine
  <2>4. data_start' \in Word /\ data_i' \in 0 .. DataWords
    BY <2>1, LineTypes DEF LoaderInv, TypeOK, BlocksLine
  <2>5. UNCHANGED <<settings, instructions, data>>
    BY DEF BlocksLine
  <2>6. QED BY <1>2, <1>3, <2>2, <2>3, <2>4, <2>5 DEF LoaderInv, TypeOK
<1>7. LoopsFollowLines'
  <2>1. CASE l.kind = "I@"
    <3>1. phase' = "code" /\ inst' = 0
      BY <2>1 DEF BlocksLine
    <3>2. QED BY <1>2, <1>3, <1>4, <1>5, <2>1, <3>1 DEF LoopsFollowLines
  <2>2. CASE l.kind = "D@"
    <3>1. phase' = "data" /\ data_i' = 0
      BY <2>2 DEF BlocksLine
    <3>2. QED BY <1>2, <1>3, <1>4, <2>2, <3>1 DEF LoopsFollowLines
  <2>3. CASE l.kind \in {"blank", "T"}
    <3>1. phase' = "blocks"
      BY <2>3 DEF BlocksLine
    <3>2. QED BY <1>3, <1>4, <2>3, <3>1 DEF LoopsFollowLines
  <2>4. QED BY <1>4, <2>1, <2>2, <2>3
<1>8. AlwaysDefined'
  BY DEF BlocksLine, AlwaysDefined
<1>9. QED BY <1>3, <1>6, <1>7, <1>8 DEF LoaderInv

LEMMA CodeKeeps ==
  ASSUME OrdinaryImages, LoaderInv, NEW l \in Lines, CodeLine(l)
  PROVE  LoaderInv'
<1>1. "N" \in seen /\ "T" \in seen /\ line.kind \in {"I@", "inst"} /\ inst = length
  BY DEF LoaderInv, LoopsFollowLines, CodeLine
<1>2. /\ line'.kind \in Kinds /\ seen' \subseteq {"N", "T", "D@"} /\ length' \in Nat
      /\ l.kind \in {"I@", "D@"} => length' = 0
  BY ReadKeeps DEF CodeLine
<1>3. l.kind \in {"inst", "blank"} /\ line' = l
  BY <1>1, LineTypes DEF CodeLine, fgets, InFormat, OrdinaryImages, Settings
<1>4. /\ "N" \in seen' /\ ("T" \in seen => "T" \in seen')
      /\ tid' \in Threads \cup {NoThread}
      /\ InFormatSoFar'
  BY <1>1, <1>3, BodyRead DEF CodeLine
<1>5. CASE l.kind = "blank"
  <2>1. phase' = "blocks"
        /\ UNCHANGED <<instructions, inst, settings, data_start, data, data_i>>
    BY <1>5 DEF CodeLine
  <2>2. TypeOK'
    BY <1>2, <1>4, <2>1 DEF LoaderInv, TypeOK
  <2>3. LoopsFollowLines' /\ AlwaysDefined'
    BY <1>3, <1>4, <1>5, <2>1 DEF LoopsFollowLines, AlwaysDefined
  <2>4. QED BY <1>4, <2>2, <2>3 DEF LoaderInv
<1>6. CASE l.kind = "inst"
  <2>1. length < InstRoom /\ length' = length + 1
    BY <1>6 DEF CodeLine, fgets, InFormat
  <2>2. inst \in 0 .. InstRoom - 1 /\ inst + 1 \in 0 .. InstRoom
    BY <1>1, <2>1, LinesAssumption DEF LoaderInv, TypeOK
  <2>3. tid \in DOMAIN instructions
    BY <1>1 DEF LoaderInv, TypeOK, InFormatSoFar
  <2>4. Decodable(l)
    BY <1>6 DEF Decodable, OrdinaryImages
  <2>5. /\ instructions' = [instructions EXCEPT ![tid][inst] = Decode(l.val)]
        /\ inst' = inst + 1
        /\ UNCHANGED <<phase, settings, tid, data_start, data, data_i>>
    <3>1. inst < InstRoom
      BY <1>1, <2>1
    <3>2. QED BY <1>6, <2>3, <2>4, <3>1 DEF CodeLine
  <2>6. DOMAIN instructions' = DOMAIN instructions
    BY <2>5
  <2>7. ASSUME NEW t \in DOMAIN instructions
        PROVE  instructions'[t] \in [0 .. InstRoom - 1 -> Loaded \cup {Uninitialised}]
    <3>1. instructions[t] \in [0 .. InstRoom - 1 -> Loaded \cup {Uninitialised}]
      BY DEF LoaderInv, TypeOK
    <3>2. Decode(l.val) \in Loaded
      BY <1>6, LineTypes, Decoded
    <3>3. CASE t = tid
      <4>1. instructions'[t] = [instructions[t] EXCEPT ![inst] = Decode(l.val)]
        BY <2>3, <2>5, <3>3
      <4>2. QED BY <3>1, <3>2, <4>1
    <3>4. CASE t # tid
      BY <2>5, <3>1, <3>4
    <3>5. QED BY <3>3, <3>4
  <2>8. TypeOK'
    BY <1>2, <2>2, <2>5, <2>6, <2>7 DEF LoaderInv, TypeOK
  <2>9. LoopsFollowLines' /\ AlwaysDefined'
    BY <1>1, <1>3, <1>4, <1>6, <2>1, <2>5 DEF LoaderInv, CodeLine, LoopsFollowLines, AlwaysDefined
  <2>10. QED BY <1>4, <2>8, <2>9 DEF LoaderInv
<1>7. QED BY <1>3, <1>5, <1>6

LEMMA DataKeeps ==
  ASSUME OrdinaryImages, LoaderInv, NEW l \in Lines, DataLine(l)
  PROVE  LoaderInv'
<1>1. "N" \in seen /\ line.kind \in {"D@", "data"} /\ data_i = length
  BY DEF LoaderInv, LoopsFollowLines, DataLine
<1>2. /\ line'.kind \in Kinds /\ seen' \subseteq {"N", "T", "D@"} /\ length' \in Nat
      /\ l.kind \in {"I@", "D@"} => length' = 0
  BY ReadKeeps DEF DataLine
<1>3. l.kind \in {"data", "blank"} /\ line' = l
  BY <1>1, LineTypes DEF DataLine, fgets, InFormat, OrdinaryImages, Settings
<1>4. /\ "N" \in seen' /\ ("T" \in seen => "T" \in seen')
      /\ tid' \in Threads \cup {NoThread}
      /\ InFormatSoFar'
  BY <1>1, <1>3, BodyRead DEF DataLine
<1>5. CASE l.kind = "blank"
  <2>1. phase' = "blocks"
        /\ UNCHANGED <<instructions, inst, settings, data_start, data, data_i>>
    BY <1>5 DEF DataLine
  <2>2. TypeOK'
    BY <1>2, <1>4, <2>1 DEF LoaderInv, TypeOK
  <2>3. LoopsFollowLines' /\ AlwaysDefined'
    BY <1>3, <1>4, <1>5, <2>1 DEF LoopsFollowLines, AlwaysDefined
  <2>4. QED BY <1>4, <2>2, <2>3 DEF LoaderInv
<1>6. CASE l.kind = "data"
  <2>1. length < DataWords /\ length' = length + 1
    BY <1>6 DEF DataLine, fgets, InFormat
  <2>2. data_i \in Cells /\ data_i + 1 \in 0 .. DataWords
    BY <1>1, <2>1, SizesAssumption DEF LoaderInv, TypeOK, Cells
  <2>3. /\ data' = [data EXCEPT ![data_i] = l.val]
        /\ data_i' = data_i + 1
        /\ UNCHANGED <<phase, settings, instructions, tid, inst, data_start>>
    BY <1>6, <2>2 DEF DataLine
  <2>4. data' \in [Cells -> Word]
    BY <1>6, <2>3, LineTypes DEF LoaderInv, TypeOK
  <2>5. TypeOK'
    BY <1>2, <2>2, <2>3, <2>4 DEF LoaderInv, TypeOK
  <2>6. LoopsFollowLines' /\ AlwaysDefined'
    BY <1>1, <1>3, <1>4, <1>6, <2>1, <2>3 DEF LoaderInv, DataLine, LoopsFollowLines, AlwaysDefined
  <2>7. QED BY <1>4, <2>5, <2>6 DEF LoaderInv
<1>7. QED BY <1>3, <1>5, <1>6

LEMMA StepHolds ==
  ASSUME OrdinaryImages
  PROVE  LoaderInv /\ [Next]_vars => LoaderInv'
<1> SUFFICES ASSUME LoaderInv, [Next]_vars PROVE LoaderInv'
  OBVIOUS
<1>1. ASSUME NEW l \in Lines, HeaderLine(l) PROVE LoaderInv'
  BY <1>1, HeaderKeeps
<1>2. ASSUME NEW l \in Lines, BlocksLine(l) PROVE LoaderInv'
  BY <1>2, BlocksKeeps
<1>3. ASSUME NEW l \in Lines, CodeLine(l) PROVE LoaderInv'
  BY <1>3, CodeKeeps
<1>4. ASSUME NEW l \in Lines, DataLine(l) PROVE LoaderInv'
  BY <1>4, DataKeeps
<1>5. CASE EndOfFile
  BY <1>5 DEF EndOfFile, LoaderInv, TypeOK, InFormatSoFar, LoopsFollowLines, AlwaysDefined
<1>6. CASE UNCHANGED vars
  BY <1>6 DEF vars, LoaderInv, TypeOK, InFormatSoFar, LoopsFollowLines, AlwaysDefined
<1>7. QED BY <1>1, <1>2, <1>3, <1>4, <1>5, <1>6 DEF Next, Stopped

(* The loader keeps what its loops rely on from line to line               *)
(* (sim_api.c:172-244).                                                    *)
THEOREM LoaderInvariance ==
  ASSUME OrdinaryImages
  PROVE  Spec => []LoaderInv
<1>1. LoaderInv /\ [Next]_vars => LoaderInv'
  BY StepHolds
<1>2. QED BY <1>1, InitHolds, PTL DEF Spec

(* The tables the loader fills hold instructions and words                 *)
(* (sim_api.c:60-135).                                                     *)
THEOREM LoaderTypes ==
  ASSUME OrdinaryImages
  PROVE  Spec => []TypeOK
<1>1. LoaderInv => TypeOK
  BY DEF LoaderInv
<1>2. QED BY <1>1, LoaderInvariance, PTL

(* The loader never writes outside its tables, for images with any number  *)
(* of blocks and up to full rooms (sim_api.c:147, 200, 17).                *)
THEOREM LoaderAlwaysDefined ==
  ASSUME OrdinaryImages
  PROVE  Spec => []AlwaysDefined
<1>1. LoaderInv => AlwaysDefined
  BY DEF LoaderInv
<1>2. QED BY <1>1, LoaderInvariance, PTL

-----------------------------------------------------------------------------
LEMMA OneTurnBack ==
  ASSUME NEW z \in Int, NEW k \in Nat \ {0}, z + k \in 0 .. k - 1
  PROVE  z % k = z + k
<1>1. z = (-1) * k + (z + k)
  OBVIOUS
<1>2. QED BY <1>1, SMTT(20)

(* Addresses: what wrapping does to a sum or difference of two words.      *)
LEMMA Wrapped ==
  ASSUME NEW x \in Int
  PROVE  /\ x \in Word => Wrap(x) = x
         /\ x - 2 * HalfWord \in Word => Wrap(x) = x - 2 * HalfWord
         /\ x + 2 * HalfWord \in Word => Wrap(x) = x + 2 * HalfWord
<1> DEFINE y == x + HalfWord
           m == 2 * HalfWord
<1>1. HalfWord \in Nat \ {0} /\ m \in Nat \ {0} /\ y \in Int
  BY SizesAssumption
<1>2. ASSUME NEW z \in Int, NEW k \in Nat \ {0}
      PROVE  /\ z \in 0 .. k - 1 => z % k = z
             /\ z - k \in 0 .. k - 1 => z % k = z - k
             /\ z + k \in 0 .. k - 1 => z % k = z + k
  <2>1. CASE z \in 0 .. k - 1
    BY <2>1
  <2>2. ASSUME z - k \in 0 .. k - 1 PROVE z % k = z - k
    <3>1. z = k * 1 + (z - k)
      OBVIOUS
    <3>2. QED BY <2>2, <3>1
  <2>3. ASSUME z + k \in 0 .. k - 1 PROVE z % k = z + k
    BY <2>3, OneTurnBack
  <2>4. QED BY <2>1, <2>2, <2>3
<1>3. /\ y \in 0 .. m - 1 => y % m = y
      /\ y - m \in 0 .. m - 1 => y % m = y - m
      /\ y + m \in 0 .. m - 1 => y % m = y + m
  <2> HIDE DEF y, m
  <2>1. QED BY <1>1, <1>2
<1>4. Wrap(x) = (y % m) - HalfWord
  BY DEF Wrap
<1>5. QED
  <2>1. x \in Word => y \in 0 .. m - 1
    BY <1>1 DEF Word
  <2>2. x - m \in Word => y - m \in 0 .. m - 1
    BY <1>1 DEF Word
  <2>3. x + m \in Word => y + m \in 0 .. m - 1
    BY <1>1 DEF Word
  <2> HIDE DEF m
  <2>4. QED BY <1>1, <1>3, <1>4, <2>1, <2>2, <2>3 DEF m

LEMMA WrapCases ==
  ASSUME NEW x \in Int, -2 * HalfWord <= x, x < 2 * HalfWord
  PROVE  \/ x \in Word /\ Wrap(x) = x
         \/ x - 2 * HalfWord \in Word /\ Wrap(x) = x - 2 * HalfWord
         \/ x + 2 * HalfWord \in Word /\ Wrap(x) = x + 2 * HalfWord
<1>1. x \in Word \/ x - 2 * HalfWord \in Word \/ x + 2 * HalfWord \in Word
  BY SizesAssumption DEF Word
<1>2. QED BY <1>1, Wrapped

(* The offset of an address, and back.                                     *)
LEMMA WrapBack ==
  ASSUME NEW a \in Word, NEW start \in Word
  PROVE  /\ \E k \in {-1, 0, 1} : Wrap(a - start) = a - start + k * (2 * HalfWord)
         /\ Wrap(a - start) \in Word
         /\ \A d \in Word : Wrap(a - start) = d <=> a = Wrap(start + d)
<1>1. HalfWord \in Nat \ {0}
  BY SizesAssumption
<1>2. \/ a - start \in Word /\ Wrap(a - start) = a - start
      \/ a - start - 2 * HalfWord \in Word /\ Wrap(a - start) = a - start - 2 * HalfWord
      \/ a - start + 2 * HalfWord \in Word /\ Wrap(a - start) = a - start + 2 * HalfWord
  BY <1>1, WrapCases DEF Word
<1>3. ASSUME NEW d \in Word
      PROVE  Wrap(a - start) = d <=> a = Wrap(start + d)
  <2>1. \/ start + d \in Word /\ Wrap(start + d) = start + d
        \/ start + d - 2 * HalfWord \in Word /\ Wrap(start + d) = start + d - 2 * HalfWord
        \/ start + d + 2 * HalfWord \in Word /\ Wrap(start + d) = start + d + 2 * HalfWord
    BY <1>1, WrapCases DEF Word
  <2>2. QED BY <1>1, <1>2, <2>1 DEF Word
<1>4. \E k \in {-1, 0, 1} : Wrap(a - start) = a - start + k * (2 * HalfWord)
  BY <1>1, <1>2 DEF Word
<1>5. Wrap(a - start) \in Word
  BY <1>2
<1>6. QED BY <1>3, <1>4, <1>5

(* The index of an aligned address, with no rounding left in it.           *)
LEMMA IndexOfAddress ==
  ASSUME HalfWord % 2 = 0, NEW start \in Word, start % 4 = 0, NEW a \in Addresses
  PROVE  /\ DataIndexFrom(start, a) \in Int
         /\ Wrap(a - start) = 4 * DataIndexFrom(start, a)
<1> DEFINE offset == Wrap(a - start)
<1>1. a \in Word /\ a % 4 = 0
  BY DEF Addresses
<1>2. a \in Int /\ start \in Int /\ HalfWord \in Int
  BY <1>1, SizesAssumption DEF Word
<1>3. PICK k \in {-1, 0, 1} : offset = a - start + k * (2 * HalfWord)
  BY <1>1, WrapBack
<1>4. offset \in Int /\ offset % 4 = 0
  <2> HIDE DEF offset
  <2>1. (2 * HalfWord) % 4 = 0
    BY <1>2
  <2>2. offset \in {a - start - 2 * HalfWord, a - start, a - start + 2 * HalfWord}
    BY <1>2, <1>3
  <2>3. QED BY <1>1, <1>2, <2>1, <2>2
<1>5. DataIndexFrom(start, a) = IF offset >= 0 THEN offset \div 4 ELSE -((-offset) \div 4)
  BY DEF DataIndexFrom
<1> HIDE DEF offset
<1>6. DataIndexFrom(start, a) \in Int /\ offset = 4 * DataIndexFrom(start, a)
  BY <1>4, <1>5
<1>7. QED BY <1>6 DEF offset

LEMMA OwnWords ==
  ASSUME OrdinaryBlock, data_start \in Word, data_start % 4 = 0
  PROVE  AddressesHitOwnWord
<1> DEFINE index(a) == DataIndexFrom(data_start, a)
<1>1. HalfWord % 2 = 0 /\ 4 * DataWords <= HalfWord
      /\ HalfWord \in Nat \ {0} /\ DataWords \in Nat \ {0}
  BY SizesAssumption DEF OrdinaryBlock
<1>2. Addresses \subseteq Word
  BY DEF Addresses
<1>3. \A a \in Addresses : index(a) \in Int /\ Wrap(a - data_start) = 4 * index(a)
  BY <1>1, IndexOfAddress
<1>4. \A i \in Cells : i \in Int /\ 4 * i \in Word
  BY <1>1 DEF Cells, Word
<1>5. \A a \in Addresses, d \in Word :
        Wrap(a - data_start) = d <=> a = Wrap(data_start + d)
  BY <1>2, WrapBack
<1>6. ASSUME NEW a \in Addresses
      PROVE  index(a) \in Cells <=> InBlock(a)
  <2>1. ASSUME index(a) \in Cells PROVE InBlock(a)
    <3>1. a = Wrap(data_start + 4 * index(a))
      BY <1>3, <1>4, <1>5, <2>1
    <3>2. QED BY <2>1, <3>1 DEF InBlock
  <2>2. ASSUME InBlock(a) PROVE index(a) \in Cells
    <3>1. PICK i \in Cells : a = Wrap(data_start + 4 * i)
      BY <2>2 DEF InBlock
    <3>2. 4 * index(a) = 4 * i
      BY <1>3, <1>4, <1>5, <3>1
    <3>3. index(a) = i
      BY <1>3, <1>4, <3>2
    <3>4. QED BY <3>3
  <2>3. QED BY <2>1, <2>2
<1>7. ASSUME NEW a \in Addresses, NEW b \in Addresses, InBlock(a), index(a) = index(b)
      PROVE  a = b
  <2>1. 4 * index(a) \in Word
    BY <1>4, <1>6, <1>7
  <2>2. a = Wrap(data_start + 4 * index(a)) /\ b = Wrap(data_start + 4 * index(b))
    BY <1>3, <1>5, <1>7, <2>1
  <2>3. QED BY <1>7, <2>2
<1>8. QED BY <1>6, <1>7 DEF AddressesHitOwnWord

LEMMA BlockAligned ==
  ASSUME OrdinaryBlock
  PROVE  Spec => [](data_start % 4 = 0)
<1>1. Init => data_start % 4 = 0
  BY DEF Init
<1>2. data_start % 4 = 0 /\ [Next]_vars => (data_start % 4 = 0)'
  BY DEF OrdinaryBlock, Next, vars, HeaderLine, BlocksLine, CodeLine, DataLine, EndOfFile, Stopped
<1>3. QED BY <1>1, <1>2, PTL DEF Spec

(* The accessors find the word of each address of the block, and of no     *)
(* other aligned address, wherever the block lies (sim_api.c:253-263).     *)
THEOREM LoaderAddresses ==
  ASSUME OrdinaryImages, OrdinaryBlock
  PROVE  Spec => []AddressesHitOwnWord
<1>1. TypeOK /\ data_start % 4 = 0 => AddressesHitOwnWord
  BY OwnWords DEF TypeOK
<1>2. QED BY <1>1, LoaderTypes, BlockAligned, PTL

-----------------------------------------------------------------------------
(* The loader builds what the lines say.                                   *)

(* Nothing has been written before the block of data begins.               *)
DataInBlock ==
  /\ data_start % 4 = 0
  /\ phase = "data" => "D@" \in seen
  /\ "D@" \notin seen => \A i \in Cells : data[i] = 0

LEMMA DataInBlockKept ==
  ASSUME OrdinaryBlock, LoaderInv, DataInBlock, [Next]_vars
  PROVE  DataInBlock'
<1>1. ASSUME NEW l \in Lines, HeaderLine(l) PROVE DataInBlock'
  BY <1>1 DEF HeaderLine, DataInBlock, fgets
<1>2. ASSUME NEW l \in Lines, BlocksLine(l) PROVE DataInBlock'
  BY <1>2 DEF BlocksLine, DataInBlock, fgets, OrdinaryBlock
<1>3. ASSUME NEW l \in Lines, CodeLine(l) PROVE DataInBlock'
  BY <1>3 DEF CodeLine, DataInBlock, fgets
<1>4. ASSUME NEW l \in Lines, DataLine(l) PROVE DataInBlock'
  BY <1>4 DEF DataLine, DataInBlock, fgets
<1>5. CASE EndOfFile \/ UNCHANGED vars
  BY <1>5 DEF EndOfFile, vars, DataInBlock
<1> QED
  BY <1>1, <1>2, <1>3, <1>4, <1>5 DEF Next, Stopped

LEMMA WrapTwice ==
  ASSUME NEW x \in Int, -HalfWord <= x, x + 4 < 2 * HalfWord, 4 <= HalfWord
  PROVE  Wrap(Wrap(x) + 4) = Wrap(x + 4)
<1>1. HalfWord \in Nat
  BY SizesAssumption
<1>2. /\ Wrap(x) \in Word
      /\ Wrap(x) \in {x, x - 2 * HalfWord, x + 2 * HalfWord}
  BY <1>1, WrapCases
<1>3. /\ Wrap(x + 4) \in Word
      /\ Wrap(x + 4) \in {x + 4, x + 4 - 2 * HalfWord, x + 4 + 2 * HalfWord}
  <2>1. x + 4 \in Int /\ -2 * HalfWord <= x + 4 /\ x + 4 < 2 * HalfWord
    BY <1>1
  <2> QED
    BY <1>1, <2>1, WrapCases
<1>4. PICK y : y = Wrap(x)
  OBVIOUS
<1>5. y \in Word /\ y \in Int /\ y + 4 \in Int /\ -2 * HalfWord <= y + 4 /\ y + 4 < 2 * HalfWord
  BY <1>1, <1>2, <1>4 DEF Word
<1>6. /\ Wrap(y + 4) \in Word
      /\ Wrap(y + 4) \in {y + 4, y + 4 - 2 * HalfWord, y + 4 + 2 * HalfWord}
  BY <1>1, <1>5, WrapCases
<1>7. Wrap(y + 4) = Wrap(x + 4)
  BY <1>1, <1>2, <1>3, <1>4, <1>5, <1>6 DEF Word
<1> QED
  BY <1>4, <1>7

LEMMA CodeSame ==
  ASSUME UNCHANGED instructions
  PROVE  CodeSoFar' = CodeSoFar
BY DEF CodeSoFar

LEMMA MemorySame ==
  ASSUME UNCHANGED <<data, data_start>>, "D@" \in seen' <=> "D@" \in seen
  PROVE  MemorySoFar' = MemorySoFar
BY DEF MemorySoFar

LEMMA Meant ==
  ASSUME PlainImages, NEW l \in Lines, l.kind = "inst"
  PROVE  Essence(Decode(l.val)) = AsWritten(l.val)
<1> DEFINE w == l.val
           written == [opcode |-> w.opcode, dst |-> w.dst, src1 |-> w.src1,
                       src2 |-> w.src2, isSrc2Imm |-> ~w.src2Reg]
<1>1. w \in Written /\ w.note = NoNote
  BY LineTypes DEF PlainImages
<1>2. Decode(w) # Uninitialised /\ Decode(w).opcode = w.opcode
  BY <1>1, Decoded DEF PlainImages, Decode
<1>3. CASE w.opcode \in {"NOP", "HALT"}
  <2>1. Essence(Decode(w)) = [opcode |-> w.opcode]
    BY <1>2, <1>3 DEF Essence
  <2>2. written \in Loaded /\ written.opcode = w.opcode
    BY <1>1 DEF Written, Loaded
  <2>3. Essence(written) = [opcode |-> w.opcode]
    BY <1>3, <2>2 DEF Essence, PlainImages
  <2> QED
    BY <2>1, <2>3 DEF AsWritten
<1>4. CASE w.opcode \notin {"NOP", "HALT"}
  <2>1. Decode(w) = written
    BY <1>1, <1>4 DEF Decode
  <2> QED
    BY <2>1 DEF AsWritten
<1> QED
  BY <1>3, <1>4

LEMMA InitFormat == Init => Format!Init
<1> SUFFICES ASSUME Init PROVE Format!Init
  OBVIOUS
<1>1. Place = 0
  BY DEF Init, Place
<1>2. CodeSoFar = NoCode
  BY DEF Init, CodeSoFar, NoCode
<1>3. MemorySoFar = [a \in {} |-> 0]
  BY DEF Init, MemorySoFar
<1> QED
  BY <1>1, <1>2, <1>3 DEF Init, Format!Init, NoThread

LEMMA HeaderFormat ==
  ASSUME LoaderInv, NEW l \in Lines, HeaderLine(l)
  PROVE  Format!Next
<1>1. "N" \notin seen /\ settings["N"] = 0 /\ line.kind \in Settings \cup {"blank"}
      /\ phase = "header"
  BY DEF LoaderInv, LoopsFollowLines, InFormatSoFar, HeaderLine
<1>2. l.kind \in Settings \cup {"blank"} /\ line' = l
  BY <1>1, LineTypes DEF HeaderLine, fgets, InFormat, Settings
<1>3. UNCHANGED <<tid, data, data_start>> /\ phase' \in {"header", "blocks"}
  BY <1>1 DEF HeaderLine
<1>4. Place' = 0 /\ Place = 0
  BY <1>1, <1>3 DEF Place
<1>5. CodeSoFar' = CodeSoFar
  <2>1. CASE l.kind = "N"
    <3>1. DOMAIN instructions = {}
      BY <1>1 DEF LoaderInv, TypeOK
    <3>2. CodeSoFar = NoCode
      BY <3>1 DEF CodeSoFar, NoCode
    <3>3. instructions' = [t \in 0 .. l.val - 1 |->
                             [i \in 0 .. InstRoom - 1 |-> Uninitialised]]
      BY <2>1 DEF HeaderLine
    <3>4. Essence(Uninitialised) = Uninitialised
      BY DEF Essence
    <3>5. CodeSoFar' = NoCode
      BY <3>3, <3>4 DEF CodeSoFar, NoCode
    <3> QED
      BY <3>2, <3>5
  <2>2. CASE l.kind # "N"
    BY <2>2, CodeSame DEF HeaderLine
  <2> QED
    BY <2>1, <2>2
<1>6. MemorySoFar' = MemorySoFar
  <2>1. "D@" \in seen' <=> "D@" \in seen
    BY <1>2 DEF HeaderLine, fgets, Settings
  <2> QED
    BY <1>3, <2>1, MemorySame
<1>7. CASE l.kind \in Settings
  <2>1. Format!Setting
    BY <1>2, <1>3, <1>4, <1>5, <1>6, <1>7 DEF HeaderLine, Format!Setting
  <2> QED
    BY <1>2, <2>1 DEF Format!Next
<1>8. CASE l.kind = "blank"
  <2>1. Format!Blank
    BY <1>2, <1>3, <1>4, <1>5, <1>6, <1>8 DEF HeaderLine, Settings, Format!Blank
  <2> QED
    BY <1>2, <2>1 DEF Format!Next
<1> QED
  BY <1>2, <1>7, <1>8

(* The words of a block are found in data[].                               *)
LEMMA IndexInBlock ==
  ASSUME OrdinaryBlock, NEW start \in Word, start % 4 = 0, NEW a \in BlockAt(start)
  PROVE  DataIndexFrom(start, a) \in Cells
<1> DEFINE index == DataIndexFrom(start, a)
<1>1. HalfWord % 2 = 0 /\ 4 * DataWords <= HalfWord
      /\ HalfWord \in Nat \ {0} /\ DataWords \in Nat \ {0}
  BY SizesAssumption DEF OrdinaryBlock
<1>2. a \in Addresses /\ a \in Word
  BY DEF BlockAt, Addresses
<1>3. index \in Int /\ Wrap(a - start) = 4 * index
  BY <1>1, <1>2, IndexOfAddress
<1>4. PICK i \in Cells : a = Wrap(start + 4 * i)
  BY DEF BlockAt
<1>5. i \in Int /\ 4 * i \in Word
  BY <1>1 DEF Cells, Word
<1>6. PICK d \in Word : d = 4 * i
  BY <1>5
<1>7. Wrap(a - start) = d
  BY <1>2, <1>4, <1>6, WrapBack
<1> HIDE DEF index
<1>8. index = i
  BY <1>3, <1>5, <1>6, <1>7
<1> QED
  BY <1>8 DEF index

LEMMA BlocksFormat ==
  ASSUME OrdinaryBlock, PlainImages, LoaderInv, DataInBlock, NEW l \in Lines, BlocksLine(l)
  PROVE  Format!Next
<1>1. "N" \in seen /\ line.kind \in {"N", "T", "blank"} /\ phase = "blocks"
  BY DEF LoaderInv, LoopsFollowLines, BlocksLine
<1>2. l.kind \in {"blank", "T", "I@", "D@"} /\ line' = l
  BY <1>1, LineTypes DEF BlocksLine, fgets, InFormat, Settings
<1>3. UNCHANGED <<settings, instructions, data>> /\ Place = 0
  BY <1>1 DEF BlocksLine, Place
<1>4. CodeSoFar' = CodeSoFar
  BY <1>3, CodeSame
<1>5. l.kind # "D@" => MemorySoFar' = MemorySoFar
  BY <1>3, MemorySame DEF BlocksLine, fgets
<1>6. CASE l.kind = "blank"
  <2>1. Place' = 0 /\ UNCHANGED tid
    BY <1>6 DEF BlocksLine, Place
  <2>2. Format!Blank
    BY <1>2, <1>3, <1>4, <1>5, <1>6, <2>1 DEF Format!Blank
  <2> QED
    BY <1>2, <2>2 DEF Format!Next
<1>7. CASE l.kind = "T"
  <2>1. Place' = 0 /\ tid' = l.val
    BY <1>7 DEF BlocksLine, Place
  <2>2. Format!Thread
    BY <1>2, <1>3, <1>4, <1>5, <1>7, <2>1 DEF Format!Thread
  <2> QED
    BY <1>2, <2>2 DEF Format!Next
<1>8. CASE l.kind = "I@"
  <2>1. phase' = "code" /\ inst' = 0 /\ UNCHANGED tid
    BY <1>8 DEF BlocksLine
  <2>2. Place' = 0
    BY <2>1 DEF Place
  <2>3. l.val = 0
    BY <1>8 DEF PlainImages
  <2>4. Format!CodeSegment
    BY <1>2, <1>3, <1>4, <1>5, <1>8, <2>1, <2>2, <2>3 DEF Format!CodeSegment
  <2> QED
    BY <1>2, <2>4 DEF Format!Next
<1>9. CASE l.kind = "D@"
  <2>1. phase' = "data" /\ data_start' = l.val /\ data_i' = 0 /\ UNCHANGED tid
    BY <1>9 DEF BlocksLine
  <2>2. l.val \in Word /\ l.val \in Int
    BY <1>9, LineTypes DEF Word
  <2>3. Place' = Wrap(l.val + 4 * 0)
    BY <2>1 DEF Place
  <2>4. l.val + 4 * 0 = l.val
    BY <2>2
  <2>5. Place' = l.val
    BY <2>2, <2>3, <2>4, Wrapped
  <2>6. MemorySoFar' = [a \in BlockAt(l.val) |-> 0]
    <3>1. "D@" \notin seen /\ "D@" \in seen'
      BY <1>9 DEF BlocksLine, fgets, InFormat
    <3>2. \A i \in Cells : data'[i] = 0
      BY <1>3, <3>1 DEF DataInBlock
    <3>3. l.val % 4 = 0
      BY <1>9 DEF OrdinaryBlock
    <3>4. ASSUME NEW a \in BlockAt(l.val)
          PROVE  DataIndexFrom(l.val, a) \in Cells
      BY <2>2, <3>3, IndexInBlock
    <3>5. MemorySoFar' = [a \in BlockAt(l.val) |-> data'[DataIndexFrom(l.val, a)]]
      BY <2>1, <3>1 DEF MemorySoFar
    <3> QED
      BY <3>2, <3>4, <3>5
  <2>7. Format!DataSegment
    BY <1>2, <1>3, <1>4, <1>9, <2>1, <2>5, <2>6 DEF Format!DataSegment
  <2> QED
    BY <1>2, <2>7 DEF Format!Next
<1> QED
  BY <1>2, <1>6, <1>7, <1>8, <1>9

LEMMA CodeFormat ==
  ASSUME OrdinaryImages, PlainImages, LoaderInv, NEW l \in Lines, CodeLine(l)
  PROVE  Format!Next
<1>1. "T" \in seen /\ line.kind \in {"I@", "inst"} /\ inst = length /\ phase = "code"
  BY DEF LoaderInv, LoopsFollowLines, CodeLine
<1>2. l.kind \in {"inst", "blank"} /\ line' = l
  BY <1>1, LineTypes DEF CodeLine, fgets, InFormat, OrdinaryImages, Settings
<1>3. UNCHANGED <<settings, tid, data, data_start>> /\ Place = inst
  BY <1>1 DEF CodeLine, Place
<1>4. MemorySoFar' = MemorySoFar
  BY <1>2, <1>3, MemorySame DEF CodeLine, fgets
<1>5. CASE l.kind = "blank"
  <2>1. phase' = "blocks" /\ UNCHANGED instructions
    BY <1>5 DEF CodeLine
  <2>2. Place' = 0 /\ CodeSoFar' = CodeSoFar
    BY <2>1, CodeSame DEF Place
  <2>3. Format!Blank
    BY <1>2, <1>3, <1>4, <1>5, <2>2 DEF Format!Blank
  <2> QED
    BY <1>2, <2>3 DEF Format!Next
<1>6. CASE l.kind = "inst"
  <2>1. /\ length < InstRoom /\ inst < InstRoom /\ inst \in 0 .. InstRoom - 1
        /\ tid \in DOMAIN instructions /\ tid \in Threads
    <3>1. length < InstRoom
      BY <1>6 DEF CodeLine, fgets, InFormat
    <3>2. InstRoom \in Nat /\ N \in Nat
      BY SizesAssumption, LinesAssumption
    <3>3. tid \in 0 .. settings["N"] - 1 /\ settings["N"] <= N /\ settings["N"] \in Nat
      BY <1>1 DEF LoaderInv, InFormatSoFar, TypeOK, Settings
    <3> QED
      BY <1>1, <3>1, <3>2, <3>3 DEF LoaderInv, TypeOK, Threads
  <2>2. Decodable(l)
    BY <1>6 DEF Decodable, OrdinaryImages
  <2>3. /\ instructions' = [instructions EXCEPT ![tid][inst] = Decode(l.val)]
        /\ inst' = inst + 1 /\ UNCHANGED phase
    BY <1>6, <2>1, <2>2 DEF CodeLine
  <2>4. Place' = inst + 1
    BY <1>1, <2>3 DEF Place
  <2>5. CodeSoFar' = [CodeSoFar EXCEPT ![tid][inst] = AsWritten(l.val)]
    <3> DEFINE changed == [CodeSoFar EXCEPT ![tid][inst] = AsWritten(l.val)]
               Shown(t) == IF t \in DOMAIN instructions
                           THEN [i \in 0 .. InstRoom - 1 |-> Essence(instructions'[t][i])]
                           ELSE NoCode[t]
    <3>1. DOMAIN instructions' = DOMAIN instructions
      BY <2>3
    <3>2. CodeSoFar' = [t \in Threads |-> Shown(t)]
      BY <3>1 DEF CodeSoFar
    <3>3. changed = [t \in Threads |-> IF t = tid
                                       THEN [CodeSoFar[tid] EXCEPT ![inst] = AsWritten(l.val)]
                                       ELSE CodeSoFar[t]]
      BY DEF CodeSoFar
    <3>4. ASSUME NEW t \in Threads, t # tid PROVE Shown(t) = CodeSoFar[t]
      BY <2>3, <3>4 DEF CodeSoFar
    <3>5. Shown(tid) = [CodeSoFar[tid] EXCEPT ![inst] = AsWritten(l.val)]
      <4>1. CodeSoFar[tid] = [i \in 0 .. InstRoom - 1 |-> Essence(instructions[tid][i])]
        BY <2>1 DEF CodeSoFar
      <4>2. instructions[tid] \in [0 .. InstRoom - 1 -> Loaded \cup {Uninitialised}]
        BY <2>1 DEF LoaderInv, TypeOK
      <4>3. \A i \in 0 .. InstRoom - 1 :
              instructions'[tid][i] = IF i = inst THEN Decode(l.val) ELSE instructions[tid][i]
        BY <2>1, <2>3, <4>2
      <4>4. Essence(Decode(l.val)) = AsWritten(l.val)
        BY <1>6, Meant
      <4>5. Shown(tid) = [i \in 0 .. InstRoom - 1 |-> Essence(instructions'[tid][i])]
        BY <2>1
      <4>6. [CodeSoFar[tid] EXCEPT ![inst] = AsWritten(l.val)]
              = [i \in 0 .. InstRoom - 1 |->
                   IF i = inst THEN AsWritten(l.val) ELSE Essence(instructions[tid][i])]
        BY <4>1
      <4>7. \A i \in 0 .. InstRoom - 1 :
              Essence(instructions'[tid][i])
                = IF i = inst THEN AsWritten(l.val) ELSE Essence(instructions[tid][i])
        BY <4>3, <4>4
      <4> HIDE DEF Shown
      <4> QED
        BY <4>5, <4>6, <4>7
    <3> HIDE DEF Shown
    <3> QED
      BY <3>2, <3>3, <3>4, <3>5
  <2>6. Format!Instruction
    BY <1>2, <1>3, <1>4, <1>6, <2>4, <2>5 DEF Format!Instruction
  <2> QED
    BY <1>2, <2>6 DEF Format!Next
<1> QED
  BY <1>2, <1>5, <1>6

LEMMA DataFormat ==
  ASSUME OrdinaryImages, OrdinaryBlock, LoaderInv, DataInBlock,
         NEW l \in Lines, DataLine(l)
  PROVE  Format!Next
<1>1. line.kind \in {"D@", "data"} /\ data_i = length /\ phase = "data"
  BY DEF LoaderInv, LoopsFollowLines, DataLine
<1>2. l.kind \in {"data", "blank"} /\ line' = l
  BY <1>1, LineTypes DEF DataLine, fgets, InFormat, OrdinaryImages, Settings
<1>3. /\ UNCHANGED <<settings, tid, instructions, data_start>>
      /\ Place = Wrap(data_start + 4 * data_i)
  BY <1>1 DEF DataLine, Place
<1>4. CodeSoFar' = CodeSoFar /\ "D@" \in seen /\ "D@" \in seen'
  BY <1>1, <1>3, CodeSame DEF DataInBlock, DataLine, fgets
<1>5. CASE l.kind = "blank"
  <2>1. phase' = "blocks" /\ UNCHANGED data
    BY <1>5 DEF DataLine
  <2>2. Place' = 0 /\ MemorySoFar' = MemorySoFar
    BY <1>3, <1>4, <2>1, MemorySame DEF Place
  <2>3. Format!Blank
    BY <1>2, <1>3, <1>4, <1>5, <2>2 DEF Format!Blank
  <2> QED
    BY <1>2, <2>3 DEF Format!Next
<1>6. CASE l.kind = "data"
  <2>0. HalfWord \in Nat \ {0} /\ DataWords \in Nat \ {0} /\ 4 * DataWords <= HalfWord
        /\ HalfWord % 2 = 0 /\ data_start \in Word /\ data_start % 4 = 0
    BY SizesAssumption DEF OrdinaryBlock, LoaderInv, TypeOK, DataInBlock
  <2>1. data_i \in Cells
    <3>1. length < DataWords
      BY <1>6 DEF DataLine, fgets, InFormat
    <3> QED
      BY <1>1, <2>0, <3>1 DEF LoaderInv, TypeOK, Cells
  <2>2. /\ data' = [data EXCEPT ![data_i] = l.val]
        /\ data_i' = data_i + 1 /\ UNCHANGED phase
    BY <1>6, <2>1 DEF DataLine
  <2>3. data_i \in Nat /\ data_start + 4 * data_i \in Int /\ data_start \in Int
        /\ 4 * data_i \in Word
    BY <2>0, <2>1 DEF Cells, Word
  <2>4. Place' = Wrap(Place + 4)
    <3>1. Place' = Wrap(data_start + 4 * (data_i + 1))
      BY <1>1, <1>3, <2>2 DEF Place
    <3>2. data_start + 4 * (data_i + 1) = (data_start + 4 * data_i) + 4
      BY <2>3
    <3>3. Wrap(Wrap(data_start + 4 * data_i) + 4) = Wrap((data_start + 4 * data_i) + 4)
      <4>1. -HalfWord <= data_start + 4 * data_i
            /\ (data_start + 4 * data_i) + 4 < 2 * HalfWord /\ 4 <= HalfWord
        BY <2>0, <2>1 DEF Cells, Word
      <4> QED
        BY <2>3, <4>1, WrapTwice
    <3> QED
      BY <1>3, <3>1, <3>2, <3>3
  <2>5. ASSUME NEW a \in Addresses
        PROVE  DataIndexFrom(data_start, a) = data_i <=> a = Place
    <3>1. a \in Word
      BY DEF Addresses
    <3>2. Wrap(a - data_start) = 4 * DataIndexFrom(data_start, a)
          /\ DataIndexFrom(data_start, a) \in Int
      BY <2>0, IndexOfAddress
    <3>3. Wrap(a - data_start) = 4 * data_i <=> a = Place
      <4>1. Wrap(a - data_start) = 4 * data_i <=> a = Wrap(data_start + 4 * data_i)
        <5>1. PICK d \in Word : d = 4 * data_i
          BY <2>3
        <5>2. Wrap(a - data_start) = d <=> a = Wrap(data_start + d)
          BY <2>0, <3>1, WrapBack
        <5> QED
          BY <5>1, <5>2
      <4> QED
        BY <1>3, <4>1
    <3> QED
      BY <2>3, <3>2, <3>3
  <2>6. ASSUME NEW a \in BlockAt(data_start)
        PROVE  data'[DataIndexFrom(data_start, a)]
                 = IF a = Place THEN l.val ELSE data[DataIndexFrom(data_start, a)]
    <3> DEFINE index == DataIndexFrom(data_start, a)
    <3>1. index \in Cells
      BY <2>0, IndexInBlock
    <3>2. index = data_i <=> a = Place
      BY <2>5 DEF BlockAt
    <3>3. data \in [Cells -> Word]
      BY DEF LoaderInv, TypeOK
    <3> HIDE DEF index
    <3>4. data'[index] = IF a = Place THEN l.val ELSE data[index]
      BY <2>1, <2>2, <3>1, <3>2, <3>3
    <3> QED
      BY <3>4 DEF index
  <2>7. MemorySoFar' = [MemorySoFar EXCEPT ![Place] = l.val]
    BY <1>3, <1>4, <2>6 DEF MemorySoFar
  <2>8. Format!Datum
    BY <1>2, <1>3, <1>4, <1>6, <2>4, <2>7 DEF Format!Datum
  <2> QED
    BY <1>2, <2>8 DEF Format!Next
<1> QED
  BY <1>2, <1>5, <1>6

LEMMA StepFormat ==
  ASSUME OrdinaryImages, OrdinaryBlock, PlainImages, LoaderInv, DataInBlock, [Next]_vars
  PROVE  [Format!Next]_(Format!vars)
<1>1. ASSUME NEW l \in Lines, HeaderLine(l) PROVE Format!Next
  BY <1>1, HeaderFormat
<1>2. ASSUME NEW l \in Lines, BlocksLine(l) PROVE Format!Next
  BY <1>2, BlocksFormat
<1>3. ASSUME NEW l \in Lines, CodeLine(l) PROVE Format!Next
  BY <1>3, CodeFormat
<1>4. ASSUME NEW l \in Lines, DataLine(l) PROVE Format!Next
  BY <1>4, DataFormat
<1>5. CASE EndOfFile
  <2>1. /\ UNCHANGED <<line, settings, instructions, tid, data, data_start>>
        /\ phase' = "done" /\ UNCHANGED seen
    BY <1>5 DEF EndOfFile
  <2>2. Place' = 0 /\ CodeSoFar' = CodeSoFar /\ MemorySoFar' = MemorySoFar
    BY <2>1, CodeSame, MemorySame DEF Place
  <2>3. Format!End
    BY <2>1, <2>2 DEF Format!End
  <2> QED
    BY <2>3 DEF Format!Next
<1>6. CASE UNCHANGED vars
  <2>1. UNCHANGED <<line, settings, instructions, tid, data, data_start, phase, inst, data_i, seen>>
    BY <1>6 DEF vars
  <2>2. Place' = Place /\ CodeSoFar' = CodeSoFar /\ MemorySoFar' = MemorySoFar
    BY <2>1, CodeSame, MemorySame DEF Place
  <2> QED
    BY <2>1, <2>2 DEF Format!vars
<1> QED
  BY <1>1, <1>2, <1>3, <1>4, <1>5, <1>6 DEF Next, Stopped

(* What the loader has built is at every line of every image what the      *)
(* lines so far say, each instruction and each word of the block in its    *)
(* place, for any number of threads and any room (sim_api.c:172-244).  It  *)
(* says nothing of addresses outside the block.                            *)
THEOREM LoaderRefinesFormat ==
  ASSUME OrdinaryImages, OrdinaryBlock, PlainImages
  PROVE  Spec => ImplementsFormat
<1>1. Init => DataInBlock
  BY DEF Init, DataInBlock
<1>2. LoaderInv /\ DataInBlock /\ [Next]_vars => DataInBlock'
  BY DataInBlockKept
<1>3. LoaderInv /\ DataInBlock /\ [Next]_vars => [Format!Next]_(Format!vars)
  BY StepFormat
<1> QED
  BY <1>1, <1>2, <1>3, InitFormat, LoaderInvariance, PTL
     DEF Spec, ImplementsFormat, Format!Spec
===============================================================================
