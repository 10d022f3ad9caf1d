------------------------------- MODULE MTImages -------------------------------
(***************************************************************************)
(* Small memory images for the runs of the HW4 cores.  The programs share  *)
(* two words of data, read and write the same cells, compute addresses in  *)
(* registers, wrap around a 4-bit word and end at different times.         *)
(***************************************************************************)
EXTENDS Integers, Sequences

Instr(op, dst, src1, src2, imm) ==
  [opcode |-> op, dst |-> dst, src1 |-> src1, src2 |-> src2, isSrc2Imm |-> imm]

Program(instrs) == [line \in 0 .. Len(instrs) - 1 |-> instrs[line + 1]]

Nop            == Instr("NOP", 0, 0, 0, FALSE)
Halt           == Instr("HALT", 0, 0, 0, FALSE)
Add(d, a, b)   == Instr("ADD", d, a, b, FALSE)
Sub(d, a, b)   == Instr("SUB", d, a, b, FALSE)
AddI(d, a, v)  == Instr("ADDI", d, a, v, TRUE)
SubI(d, a, v)  == Instr("SUBI", d, a, v, TRUE)
Load(d, a, v)  == Instr("LOAD", d, a, v, TRUE)
LoadR(d, a, b) == Instr("LOAD", d, a, b, FALSE)
Store(d, a, v) == Instr("STORE", d, a, v, TRUE)

Increment == Program(<<Load(0, 1, 0), Add(0, 0, 0), Store(1, 0, 0), Halt>>)
Double    == Program(<<Load(0, 1, 4), Add(0, 0, 0), Store(1, 0, 4), Halt>>)
Copy      == Program(<<AddI(1, 1, 4), LoadR(0, 1, 0), Store(1, 0, -4), Halt>>)
StoreOnly == Program(<<AddI(0, 0, 7), AddI(0, 0, 3), Store(1, 0, 0), Halt>>)
HaltOnly  == Program(<<Halt>>)
Compute   == Program(<<Nop, SubI(0, 0, 3), Sub(1, 0, 0), Halt>>)
Reload    == Program(<<AddI(1, 1, 4), Load(0, 1, 0), Load(1, 1, -4), Halt>>)

Image(code, data, load, store, switch) ==
  [code |-> code, data |-> data, load |-> load, store |-> store,
   switch |-> switch]
=============================================================================
