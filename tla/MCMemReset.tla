------------------------------- MODULE MCMemReset -------------------------------
(* Images for up to two threads with two instructions and two data words,  *)
(* at an ordinary address and at the upper end of the positive ones.       *)
EXTENDS MemReset

Line(kind, val) == [kind |-> kind, val |-> val]

Inst(opcode, src2, src2Reg) ==
  Line("inst", [opcode |-> opcode, dst |-> 1, src1 |-> 0, src2 |-> src2,
                src2Reg |-> src2Reg, note |-> NoNote, spaced |-> TRUE])

MCLines ==
  { Line("blank", 0), Line("S", 3), Line("N", 1), Line("N", 2),
    Line("T", 0), Line("T", 1), Line("I@", 0), Line("D@", 8), Line("D@", HalfWord - 4),
    Inst("ADDI", 1, FALSE), Inst("ADD", 1, TRUE), Inst("NOP", 0, FALSE),
    Inst("HALT", 0, FALSE), Line("data", 1), Line("data", -2) }

(* The images are of the kind that the theorems about the loader are for.  *)
ASSUME ImagesAreOrdinary ==
  (Separated => OrdinaryImages) /\ OrdinaryBlock /\ PlainImages
=============================================================================
