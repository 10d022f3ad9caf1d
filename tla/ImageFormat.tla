------------------------------ MODULE ImageFormat ------------------------------
(***************************************************************************)
(* What a memory image means, as sim_api.h and the comments of the images  *)
(* say: settings, then code per thread and data values at addresses, each  *)
(* line in its place.  A segment of data has room for some words, and what *)
(* no line of it defines is zero.                                          *)
(***************************************************************************)
EXTENDS Integers

CONSTANTS
  Lines,      \* the lines an image may have, each with its kind and value
  Settings,   \* the kinds of lines that set a parameter
  NoCode,     \* the code of all threads before a line is read
  Meaning(_), \* the instruction an instruction line writes down
  After(_),   \* the address of the data word behind an address
  Room(_)     \* the addresses of the words a segment of data has room for

VARIABLES
  line,      \* the line read last
  settings,  \* L, S, O and N
  thread,    \* the thread whose code follows
  at,        \* where the next instruction or data word belongs
  code,      \* the lines of code of each thread
  memory     \* the words of data at their addresses

vars == <<line, settings, thread, at, code, memory>>

Init ==
  /\ line = [kind |-> "blank", val |-> 0]
  /\ settings = [s \in Settings |-> 0]
  /\ thread = -1
  /\ at = 0
  /\ code = NoCode
  /\ memory = [a \in {} |-> 0]

Setting ==
  /\ line'.kind \in Settings
  /\ settings' = [settings EXCEPT ![line'.kind] = line'.val]
  /\ UNCHANGED <<thread, at, code, memory>>

Thread ==
  /\ line'.kind = "T"
  /\ thread' = line'.val
  /\ UNCHANGED <<settings, at, code, memory>>

CodeSegment ==
  /\ line'.kind = "I@"
  /\ at' = line'.val
  /\ UNCHANGED <<settings, thread, code, memory>>

DataSegment ==
  /\ line'.kind = "D@"
  /\ at' = line'.val
  /\ memory' = [a \in Room(line'.val) |-> 0]
  /\ UNCHANGED <<settings, thread, code>>

Instruction ==
  /\ line'.kind = "inst"
  /\ code' = [code EXCEPT ![thread][at] = Meaning(line'.val)]
  /\ at' = at + 1
  /\ UNCHANGED <<settings, thread, memory>>

Datum ==
  /\ line'.kind = "data"
  /\ memory' = [memory EXCEPT ![at] = line'.val]
  /\ at' = After(at)
  /\ UNCHANGED <<settings, thread, code>>

(* An empty line or a comment ends the segment.                            *)
Blank ==
  /\ line'.kind = "blank"
  /\ at' = 0
  /\ UNCHANGED <<settings, thread, code, memory>>

(* So does the end of the image.                                           *)
End ==
  /\ at' = 0
  /\ UNCHANGED <<line, settings, thread, code, memory>>

Next ==
  \/ End
  \/ /\ line' \in Lines
     /\ \/ Setting \/ Thread \/ CodeSegment \/ DataSegment
        \/ Instruction \/ Datum \/ Blank

Spec == Init /\ [][Next]_vars
=============================================================================
