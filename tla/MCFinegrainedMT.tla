--------------------------- MODULE MCFinegrainedMT ---------------------------
(* Three threads, each with one of five programs; latencies from none to   *)
(* longer than the other threads' work.                                    *)
EXTENDS FinegrainedMT, MTImages

MCData == [c \in 0 .. 1 |-> c + 2]
MCPrograms == {Increment, Copy, StoreOnly, HaltOnly, Compute}

MCImages ==
  { Image(code, MCData, load, store, 0) :
      code \in [0 .. 2 -> MCPrograms], load \in {0, 5}, store \in {0, 1, 2} }
=============================================================================
