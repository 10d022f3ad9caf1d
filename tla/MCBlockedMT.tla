----------------------------- MODULE MCBlockedMT -----------------------------
(* Three threads, each with one of five programs; latencies shorter and    *)
(* longer than the other threads' work and than the switch penalty.        *)
EXTENDS BlockedMT, MTImages

MCData == [c \in 0 .. 1 |-> c + 2]
MCPrograms == {Increment, Copy, StoreOnly, HaltOnly, Compute}

MCImages ==
  { Image(code, MCData, load, store, switch) :
      code \in [0 .. 2 -> MCPrograms],
      load \in {0, 5}, store \in {1, 2}, switch \in {0, 2} }
=============================================================================
