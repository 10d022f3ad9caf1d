------------------------------- MODULE MCMTSim -------------------------------
(* Both cores on three threads, each with one of seven programs.           *)
EXTENDS MTSim, MTImages

MCData == [c \in 0 .. 1 |-> c + 2]
MCPrograms == {Increment, Double, Copy, StoreOnly, HaltOnly, Compute, Reload}

MCImages ==
  { Image(code, MCData, load, 1, switch) :
      code \in [0 .. 2 -> MCPrograms], load \in {0, 4}, switch \in {0, 2} }
=============================================================================
