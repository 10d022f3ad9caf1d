--------------------------- MODULE MCBranchPredictor ---------------------------
(* Three branches: the first two share an entry of the buffer; the bits    *)
(* that are shared with a table index differ at both places.               *)
EXTENDS BranchPredictor

Line(pc, targetPc, taken) == [pc |-> pc, targetPc |-> targetPc, taken |-> taken]

MCBranches ==
  { Line(4, 40, TRUE), Line(4, 80, TRUE), Line(4, 40, FALSE),
    Line(12, 40, TRUE), Line(65544, 40, TRUE) }

MCConfigs ==
  { c \in [btbIndexSize : {1}, historySize : {1, 2}, tagSize : {2},
           fsmState : {0, 2}, isGlobalHist : BOOLEAN, isGlobalTable : BOOLEAN,
           Shared : 0 .. 2] :
      /\ ~c.isGlobalTable => c.Shared = 0
      /\ c.historySize = 2 => c.fsmState = 0 }
=============================================================================
