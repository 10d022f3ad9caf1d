SPECIFICATION SimSpec
CONSTANTS
  N = 3
  NumRegs = 2
  HalfWord = 8
  DataStart = 0
  DataWords = 2
  Images <- MCImages
  GhostTimers = {0}
  MaxCycles = 20
INVARIANT ThreadsRunAlone
