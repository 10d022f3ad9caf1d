SPECIFICATION Spec
CONSTANTS
  N = 4
  NumRegs = 1
  HalfWord = 1
  DataStart = 0
  DataWords = 1
  Images <- MCImages
  Timers <- MCTimers
  Garbage <- MCGarbage
INVARIANTS
  SearchCorrect
  MinTimerInitialised
PROPERTY SearchReturns
