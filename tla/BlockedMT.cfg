SPECIFICATION FairSpec
CONSTANTS
  N = 3
  NumRegs = 2
  HalfWord = 8
  DataStart = 0
  DataWords = 2
  Images <- MCImages
  GhostTimers = {0, 1}
  MaxCycles = 20
INVARIANTS
  TypeOK
  ReadyAtLoopHead
  WaitsForEarliest
  TimerMeetsDeadline
  CyclesAccounted
PROPERTIES
  ImplementsSC
  ReturnsIfGhostIsZero
