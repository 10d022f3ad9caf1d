SPECIFICATION FairSpec
CONSTANTS
  N = 3
  NumRegs = 2
  HalfWord = 8
  DataStart = 0
  DataWords = 2
  Images <- MCImages
INVARIANTS
  TypeOK
  ChoiceStands
  TimerMeetsDeadline
  OvertakenAtMostOnce
PROPERTIES
  NeverIdlesWhileReady
  ImplementsSC
  Returns
