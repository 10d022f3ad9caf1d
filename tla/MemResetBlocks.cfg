SPECIFICATION Spec
CONSTANTS
  N = 2
  NumRegs = 2
  HalfWord = 16
  DataStart = 0
  DataWords = 2
  Images = {}
  InstRoom = 2
  Lines <- MCLines
  Separated = FALSE
  Uninitialised = Uninitialised
INVARIANT DataLinesLoaded
