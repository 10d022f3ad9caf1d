SPECIFICATION Spec
CONSTANTS
  N = 2
  NumRegs = 2
  HalfWord = 16
  DataStart = 0
  DataWords = 2
  Images = {}
  InstRoom = 2
  Lines <- MCLines
  Separated = TRUE
  Uninitialised = Uninitialised
INVARIANTS
  TypeOK
  AlwaysDefined
  AddressesHitOwnWord
PROPERTY ImplementsFormat
