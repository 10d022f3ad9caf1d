SPECIFICATION SpecBoth
CONSTANTS
  Configs <- MCConfigs
  CounterSize = 2
INVARIANTS
  TypeOK
  RanksArePermutation
  SearchesFindValid
  AddressesFit
  CountersAgree
  OldInclusive
PROPERTIES
  L1IsLRU
  AllocatesAsSaid
  DirtyKept
