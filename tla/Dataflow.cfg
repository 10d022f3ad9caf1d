SPECIFICATION MainSpec
CONSTANTS
  Regs = {r0, r1}
  Opcodes <- MCOpcodes
  MaxInsts = 4
  HalfWord = 8
  LatencyFiles <- MCLatencyFiles
  Quota = 3
INVARIANTS
  TypeOK
  DepsAreLastWriters
  DepthIsLongestChain
  ProgDepthIsLongest
  InputsArrive
