SPECIFICATION MainSpec
CONSTANTS
  Regs = {r0, r1}
  Opcodes <- MCOpcodes
  MaxInsts = 2
  HalfWord = 8
  LatencyFiles <- MCLatencyFiles
  Quota = 3
INVARIANT InvalidIndexRejected
