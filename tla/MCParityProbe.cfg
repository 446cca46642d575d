SPECIFICATION ProbeSpec
CONSTANTS
  None = None
  g = g
  a1 = a1
  a2 = a2
  b1 = b1
  Block <- SmallBlocks
  Chain <- MCChain
  NewNotes <- MCNewNotes
  TreeSize <- MCTreeSize
  U32Max = 3
  SizePools <- MCReplyPools
  FinalStatePools <- MCReplyPools
  VerbosePools <- MCReplyPools
  EngineSizes <- MCEngineSizes
  Windows <- MCWindows
INVARIANTS
  SuccessMeansParity
  FailureMeansDifference
