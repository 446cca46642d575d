SPECIFICATION Spec
CONSTANTS
  None = None
  g = g
  a1 = a1
  a2 = a2
  a3 = a3
  b1 = b1
  b2 = b2
  t = t
  Block <- LinearBlocks
  Chain <- MCChain
  NewNotes <- MCNewNotes
  TreeSize <- MCTreeSize
  U32Max = 4
  SizePools <- OnlySapling
  FinalStatePools <- NotSapling
  VerbosePools <- Pools
  StartHeight = 0
  Backfill = 1
  Expected = None
  Rejected <- NoBlocks
  PreS11Lo = 1
  PreS11Hi = 0
INVARIANT
  CarriesSizeAfterBlock
