SPECIFICATION ServeSpec
CONSTANTS
  None = None
  g = g
  a1 = a1
  a2 = a2
  b1 = b1
  Block <- AllBlocks
  Chain <- MCChain
  NewNotes <- MCNewNotes
  TreeSize <- MCTreeSize
  U32Max = 3
  SizePools <- Pools
  FinalStatePools <- Pools
  VerbosePools <- Pools
  StartHeight = 0
  Backfill = 2
  Expected = g
  Rejected <- NoBlocks
  PreS11Lo = 1
  PreS11Hi = 0
  Requests <- AllRequests
  Completing <- SubtreeBlocks
INVARIANTS
  ServeTypeOK
  LatestNamesABlock
  RootsNameTheirBlock
PROPERTY
  TreeStateOfStoredBlock
