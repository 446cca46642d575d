SPECIFICATION StreamFairSpec
CONSTANTS
  None = None
  g = g
  a1 = a1
  b1 = b1
  Block <- SmallBlocks
  Chain <- SmallChain
  NewNotes <- SmallNewNotes
  TreeSize <- SmallTreeSize
  U32Max = 4
  SizePools <- Pools
  FinalStatePools <- Pools
  VerbosePools <- Pools
  StartHeight = 0
  Backfill = 2
  Expected = None
  Rejected <- NoBlocks
  PreS11Lo = 1
  PreS11Hi = 0
  Ranges <- SmallRanges
  ChannelSize = 1
INVARIANTS
  StreamTypeOK
  StreamIsSnapshot
  StoredHeightsServed
PROPERTY
  RefinesBlockFeed
  StreamTaskEnds
