SPECIFICATION CodecSpec
CONSTANTS
  U32Max = 3
  Base = 8
  Wide <- SmallWide
  HeaderPrefix = 2
  Op1 = 4
  OpLast = 5
  MaxPush = 3
  GenesisBits = 20
  Blocks <- SmallBlocks
CHECK_DEADLOCK FALSE
INVARIANTS
  CodecTypeOK
  OnlyWholeBlocks
  HeightSurvives
  KeepsShielded
