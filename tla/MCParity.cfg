SPECIFICATION ParitySpec
CONSTANTS
  Reversed <- SmallReversed
  TextLen = 2
  Pairs <- SmallPairs
CHECK_DEADLOCK FALSE
INVARIANTS
  ParityTypeOK
  NoFalseAgreement
  NoFalseIssue
