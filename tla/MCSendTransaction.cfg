SPECIFICATION SendSpec
CONSTANTS
  None = None
  Blank = Blank
  NoColon = NoColon
  NodeUrl = here
  Configs <- OneConfig
  UserPass <- SetPair
  Inline <- Unset
  Explicit <- Unset
  Cache <- OneFile
  RunKind <- ThreeRuns
  Open <- NoRun
  Fixed <- PairAtEnds
  CookiePath <- SameFile
  Calls = {c1, c2}
  valid = valid
  invalid = invalid
  secret = secret
  Empty = Empty
  Txs <- AllTxs
  Invalid <- InvalidTxs
INVARIANTS
  SendTypeOK
  OkMeansTaken
  RefusalIsFinal
PROPERTY
  EveryCallAnswered
