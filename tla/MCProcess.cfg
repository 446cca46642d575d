SPECIFICATION Spec
CONSTANTS
  None = None
  Blank = Blank
  NoColon = NoColon
  NodeUrl = here
  elsewhere = elsewhere
  Configs <- MCConfigs
  UserPass <- MCUserPass
  Inline <- MCInline
  Explicit <- MCExplicit
  Cache <- MCCache
  RunKind <- MCRunKind
  Open <- LastRun
  Fixed <- NoPairs
  CookiePath <- MCCookiePath
INVARIANTS
  ProcessTypeOK
  AcceptedWhileNodeRuns
  CookieFound
  InfoOfTwoNodes
PROPERTY
  InfoRefreshes
