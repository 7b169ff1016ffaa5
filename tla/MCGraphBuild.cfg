SPECIFICATION GraphSpec
CONSTANTS
  Repos <- MCRepos
  NoRepo = ""
  Pres <- MCPres
  NoPre = ""
  Configs <- MCConfigs
  Listings <- MCListings
  Digests <- MCDigests
  NoDigest = "none"
  Worlds <- MCWorlds
  Pushes <- MCPushes
  MaxMoves = 1
INVARIANTS
  GraphInv
  OutdatedClosed
  OkWasRead
  MarkingExact
PROPERTIES
  OneReading
CHECK_DEADLOCK FALSE
