SPECIFICATION BuildRunSpec
CONSTANTS
  Repos <- MCRepos
  NoRepo = ""
  Pres <- MCPres
  NoPre = ""
  Configs <- MCConfigs
  Listings <- MCListings
  Digests <- MCDigests
  NoDigest = "none"
  Worlds <- MCWorlds
  Pushes <- MCPushes
  MaxMoves = 0
  Requests <- MCRequests
  NewDigests <- MCNewDigests
  OwnLabel = {"b"}
  Now = 5
INVARIANTS
  LabelWritten
CHECK_DEADLOCK FALSE
