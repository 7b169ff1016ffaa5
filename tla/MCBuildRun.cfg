SPECIFICATION BuildRunSpec
CONSTANTS
  Repos <- MCRepos
  NoRepo = ""
  Pres <- MCPres
  NoPre = ""
  Configs <- MCConfigs
  Listings <- MCListings
  Digests <- MCDigests
  NoDigest = "none"
  Worlds <- MCWorlds
  Pushes <- MCPushes
  MaxMoves = 2
  Requests <- MCRequests
  NewDigests <- MCNewDigests
  OwnLabel = {}
  Now = 5
INVARIANTS
  BuildRunInv
  BuiltOnRebuilt
  NoMissedUpdate
  Converges
  NothingLost
CHECK_DEADLOCK FALSE
