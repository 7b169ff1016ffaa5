SPECIFICATION ExpandSpec
CONSTANTS
  MaxPorts = 0
  Repos <- MCRepos
  NoRepo = ""
  Pres <- MCPres
  NoPre = ""
  Configs <- MCConfigs
  Listings <- MCListings
INVARIANTS
  UpstreamComplete
CHECK_DEADLOCK FALSE
