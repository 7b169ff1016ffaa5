SPECIFICATION FairExpandSpec
CONSTANTS
  MaxPorts = 3
  Repos <- MCRepos
  NoRepo = ""
  Pres <- MCPres
  NoPre = ""
  Configs <- MCConfigs
  Listings <- MCListings
INVARIANTS
  SortInv
  OrderSound
  CycleVerdict
  ExpandInv
  UniqueOwner
  ProducedBaseIsParent
  FloatingOnNewest
  CoveredIfDistinct
  TreeOnce
PROPERTIES
  SortTerminates
  RefinesTopoOrder
CHECK_DEADLOCK FALSE
